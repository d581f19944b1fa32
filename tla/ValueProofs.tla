---------------------------- MODULE ValueProofs ----------------------------
(***************************************************************************)
(* Proofs about MCValue, for any values of its constants: the treasury is  *)
(* never overdrawn, spends a quote once and keeps its books; the compound  *)
(* engine loses no save and reinvests no yield that cannot have accrued;   *)
(* the rewards count and pay every transaction exactly once; the oracle and*)
(* the router tell the truth of the market.                                *)
(***************************************************************************)
EXTENDS MCValue, SetInduction, SequenceTheorems, TLAPS

(***************************************************************************)
(* The treasury (TreasurySwap).                                            *)
(***************************************************************************)

Prepares(c) == calls[c].step \in {"price", "exposure"}

(* The number of a quote is in one place: with the call that prepares it,  *)
(* among the pending quotes, or in the history.                            *)
NumbersAreGivenOut ==
  /\ \A c \in Calls : Prepares(c) => calls[c].trade.id <= requested
  /\ \A q \in quotes : q.id <= requested
  /\ \A i \in DOMAIN history : history[i].quote.id <= requested

PreparedAreNew ==
  \A c \in Calls : Prepares(c) =>
    /\ \A d \in Calls \ {c} : Prepares(d) => calls[d].trade.id # calls[c].trade.id
    /\ \A q \in quotes : q.id # calls[c].trade.id
    /\ \A i \in DOMAIN history : history[i].quote.id # calls[c].trade.id

QuotesDiffer == \A q, r \in quotes : q.id = r.id => q = r

TreasuryIInv ==
  /\ TypeOK
  /\ NumbersAreGivenOut
  /\ PreparedAreNew
  /\ QuotesDiffer
  /\ QuotesAreSpentOnce

---------------------------------------------------------------------------
(* Arithmetic.                                                             *)

LEMMA SpreadIsPart ==
  ASSUME NEW n \in Nat
  PROVE  n - (n * SpreadPct) \div 100 \in Nat
<1>1. SpreadPct \in Int /\ 0 <= SpreadPct /\ SpreadPct <= 100
  BY ConstantsAssumption
<1>2. n * SpreadPct \in Int /\ 0 <= n * SpreadPct /\ n * SpreadPct <= n * 100
  BY <1>1
<1> DEFINE p == n * SpreadPct
<1>3. p \in Int /\ 0 <= p /\ p <= n * 100
  BY <1>2
<1> HIDE DEF p
<1>4. p \div 100 \in Int /\ 0 <= p \div 100 /\ p \div 100 <= n
  BY <1>3
<1>5. n - p \div 100 \in Nat
  BY <1>4
<1> QED BY <1>5 DEF p

LEMMA PaidOutIsNat ==
  ASSUME TypeOK, NEW trade \in Trade
  PROVE  PaidOut(trade) \in Nat
<1>1. /\ trade.amount \in Nat
      /\ market[trade.from] \in Nat
      /\ market[trade.to] \in Nat \ {0}
  BY ConstantsAssumption DEF TypeOK, Trade
<1> DEFINE v == trade.amount * market[trade.from]
           raw == v \div market[trade.to]
<1>2. v \in Nat
  BY <1>1
<1> HIDE DEF v
<1>3. raw \in Nat
  BY <1>1, <1>2
<1> HIDE DEF raw
<1>4. raw - (raw * SpreadPct) \div 100 \in Nat
  BY <1>3, SpreadIsPart
<1> QED BY <1>4 DEF PaidOut, raw, v

(* Recording the prices of a pair keeps the snapshots well formed.         *)
LEMMA SnapshotsType ==
  ASSUME TypeOK, NEW pair
  PROVE  WithPrices(pair) \in [Assets -> SUBSET Snapshot]
<1>1. ASSUME NEW a \in Assets
      PROVE  /\ snapshots[a] \subseteq Snapshot
             /\ Recent(snapshots[a]) \subseteq Snapshot
             /\ [price |-> market[a], at |-> now] \in Snapshot
  BY ConstantsAssumption DEF TypeOK, Snapshot, Recent
<1> QED BY <1>1 DEF WithPrices

---------------------------------------------------------------------------
(* The parts of the state the actions share.                               *)

Call == {NoCall} \union Pricing \union Limiting \union Charging

LEMMA CallShapes ==
  ASSUME TypeOK, NEW c \in Calls
  PROVE  /\ At(c, "price") => calls[c] \in Pricing
         /\ At(c, "exposure") => calls[c] \in Limiting
         /\ At(c, "charge") => calls[c] \in Charging
         /\ Prepares(c) => calls[c].trade \in Trade
<1>1. calls[c] \in Call
  BY DEF TypeOK, Call
<1> QED BY <1>1 DEF Call, At, Prepares, NoCall, Pricing, Limiting, Charging

LEMMA NumbersAreNat ==
  ASSUME TypeOK
  PROVE  /\ \A c \in Calls : Prepares(c) => calls[c].trade.id \in Nat
         /\ \A q \in quotes : q.id \in Nat
         /\ \A i \in DOMAIN history : history[i].quote.id \in Nat
<1>1. \A c \in Calls : Prepares(c) => calls[c].trade.id \in Nat
  BY CallShapes DEF Trade
<1>2. \A q \in quotes : q.id \in Nat
  BY DEF TypeOK, Quote
<1>3. ASSUME NEW i \in DOMAIN history
      PROVE  history[i].quote.id \in Nat
  <2>1. history[i] \in Swap
    BY DEF TypeOK
  <2> QED BY <2>1 DEF Swap, Quote
<1> QED BY <1>1, <1>2, <1>3

LEMMA CallUpdate ==
  ASSUME TypeOK, NEW c \in Calls, NEW new \in Call,
         calls' = [calls EXCEPT ![c] = new]
  PROVE  /\ calls' \in [Calls -> Call]
         /\ calls'[c] = new
         /\ \A d \in Calls \ {c} : calls'[d] = calls[d]
  BY DEF TypeOK, Call

LEMMA UsedTodayIsNat ==
  ASSUME TypeOK, NEW u \in Users
  PROVE  UsedToday(u) \in Nat
<1>1. usage[u] \in [used : Nat, on : {Never} \union 0..day]
  BY DEF TypeOK
<1> QED BY <1>1 DEF UsedToday

LEMMA UsageUpdate ==
  ASSUME TypeOK, NEW u \in Users, NEW used \in Nat
  PROVE  /\ [usage EXCEPT ![u].used = used]
              \in [Users -> [used : Nat, on : {Never} \union 0..day]]
         /\ [usage EXCEPT ![u] = [used |-> used, on |-> day]]
              \in [Users -> [used : Nat, on : {Never} \union 0..day]]
<1> DEFINE Usage == [used : Nat, on : {Never} \union 0..day]
<1>1. usage \in [Users -> Usage] /\ usage[u] \in Usage /\ day \in Nat
  BY ConstantsAssumption DEF TypeOK
<1>3. [usage[u] EXCEPT !.used = used] \in Usage /\ [used |-> used, on |-> day] \in Usage
  BY <1>1
<1> HIDE DEF Usage
<1>4. /\ [usage EXCEPT ![u].used = used] \in [Users -> Usage]
      /\ [usage EXCEPT ![u] = [used |-> used, on |-> day]] \in [Users -> Usage]
  BY <1>1, <1>3
<1> QED BY <1>4 DEF Usage

(* A call that goes on with its trade or stops preparing one, while no     *)
(* quote is issued or executed, gives no number out twice.                 *)
LEMMA NoNewNumbers ==
  ASSUME TreasuryIInv,
         \A c \in Calls : Prepares(c)' => Prepares(c) /\ calls'[c].trade = calls[c].trade,
         quotes' \subseteq quotes, history' = history, requested' = requested
  PROVE  /\ NumbersAreGivenOut'
         /\ PreparedAreNew'
         /\ QuotesDiffer'
         /\ QuotesAreSpentOnce'
<1>1. NumbersAreGivenOut'
  BY DEF TreasuryIInv, NumbersAreGivenOut
<1>2. PreparedAreNew'
  <2> SUFFICES ASSUME NEW c \in Calls, Prepares(c)'
               PROVE  /\ \A d \in Calls \ {c} :
                           Prepares(d)' => calls'[d].trade.id # calls'[c].trade.id
                      /\ \A q \in quotes' : q.id # calls'[c].trade.id
                      /\ \A i \in DOMAIN history' :
                           history'[i].quote.id # calls'[c].trade.id
    BY DEF PreparedAreNew
  <2> QED BY DEF TreasuryIInv, PreparedAreNew
<1>3. QuotesDiffer'
  BY DEF TreasuryIInv, QuotesDiffer
<1>4. QuotesAreSpentOnce'
  BY DEF TreasuryIInv, QuotesAreSpentOnce
<1> QED BY <1>1, <1>2, <1>3, <1>4

LEMMA InitIInv == Init => TreasuryIInv
<1> SUFFICES ASSUME Init
             PROVE  TreasuryIInv
  OBVIOUS
<1>1. \A c \in Calls : ~Prepares(c)
  BY DEF Init, Prepares, NoCall
<1>2. TypeOK
  <2>1. /\ 0 \in 0..MaxRequests /\ 0 \in 0..MaxTime /\ 0 \in 0..MaxDay
        /\ InitialBalances \in [Assets -> Nat]
    BY ConstantsAssumption
  <2>2. /\ history \in Seq(Swap)
        /\ snapshots \in [Assets -> SUBSET Snapshot]
    BY DEF Init
  <2>3. usage \in [Users -> [used : Nat, on : {Never} \union 0..day]]
    BY DEF Init
  <2>4. paused \in BOOLEAN
    BY DEF Init
  <2> QED BY <2>1, <2>2, <2>3, <2>4 DEF Init, TypeOK
<1>3. NumbersAreGivenOut /\ PreparedAreNew /\ QuotesDiffer /\ QuotesAreSpentOnce
  BY <1>1 DEF Init, NumbersAreGivenOut, PreparedAreNew, QuotesDiffer, QuotesAreSpentOnce
<1> QED BY <1>2, <1>3 DEF TreasuryIInv

---------------------------------------------------------------------------
(* One lemma per action.                                                   *)

LEMMA RequestQuoteStep ==
  ASSUME TreasuryIInv, NEW c \in Calls, NEW u \in Users, NEW from \in Assets,
         NEW to \in Assets, NEW amount \in Amounts,
         RequestQuote(c, u, from, to, amount)
  PROVE  TreasuryIInv'
<1> USE DEF TreasuryIInv
<1> DEFINE trade == [id |-> requested + 1, from |-> from, to |-> to, amount |-> amount]
           new == [step |-> "price", trade |-> trade]
<1>1. usage' \in [Users -> [used : Nat, on : {Never} \union 0..day]]
  BY UsedTodayIsNat, UsageUpdate DEF RequestQuote
<1>2. CASE requested' = requested + 1 /\ calls' = [calls EXCEPT ![c] = new]
  <2>1. trade \in Trade /\ trade.id = requested + 1 /\ requested \in Nat
    <3>1. from # to /\ requested \in Nat
      BY DEF RequestQuote, TypeOK
    <3> QED BY <3>1 DEF Trade
  <2> HIDE DEF trade
  <2>2. new \in Call /\ new.step = "price" /\ new.trade = trade
    BY <2>1 DEF Call, Pricing
  <2> HIDE DEF new
  <2>3. /\ calls' \in [Calls -> Call]
        /\ calls'[c] = new
        /\ \A d \in Calls \ {c} : calls'[d] = calls[d]
    BY <1>2, <2>2, CallUpdate
  <2>4. TypeOK'
    <3>1. requested' \in 0..MaxRequests
      <4>1. requested < MaxRequests
        BY DEF RequestQuote
      <4>2. requested \in 0..MaxRequests /\ MaxRequests \in Nat
        BY ConstantsAssumption DEF TypeOK
      <4> QED BY <1>2, <4>1, <4>2
    <3> QED BY <1>1, <2>3, <3>1
            DEF TypeOK, RequestQuote, engineVars, worldVars, Call, Snapshot
  <2>5. /\ quotes' = quotes /\ history' = history
        /\ \A d \in Calls \ {c} : Prepares(d)' => Prepares(d)
    BY <2>3 DEF RequestQuote, engineVars, Prepares
  <2>6. /\ \A d \in Calls : Prepares(d) => calls[d].trade.id \in Nat
        /\ \A q \in quotes : q.id \in Nat
        /\ \A i \in DOMAIN history : history[i].quote.id \in Nat
    BY NumbersAreNat
  <2>7. NumbersAreGivenOut'
    BY <1>2, <2>1, <2>2, <2>3, <2>5, <2>6 DEF NumbersAreGivenOut
  <2>8. PreparedAreNew'
    <3> SUFFICES ASSUME NEW d \in Calls, Prepares(d)'
                 PROVE  /\ \A e \in Calls \ {d} :
                             Prepares(e)' => calls'[e].trade.id # calls'[d].trade.id
                        /\ \A q \in quotes' : q.id # calls'[d].trade.id
                        /\ \A i \in DOMAIN history' :
                             history'[i].quote.id # calls'[d].trade.id
      BY DEF PreparedAreNew
    <3>1. CASE d = c
      BY <2>1, <2>2, <2>3, <2>5, <2>6, <3>1 DEF NumbersAreGivenOut
    <3>2. CASE d # c
      BY <2>1, <2>2, <2>3, <2>5, <2>6, <3>2 DEF NumbersAreGivenOut, PreparedAreNew
    <3> QED BY <3>1, <3>2
  <2>9. QuotesDiffer' /\ QuotesAreSpentOnce'
    BY <2>5 DEF QuotesDiffer, QuotesAreSpentOnce
  <2> QED BY <2>4, <2>7, <2>8, <2>9
<1>3. CASE UNCHANGED <<requested, calls>>
  <2>1. TypeOK'
    BY <1>1, <1>3 DEF TypeOK, RequestQuote, engineVars, worldVars, Snapshot
  <2> QED BY <1>3, <2>1, NoNewNumbers DEF RequestQuote, engineVars, Prepares
<1> QED BY <1>2, <1>3 DEF RequestQuote

LEMMA AskOracleStep ==
  ASSUME TreasuryIInv, NEW c \in Calls, AskOracle(c)
  PROVE  TreasuryIInv'
<1> USE DEF TreasuryIInv
<1> DEFINE trade == calls[c].trade
           next == [step |-> "exposure", trade |-> trade, out |-> PaidOut(trade),
                    held |-> balances]
<1>1. At(c, "price") /\ Prepares(c) /\ trade \in Trade
  BY CallShapes DEF AskOracle, At, Prepares
<1>2. snapshots' \in [Assets -> SUBSET Snapshot]
  <2>1. snapshots' = WithPrices({trade.from, trade.to})
    BY DEF AskOracle
  <2> QED BY <2>1, SnapshotsType
<1>3. paused' \in BOOLEAN
  <2>1. paused' = (paused \/ \E a \in Assets : Moved(snapshots'[a]))
    BY DEF AskOracle
  <2> QED BY <2>1
<1>4. \E new \in {next, NoCall} : calls' = [calls EXCEPT ![c] = new]
  BY DEF AskOracle, Return
<1>5. next \in Call /\ NoCall \in Call /\ next.trade = trade
  BY <1>1, PaidOutIsNat DEF Call, Limiting, TypeOK
<1>6. NoCall.step = "idle"
  BY DEF NoCall
<1> HIDE DEF next
<1>7. PICK new \in {next, NoCall} : calls' = [calls EXCEPT ![c] = new]
  BY <1>4
<1>8. /\ calls' \in [Calls -> Call]
      /\ calls'[c] = new
      /\ \A d \in Calls \ {c} : calls'[d] = calls[d]
  BY <1>5, <1>7, CallUpdate
<1>9. TypeOK'
  BY <1>2, <1>3, <1>8 DEF TypeOK, AskOracle, worldVars, Call, Snapshot
<1>10. \A d \in Calls : Prepares(d)' => Prepares(d) /\ calls'[d].trade = calls[d].trade
  BY <1>1, <1>5, <1>6, <1>8 DEF Prepares
<1>11. quotes' = quotes /\ history' = history /\ requested' = requested
  BY DEF AskOracle
<1> QED BY <1>9, <1>10, <1>11, NoNewNumbers

LEMMA IssueQuoteStep ==
  ASSUME TreasuryIInv, NEW c \in Calls, IssueQuote(c)
  PROVE  TreasuryIInv'
<1> USE DEF TreasuryIInv
<1> DEFINE trade == calls[c].trade
           q == [id |-> trade.id, from |-> trade.from, to |-> trade.to,
                 amount |-> trade.amount, out |-> calls[c].out,
                 expires |-> now + QuoteTtl]
<1>1. /\ Prepares(c)
      /\ trade \in Trade
      /\ calls[c] \in Limiting
  BY CallShapes DEF IssueQuote, At, Prepares
<1>2. q \in Quote /\ q.id = trade.id
  <2>1. calls[c].out \in Nat
    BY <1>1 DEF Limiting
  <2>2. now + QuoteTtl \in Nat
    BY ConstantsAssumption DEF TypeOK
  <2> HIDE DEF trade
  <2> QED BY <1>1, <2>1, <2>2 DEF Trade, Quote
<1>3. \/ quotes' = quotes
      \/ quotes' = quotes \union {q}
  BY DEF IssueQuote
<1> HIDE DEF q
<1>4. NoCall \in Call /\ NoCall.step = "idle"
  BY DEF Call, NoCall
<1>5. /\ calls' \in [Calls -> Call]
      /\ calls'[c] = NoCall
      /\ \A d \in Calls \ {c} : calls'[d] = calls[d]
  BY <1>4, CallUpdate DEF IssueQuote, Return
<1>6. history' = history /\ requested' = requested
  BY DEF IssueQuote
<1>7. TypeOK'
  <2>1. quotes' \subseteq Quote
    BY <1>2, <1>3 DEF TypeOK
  <2> QED BY <1>5, <2>1 DEF TypeOK, IssueQuote, worldVars, Call, Snapshot
<1>8. \A d \in Calls : Prepares(d)' =>
        d # c /\ Prepares(d) /\ calls'[d] = calls[d]
  BY <1>4, <1>5 DEF Prepares
<1>9. NumbersAreGivenOut'
  BY <1>1, <1>2, <1>3, <1>6, <1>8 DEF NumbersAreGivenOut
<1>10. PreparedAreNew'
  <2> SUFFICES ASSUME NEW d \in Calls, Prepares(d)'
               PROVE  /\ \A e \in Calls \ {d} :
                           Prepares(e)' => calls'[e].trade.id # calls'[d].trade.id
                      /\ \A p \in quotes' : p.id # calls'[d].trade.id
                      /\ \A i \in DOMAIN history' :
                           history'[i].quote.id # calls'[d].trade.id
    BY DEF PreparedAreNew
  <2> QED BY <1>1, <1>2, <1>3, <1>6, <1>8 DEF PreparedAreNew
<1>11. QuotesDiffer'
  BY <1>1, <1>2, <1>3 DEF QuotesDiffer, PreparedAreNew
<1>12. QuotesAreSpentOnce'
  BY <1>1, <1>2, <1>3, <1>6 DEF QuotesAreSpentOnce, PreparedAreNew
<1> QED BY <1>7, <1>9, <1>10, <1>11, <1>12

(* Settling a quote moves it from the pending quotes to the history.       *)
LEMMA ExecuteSwapStep ==
  ASSUME TreasuryIInv, NEW c \in Calls, NEW u \in Users, NEW q \in quotes,
         ExecuteSwap(c, u, q)
  PROVE  TreasuryIInv'
<1> USE DEF TreasuryIInv
<1>1. CASE /\ CanFulfill(q.to, q.out)
           /\ balances' = [balances EXCEPT ![q.from] = @ + q.amount, ![q.to] = @ - q.out]
           /\ history' = Append(history, [quote |-> q, user |-> u, day |-> day])
           /\ calls' = [calls EXCEPT ![c] =
                [step |-> "charge", swap |-> [quote |-> q, user |-> u, day |-> day]]]
  <2> DEFINE swap == [quote |-> q, user |-> u, day |-> day]
             new == [step |-> "charge", swap |-> swap]
  <2>1. q \in Quote /\ swap \in Swap /\ swap.quote = q
    BY ConstantsAssumption DEF TypeOK, Swap
  <2> HIDE DEF swap
  <2>2. new \in Call /\ new.step = "charge"
    BY <2>1 DEF Call, Charging
  <2>3. calls' = [calls EXCEPT ![c] = new] /\ history' = Append(history, swap)
    BY <1>1 DEF swap
  <2> HIDE DEF new
  <2>4. /\ calls' \in [Calls -> Call]
        /\ calls'[c] = new
        /\ \A d \in Calls \ {c} : calls'[d] = calls[d]
    BY <2>2, <2>3, CallUpdate
  <2>5. balances' \in [Assets -> Nat]
    <3>1. /\ q.from \in Assets /\ q.to \in Assets
          /\ q.from # q.to
          /\ q.amount \in Nat /\ q.out \in Nat
      BY <2>1, ConstantsAssumption DEF Quote
    <3>2. balances \in [Assets -> Nat] /\ balances[q.to] >= q.out
      BY <1>1 DEF TypeOK, CanFulfill
    <3>3. balances[q.from] + q.amount \in Nat /\ balances[q.to] - q.out \in Nat
      BY <3>1, <3>2
    <3> QED BY <1>1, <3>1, <3>2, <3>3
  <2>6. /\ history' \in Seq(Swap)
        /\ DOMAIN history' = DOMAIN history \union {Len(history) + 1}
        /\ \A i \in DOMAIN history : history'[i] = history[i]
        /\ history'[Len(history) + 1] = swap
        /\ Len(history) + 1 \notin DOMAIN history
    BY <2>1, <2>3 DEF TypeOK
  <2>7. quotes' = quotes \ {q} /\ requested' = requested
    BY DEF ExecuteSwap
  <2>8. TypeOK'
    BY <2>4, <2>5, <2>6, <2>7 DEF TypeOK, ExecuteSwap, worldVars, Call, Snapshot
  <2>9. \A d \in Calls : Prepares(d)' => Prepares(d) /\ calls'[d] = calls[d]
    BY <2>2, <2>4 DEF Prepares
  <2>10. \A i \in DOMAIN history' : \/ i \in DOMAIN history /\ history'[i] = history[i]
                                    \/ i = Len(history) + 1 /\ history'[i].quote = q
    BY <2>1, <2>6
  <2>11. NumbersAreGivenOut'
    BY <2>7, <2>9, <2>10 DEF NumbersAreGivenOut
  <2>12. PreparedAreNew'
    <3> SUFFICES ASSUME NEW d \in Calls, Prepares(d)'
                 PROVE  /\ \A e \in Calls \ {d} :
                             Prepares(e)' => calls'[e].trade.id # calls'[d].trade.id
                        /\ \A p \in quotes' : p.id # calls'[d].trade.id
                        /\ \A i \in DOMAIN history' :
                             history'[i].quote.id # calls'[d].trade.id
      BY DEF PreparedAreNew
    <3> QED BY <2>7, <2>9, <2>10 DEF PreparedAreNew
  <2>13. QuotesDiffer'
    BY <2>7 DEF QuotesDiffer
  <2>14. QuotesAreSpentOnce'
    <3> SUFFICES ASSUME NEW i \in DOMAIN history'
                 PROVE  /\ \A j \in DOMAIN history' \ {i} :
                             history'[j].quote.id # history'[i].quote.id
                        /\ \A p \in quotes' : p.id # history'[i].quote.id
      BY DEF QuotesAreSpentOnce
    <3> QED BY <2>7, <2>10 DEF QuotesAreSpentOnce, QuotesDiffer
  <2> QED BY <2>8, <2>11, <2>12, <2>13, <2>14
<1>2. CASE UNCHANGED <<balances, history, calls>>
  <2>1. quotes' = quotes \ {q} /\ requested' = requested
    BY DEF ExecuteSwap
  <2>2. TypeOK'
    BY <1>2, <2>1 DEF TypeOK, ExecuteSwap, worldVars, Snapshot
  <2> QED BY <1>2, <2>1, <2>2, NoNewNumbers DEF Prepares
<1> QED BY <1>1, <1>2 DEF ExecuteSwap, Settle

LEMMA ChargeStep ==
  ASSUME TreasuryIInv, NEW c \in Calls, Charge(c)
  PROVE  TreasuryIInv'
<1> USE DEF TreasuryIInv
<1> DEFINE s == calls[c].swap
           value == s.quote.amount * market[s.quote.from]
<1>1. s \in Swap
  BY CallShapes DEF Charge, Charging
<1>2. s.user \in Users /\ value \in Nat
  <2>1. s.user \in Users /\ s.quote.amount \in Nat /\ s.quote.from \in Assets
    BY <1>1, ConstantsAssumption DEF Swap, Quote
  <2>2. market[s.quote.from] \in Nat
    BY <2>1, ConstantsAssumption DEF TypeOK
  <2> QED BY <2>1, <2>2
<1>3. usage' \in [Users -> [used : Nat, on : {Never} \union 0..day]]
  <2>1. usage' = [usage EXCEPT ![s.user] =
                    [used |-> UsedToday(s.user) + value, on |-> day]]
    BY DEF Charge, RecordSwap
  <2> HIDE DEF s, value
  <2>2. UsedToday(s.user) + value \in Nat
    BY <1>2, UsedTodayIsNat
  <2> QED BY <1>2, <2>1, <2>2, UsageUpdate
<1>4. NoCall \in Call /\ NoCall.step = "idle"
  BY DEF Call, NoCall
<1>5. /\ calls' \in [Calls -> Call]
      /\ calls'[c] = NoCall
      /\ \A d \in Calls \ {c} : calls'[d] = calls[d]
  BY <1>4, CallUpdate DEF Charge, Return
<1>6. TypeOK'
  BY <1>3, <1>5 DEF TypeOK, Charge, engineVars, worldVars, Call, Snapshot
<1>7. \A d \in Calls : Prepares(d)' => Prepares(d) /\ calls'[d].trade = calls[d].trade
  BY <1>4, <1>5 DEF Prepares
<1>8. quotes' = quotes /\ history' = history /\ requested' = requested
  BY DEF Charge, engineVars
<1> QED BY <1>6, <1>7, <1>8, NoNewNumbers

LEMMA EnvironmentStep ==
  ASSUME TreasuryIInv,
         \/ \E q \in quotes : DropQuote(q)
         \/ \E from, to \in Assets : ListPair(from, to)
         \/ Clock
         \/ Midnight
  PROVE  TreasuryIInv'
<1> USE DEF TreasuryIInv
<1>1. TypeOK'
  <2>1. ASSUME NEW q \in quotes, DropQuote(q)
        PROVE  TypeOK'
    BY <2>1 DEF TypeOK, DropQuote, worldVars, Snapshot
  <2>2. ASSUME NEW from \in Assets, NEW to \in Assets, ListPair(from, to)
        PROVE  TypeOK'
    <3>1. snapshots' \in [Assets -> SUBSET Snapshot]
      BY <2>2, SnapshotsType DEF ListPair
    <3> QED BY <2>2, <3>1 DEF TypeOK, ListPair, worldVars, Snapshot
  <2>3. CASE Clock
    <3>1. now \in Nat /\ now' = now + 1 /\ now' \in 0..MaxTime
      BY <2>3, ConstantsAssumption DEF Clock, TypeOK
    <3>2. Snapshot \subseteq Snapshot'
      BY <3>1 DEF Snapshot
    <3>3. snapshots' \in [Assets -> SUBSET Snapshot']
      BY <2>3, <3>2 DEF Clock, engineVars, TypeOK
    <3> QED BY <2>3, <3>1, <3>3 DEF TypeOK, Clock, engineVars
  <2>4. CASE Midnight
    <3>1. day' \in 0..MaxDay /\ 0..day \subseteq 0..day'
      BY <2>4, ConstantsAssumption DEF Midnight, TypeOK
    <3>2. usage' \in [Users -> [used : Nat, on : {Never} \union 0..day']]
      BY <2>4, <3>1 DEF Midnight, TypeOK
    <3> QED BY <2>4, <3>1, <3>2 DEF TypeOK, Midnight, engineVars, Snapshot
  <2> QED BY <2>1, <2>2, <2>3, <2>4
<1>2. /\ quotes' \subseteq quotes /\ history' = history
      /\ requested' = requested /\ calls' = calls
  BY DEF DropQuote, ListPair, Clock, Midnight, engineVars
<1> QED BY <1>1, <1>2, NoNewNumbers DEF Prepares

LEMMA Inductive == TreasuryIInv /\ [Next]_vars => TreasuryIInv'
<1> SUFFICES ASSUME TreasuryIInv, [Next]_vars
             PROVE  TreasuryIInv'
  OBVIOUS
<1>1. CASE Next
  BY <1>1, RequestQuoteStep, ExecuteSwapStep, AskOracleStep, IssueQuoteStep,
     ChargeStep, EnvironmentStep DEF Next, Step
<1>2. CASE UNCHANGED vars
  <2>1. TypeOK'
    BY <1>2 DEF TreasuryIInv, TypeOK, vars, engineVars, worldVars, Snapshot
  <2> QED BY <1>2, <2>1, NoNewNumbers DEF TreasuryIInv, vars, engineVars, Prepares
<1> QED BY <1>1, <1>2

LEMMA Invariance == Spec => []TreasuryIInv
  BY InitIInv, Inductive, PTL DEF Spec

---------------------------------------------------------------------------
(* Theorems.                                                               *)

(* The treasury is never overdrawn (its balances are naturals), and the    *)
(* rest of the state is well formed, in every behaviour of the engine.     *)
THEOREM NeverOverdrawn == Spec => []TypeOK
<1>1. TreasuryIInv => TypeOK
  BY DEF TreasuryIInv
<1> QED BY <1>1, Invariance, PTL

(* executeSwap: no quote is executed twice, and none that was executed can *)
(* still be, however calls, timers and the clock interleave.               *)
THEOREM SpentOnce == Spec => []QuotesAreSpentOnce
<1>1. TreasuryIInv => QuotesAreSpentOnce
  BY DEF TreasuryIInv
<1> QED BY <1>1, Invariance, PTL

---------------------------------------------------------------------------
(***************************************************************************)
(* What the treasury's history says of its balances and counters.          *)
(***************************************************************************)

HistoryIsPast == \A i \in DOMAIN history : history[i].day <= day

BooksIInv == TreasuryIInv /\ HistoryIsPast /\ BooksBalance /\ SwapsAreCharged

LEMMA HistoryIsSeq ==
  ASSUME TypeOK
  PROVE  /\ Len(history) \in Nat
         /\ DOMAIN history = 1..Len(history)
         /\ IsFiniteSet(DOMAIN history)
         /\ \A i \in DOMAIN history : history[i] \in Swap
<1>1. /\ Len(history) \in Nat
      /\ DOMAIN history = 1..Len(history)
      /\ \A i \in DOMAIN history : history[i] \in Swap
  BY DEF TypeOK
<1> QED BY <1>1, FS_Interval

LEMMA SwapFields ==
  ASSUME NEW s \in Swap
  PROVE  /\ s.user \in Users /\ s.day \in Nat
         /\ s.quote.id \in Nat
         /\ s.quote.from \in Assets /\ s.quote.to \in Assets
         /\ s.quote.from # s.quote.to
         /\ s.quote.amount \in Nat /\ s.quote.out \in Nat
  BY ConstantsAssumption DEF Swap, Quote

(* What a sum over the history is once a swap is appended.                 *)
LEMMA SumOfLonger ==
  ASSUME NEW h, NEW g, NEW n \in Nat, DOMAIN h = 1..n, DOMAIN g = 1..(n + 1),
         \A i \in DOMAIN g : g[i] \in Int,
         \A i \in DOMAIN h : h[i] = g[i]
  PROVE  SumFunction(g) = SumFunction(h) + g[n + 1] /\ SumFunction(h) \in Int
<1>1. /\ \A k \in 1..(n + 1) : g[k] \in Int
      /\ \A k \in 1..n : h[k] = g[k]
  OBVIOUS
<1> QED BY <1>1, SumOfOneMore

(* One summand grows by at most v, and the others are as they were.        *)
LEMMA SumWithOneLarger ==
  ASSUME NEW f, NEW g, NEW S, IsFiniteSet(S), DOMAIN f = S, DOMAIN g = S,
         NEW v \in Nat, \A i \in S : f[i] \in Int /\ g[i] \in Int,
         \A i, j \in S : g[i] # f[i] /\ g[j] # f[j] => i = j,
         \A i \in S : g[i] <= f[i] + v
  PROVE  SumFunction(g) <= SumFunction(f) + v
<1>1. /\ SumFunction(f) = SumFunctionOnSet(f, S)
      /\ SumFunction(g) = SumFunctionOnSet(g, S)
  BY DEF SumFunction
<1>2. SumFunctionOnSet(f, S) \in Int
  BY SumType
<1>3. CASE \A i \in S : g[i] = f[i]
  <2>1. SumFunctionOnSet(g, S) = SumFunctionOnSet(f, S)
    BY <1>3, SumOfEqual
  <2> QED BY <1>1, <1>2, <2>1
<1>4. ASSUME NEW e \in S, g[e] # f[e]
      PROVE  SumFunction(g) <= SumFunction(f) + v
  <2>1. \A i \in S \ {e} : g[i] = f[i]
    BY <1>4
  <2>2. IsFiniteSet(S \ {e}) /\ \A i \in S \ {e} : f[i] \in Int
    BY FS_Subset
  <2>3. SumFunctionOnSet(g, S \ {e}) = SumFunctionOnSet(f, S \ {e})
    BY <2>1, SumOfEqual
  <2>4. SumFunctionOnSet(f, S \ {e}) \in Int
    BY <2>2, SumType
  <2>5. /\ SumFunctionOnSet(f, S) = f[e] + SumFunctionOnSet(f, S \ {e})
        /\ SumFunctionOnSet(g, S) = g[e] + SumFunctionOnSet(g, S \ {e})
    BY SumSplits
  <2> DEFINE rest == SumFunctionOnSet(f, S \ {e})
  <2>6. /\ rest \in Int
        /\ SumFunction(f) = f[e] + rest
        /\ SumFunction(g) = g[e] + rest
    BY <1>1, <2>3, <2>4, <2>5
  <2>7. f[e] \in Int /\ g[e] \in Int /\ g[e] <= f[e] + v
    OBVIOUS
  <2> HIDE DEF rest
  <2> QED BY <2>6, <2>7
<1> QED BY <1>3, <1>4

LEMMA SumOfZeros ==
  ASSUME NEW f, IsFiniteSet(DOMAIN f), \A i \in DOMAIN f : f[i] = 0
  PROVE  SumFunction(f) <= 0
<1>1. SumFunctionOnSet(f, DOMAIN f) <= Cardinality(DOMAIN f) * 0
  BY SumOfSmall
<1>2. Cardinality(DOMAIN f) \in Nat
  BY FS_CardinalityType
<1> QED BY <1>1, <1>2 DEF SumFunction

(* The lowest price the oracle may say is one it says, or a lower one.     *)
LEMMA LowestIsNat ==
  ASSUME NEW a \in Assets, NEW prices \in Markets
  PROVE  LowestPrice(a) \in Nat /\ LowestPrice(a) <= prices[a]
<1> DEFINE S == {m[a] : m \in Markets}
<1>1. S \in SUBSET Nat /\ prices[a] \in S /\ S # {}
  BY ConstantsAssumption
<1> HIDE DEF S
<1>2. \E x \in S : \A y \in S : x <= y
  BY <1>1, LeastNatural
<1>3. Min(S) \in S /\ \A y \in S : Min(S) <= y
  BY <1>2 DEF Min
<1>4. LowestPrice(a) = Min(S)
  BY DEF LowestPrice, S
<1> QED BY <1>1, <1>3, <1>4

LEMMA LowestIsLow ==
  ASSUME TypeOK, NEW a \in Assets
  PROVE  LowestPrice(a) \in Nat /\ LowestPrice(a) <= market[a]
  BY LowestIsNat DEF TypeOK

---------------------------------------------------------------------------
(* The books.                                                              *)

Incoming(h, a) == [i \in DOMAIN h |-> IF h[i].quote.from = a THEN h[i].quote.amount ELSE 0]

Outgoing(h, a) == [i \in DOMAIN h |-> IF h[i].quote.to = a THEN h[i].quote.out ELSE 0]

LEMMA BooksAreSums ==
  BooksBalance <=>
    \A a \in Assets : balances[a] = InitialBalances[a]
      + SumFunction(Incoming(history, a)) - SumFunction(Outgoing(history, a))
  BY DEF BooksBalance, Incoming, Outgoing

(* Swap s of q is in the books.                                            *)
Settles(c, u, q, s) ==
  /\ s = [quote |-> q, user |-> u, day |-> day]
  /\ s \in Swap
  /\ CanFulfill(q.to, q.out)
  /\ balances' = [balances EXCEPT ![q.from] = @ + q.amount, ![q.to] = @ - q.out]
  /\ history' = Append(history, s)
  /\ calls' = [calls EXCEPT ![c] = [step |-> "charge", swap |-> s]]

LEMMA AppendedSwap ==
  ASSUME TypeOK, NEW s \in Swap, history' = Append(history, s)
  PROVE  /\ DOMAIN history' = 1..(Len(history) + 1)
         /\ DOMAIN history = 1..Len(history) /\ Len(history) \in Nat
         /\ \A i \in DOMAIN history : i \in DOMAIN history' /\ history'[i] = history[i]
         /\ history'[Len(history) + 1] = s
         /\ \A i \in DOMAIN history' : i \in DOMAIN history \/ i = Len(history) + 1
         /\ \A i \in DOMAIN history' : history'[i] \in Swap
  BY DEF TypeOK

LEMMA SettleKeepsBooks ==
  ASSUME TypeOK, BooksBalance, NEW c \in Calls, NEW u \in Users, NEW q, NEW s,
         Settles(c, u, q, s)
  PROVE  BooksBalance'
<1> SUFFICES ASSUME NEW a \in Assets
             PROVE  balances'[a] = InitialBalances[a]
                      + SumFunction(Incoming(history', a))
                      - SumFunction(Outgoing(history', a))
  BY DEF BooksBalance, Incoming, Outgoing
<1> DEFINE n == Len(history)
           inc == Incoming(history, a)
           outg == Outgoing(history, a)
           inc2 == Incoming(history', a)
           outg2 == Outgoing(history', a)
<1>1. /\ s \in Swap /\ s.quote = q
      /\ q.from \in Assets /\ q.to \in Assets /\ q.from # q.to
      /\ q.amount \in Nat /\ q.out \in Nat
  BY SwapFields DEF Settles
<1>2. /\ DOMAIN history' = 1..(n + 1)
      /\ DOMAIN history = 1..n /\ n \in Nat
      /\ \A i \in DOMAIN history : i \in DOMAIN history' /\ history'[i] = history[i]
      /\ history'[n + 1] = s
      /\ \A i \in DOMAIN history' : history'[i] \in Swap
  BY AppendedSwap DEF Settles
<1>3. \A i \in 1..(n + 1) : /\ history'[i].quote.amount \in Int
                            /\ history'[i].quote.out \in Int
  BY <1>2, SwapFields
<1> HIDE DEF n
<1>4. /\ DOMAIN inc = 1..n /\ DOMAIN inc2 = 1..(n + 1)
      /\ DOMAIN outg = 1..n /\ DOMAIN outg2 = 1..(n + 1)
  BY <1>2 DEF Incoming, Outgoing
<1>5. /\ \A i \in 1..(n + 1) : inc2[i] \in Int /\ outg2[i] \in Int
      /\ \A i \in 1..n : inc[i] = inc2[i] /\ outg[i] = outg2[i]
  BY <1>2, <1>3 DEF Incoming, Outgoing
<1>6. n + 1 \in 1..(n + 1)
  BY <1>2
<1>7. /\ inc2[n + 1] = IF q.from = a THEN q.amount ELSE 0
      /\ outg2[n + 1] = IF q.to = a THEN q.out ELSE 0
  BY <1>1, <1>2, <1>6 DEF Incoming, Outgoing
<1> HIDE DEF inc, inc2, outg, outg2
<1>8. /\ SumFunction(inc2) = SumFunction(inc) + inc2[n + 1] /\ SumFunction(inc) \in Int
      /\ SumFunction(outg2) = SumFunction(outg) + outg2[n + 1] /\ SumFunction(outg) \in Int
  BY <1>2, <1>4, <1>5, SumOfLonger
<1>9. balances[a] = InitialBalances[a] + SumFunction(inc) - SumFunction(outg)
  BY BooksAreSums DEF inc, outg
<1>10. /\ balances'[a] = balances[a] + (IF q.from = a THEN q.amount ELSE 0)
                                     - (IF q.to = a THEN q.out ELSE 0)
       /\ balances[a] \in Int
  <2>1. balances' = [balances EXCEPT ![q.from] = @ + q.amount, ![q.to] = @ - q.out]
    BY DEF Settles
  <2>2. balances \in [Assets -> Nat]
    BY DEF TypeOK
  <2>3. CASE a = q.from
    BY <1>1, <2>1, <2>2, <2>3
  <2>4. CASE a = q.to
    BY <1>1, <2>1, <2>2, <2>4
  <2>5. CASE a # q.from /\ a # q.to
    BY <1>1, <2>1, <2>2, <2>5
  <2> QED BY <2>3, <2>4, <2>5
<1>11. InitialBalances[a] \in Int
  BY ConstantsAssumption
<1>12. balances'[a] = InitialBalances[a] + SumFunction(inc2) - SumFunction(outg2)
  BY <1>1, <1>7, <1>8, <1>9, <1>10, <1>11
<1> QED BY <1>12 DEF inc2, outg2

---------------------------------------------------------------------------
(* The daily limit.                                                        *)

(* What swap s weighs against the limit of user u.                         *)
Weight(s, u) ==
  IF s.user = u /\ s.day = day /\ ~BeingCharged(s)
  THEN s.quote.amount * LowestPrice(s.quote.from) ELSE 0

Weights(u) == [i \in DOMAIN history |-> Weight(history[i], u)]

LEMMA SwappedTodayIsSum == \A u : SwappedToday(u) = SumFunction(Weights(u))
  BY DEF SwappedToday, Weights, Weight

LEMMA WeightIsNat ==
  ASSUME TypeOK, NEW s \in Swap, NEW u
  PROVE  Weight(s, u) \in Nat
<1>1. s.quote.amount \in Nat /\ LowestPrice(s.quote.from) \in Nat
  BY SwapFields, LowestIsLow
<1>2. s.quote.amount * LowestPrice(s.quote.from) \in Nat
  BY <1>1
<1> QED BY <1>2 DEF Weight

LEMMA WeightIsNatNext ==
  ASSUME TypeOK', NEW s \in Swap, NEW u
  PROVE  Weight(s, u)' \in Nat
<1>1. s.quote.amount \in Nat /\ LowestPrice(s.quote.from) \in Nat
  <2>1. s.quote.from \in Assets /\ s.quote.amount \in Nat
    BY SwapFields
  <2>2. market' \in Markets
    BY DEF TypeOK
  <2> QED BY <2>1, <2>2, LowestIsNat
<1>2. s.quote.amount * LowestPrice(s.quote.from) \in Nat
  BY <1>1
<1> QED BY <1>2 DEF Weight, LowestPrice

LEMMA SwappedTodayIsInt ==
  ASSUME TypeOK, NEW u
  PROVE  SwappedToday(u) \in Int
<1>1. \A i \in DOMAIN history : Weight(history[i], u) \in Int
  BY HistoryIsSeq, WeightIsNat
<1>2. DOMAIN Weights(u) = DOMAIN history /\ \A i \in DOMAIN history : Weights(u)[i] \in Int
  BY <1>1 DEF Weights
<1> QED BY <1>2, HistoryIsSeq, SumType, SwappedTodayIsSum DEF SumFunction

(* The counter stands if the history, the day and the swaps being charged do. *)
LEMMA SwapsStayCharged ==
  ASSUME SwapsAreCharged, history' = history, day' = day,
         \A s : BeingCharged(s)' = BeingCharged(s),
         \A u \in Users : UsedToday(u)' = UsedToday(u)
  PROVE  SwapsAreCharged'
<1>1. \A u : Weights(u)' = Weights(u)
  BY DEF Weights, Weight, LowestPrice
<1>2. \A u : SwappedToday(u)' = SwappedToday(u)
  BY <1>1, SwappedTodayIsSum DEF SwappedToday, Weights, Weight, LowestPrice
<1> QED BY <1>2 DEF SwapsAreCharged

(* A call that is not charged, before or after, changes nothing of that.   *)
LEMMA ChargedAreTheSame ==
  ASSUME TypeOK, NEW c \in Calls, NEW new \in Call,
         calls' = [calls EXCEPT ![c] = new] \/ calls' = calls,
         calls[c].step # "charge", new.step # "charge"
  PROVE  \A s : BeingCharged(s)' = BeingCharged(s)
<1>1. calls' = calls \/ (calls'[c] = new /\ \A d \in Calls \ {c} : calls'[d] = calls[d])
  BY CallUpdate
<1>2. CASE calls' = calls
  BY <1>2 DEF BeingCharged, At
<1>3. CASE calls'[c] = new /\ \A d \in Calls \ {c} : calls'[d] = calls[d]
  BY <1>3 DEF BeingCharged, At
<1> QED BY <1>1, <1>2, <1>3

(* A swap that was just settled is being charged, and the others are as    *)
(* they were: no other has its quote.                                      *)
LEMMA SettleKeepsCharges ==
  ASSUME TreasuryIInv, TreasuryIInv', SwapsAreCharged,
         NEW c \in Calls, NEW u \in Users, NEW q, NEW s,
         Settles(c, u, q, s), Idle(c), usage' = usage, day' = day
  PROVE  SwapsAreCharged'
<1> USE DEF TreasuryIInv
<1> DEFINE n == Len(history)
           new == [step |-> "charge", swap |-> s]
<1>1. /\ DOMAIN history' = 1..(n + 1)
      /\ DOMAIN history = 1..n /\ n \in Nat
      /\ \A i \in DOMAIN history : i \in DOMAIN history' /\ history'[i] = history[i]
      /\ history'[n + 1] = s
      /\ \A i \in DOMAIN history' : history'[i] \in Swap
  BY AppendedSwap DEF Settles
<1>2. new \in Call /\ new.step = "charge" /\ new.swap = s
  BY DEF Settles, Call, Charging
<1>3. calls'[c] = new /\ \A d \in Calls \ {c} : calls'[d] = calls[d]
  <2>1. calls' = [calls EXCEPT ![c] = new]
    BY DEF Settles
  <2> HIDE DEF new
  <2> QED BY <1>2, <2>1, CallUpdate
<1> HIDE DEF new
<1>4. calls[c].step # "charge"
  BY DEF Idle, NoCall
<1>5. BeingCharged(s)'
  BY <1>2, <1>3 DEF BeingCharged, At
<1>6. ASSUME NEW i \in DOMAIN history
      PROVE  BeingCharged(history[i])' = BeingCharged(history[i])
  <2>1. history[i] # s
    <3>1. i \in DOMAIN history' /\ n + 1 \in DOMAIN history' \ {i} /\ history'[i] = history[i]
      BY <1>1
    <3> QED BY <1>1, <3>1 DEF QuotesAreSpentOnce
  <2>2. history'[i] = history[i]
    BY <1>1
  <2>3. ASSUME NEW d \in Calls
        PROVE  At(d, "charge")' /\ calls'[d].swap = history[i]
                 <=> At(d, "charge") /\ calls[d].swap = history[i]
    BY <1>2, <1>3, <1>4, <2>1 DEF At
  <2> QED BY <2>2, <2>3 DEF BeingCharged
<1> SUFFICES ASSUME NEW v \in Users
             PROVE  SwappedToday(v)' <= UsedToday(v)'
  BY DEF SwapsAreCharged
<1> DEFINE w == Weights(v)
           after == Weights(v)'
<1>7. SwappedToday(v)' = SumFunction(after)
  BY DEF SwappedToday, Weights, Weight
<1>8. /\ DOMAIN w = 1..n /\ DOMAIN after = 1..(n + 1)
      /\ \A i \in 1..(n + 1) : after[i] \in Int
  <2>1. \A i \in DOMAIN history' : Weight(history[i], v)' \in Nat
    BY <1>1, WeightIsNatNext
  <2> QED BY <1>1, <2>1 DEF Weights
<1>9. \A i \in 1..n : w[i] = after[i]
  BY <1>1, <1>6 DEF Weights, Weight, LowestPrice
<1>10. after[n + 1] = 0
  <2>1. Weight(s, v)' = 0
    BY <1>5 DEF Weight
  <2>2. n + 1 \in DOMAIN history'
    BY <1>1
  <2> QED BY <1>1, <2>1, <2>2 DEF Weights, Weight, BeingCharged
<1> HIDE DEF w, after, n
<1>11. SumFunction(after) = SumFunction(w) + after[n + 1] /\ SumFunction(w) \in Int
  BY <1>1, <1>8, <1>9, SumOfLonger
<1>12. SumFunction(w) <= UsedToday(v)
  BY SwappedTodayIsSum DEF SwapsAreCharged, w
<1>13. UsedToday(v)' = UsedToday(v)
  BY DEF UsedToday
<1> QED BY <1>7, <1>10, <1>11, <1>12, <1>13, UsedTodayIsNat

(* Charging a swap raises the counter by its value, which is at least what *)
(* the swap then weighs.                                                   *)
LEMMA ChargeKeepsCharges ==
  ASSUME TreasuryIInv, SwapsAreCharged, NEW c \in Calls, Charge(c)
  PROVE  SwapsAreCharged'
<1> USE DEF TreasuryIInv
<1> DEFINE s == calls[c].swap
           value == s.quote.amount * market[s.quote.from]
<1>1. s \in Swap /\ At(c, "charge")
  BY CallShapes DEF Charge, Charging
<1>2. value \in Nat /\ s.quote.amount * LowestPrice(s.quote.from) <= value
  <2>1. s.quote.from \in Assets /\ s.quote.amount \in Nat
    BY <1>1, SwapFields
  <2>2. /\ market[s.quote.from] \in Nat
        /\ LowestPrice(s.quote.from) \in Nat
        /\ LowestPrice(s.quote.from) <= market[s.quote.from]
    BY <2>1, LowestIsLow, ConstantsAssumption DEF TypeOK
  <2>3. \A n, l, m \in Nat : l <= m => n * m \in Nat /\ n * l <= n * m
    OBVIOUS
  <2> QED BY <2>1, <2>2, <2>3
<1>3. NoCall \in Call /\ NoCall.step = "idle"
  BY DEF Call, NoCall
<1>4. calls'[c] = NoCall /\ \A d \in Calls \ {c} : calls'[d] = calls[d]
  BY <1>3, CallUpdate DEF Charge, Return
<1>5. history' = history /\ day' = day /\ market' = market
  BY DEF Charge, engineVars, worldVars
<1>6. usage' = [usage EXCEPT ![s.user] = [used |-> UsedToday(s.user) + value, on |-> day]]
  BY DEF Charge, RecordSwap
<1>7. s.user \in Users /\ usage \in [Users -> [used : Nat, on : {Never} \union 0..day]]
  BY <1>1, SwapFields DEF TypeOK
<1> HIDE DEF value
<1>8. ASSUME NEW r, r # s
      PROVE  BeingCharged(r)' = BeingCharged(r)
  <2>1. ASSUME NEW d \in Calls
        PROVE  At(d, "charge")' /\ calls'[d].swap = r <=> At(d, "charge") /\ calls[d].swap = r
    BY <1>3, <1>4, <1>8 DEF At
  <2> QED BY <2>1 DEF BeingCharged
<1>9. BeingCharged(s)
  BY <1>1 DEF BeingCharged
<1> SUFFICES ASSUME NEW v \in Users
             PROVE  SwappedToday(v)' <= UsedToday(v)'
  BY DEF SwapsAreCharged
<1> DEFINE f == Weights(v)
           g == Weights(v)'
           S == DOMAIN history
<1>10. SwappedToday(v)' = SumFunction(g) /\ SwappedToday(v) = SumFunction(f)
  BY DEF SwappedToday, Weights, Weight
<1>11. SwappedToday(v) <= UsedToday(v) /\ SwappedToday(v) \in Int /\ UsedToday(v) \in Nat
  BY SwappedTodayIsInt, UsedTodayIsNat DEF SwapsAreCharged
<1>12. /\ IsFiniteSet(S) /\ DOMAIN f = S /\ DOMAIN g = S
       /\ \A i \in S : history[i] \in Swap
  BY <1>5, HistoryIsSeq DEF Weights
<1>13. \A i \in S : f[i] = Weight(history[i], v) /\ g[i] = Weight(history[i], v)'
  BY <1>5 DEF Weights, Weight
<1>14. ASSUME NEW i \in S, history[i] # s
       PROVE  g[i] = f[i]
  <2>1. BeingCharged(history[i])' = BeingCharged(history[i])
    BY <1>14, <1>8, <1>5
  <2> QED BY <2>1, <1>13, <1>5 DEF Weight, LowestPrice
<1>15. ASSUME NEW i \in S
       PROVE  f[i] \in Nat /\ g[i] \in Nat /\ g[i] <= f[i] + value
  <2>1. f[i] \in Nat
    BY <1>12, <1>13, WeightIsNat
  <2>2. CASE history[i] # s
    BY <1>2, <1>14, <2>1, <2>2
  <2>3. CASE history[i] = s
    <3>1. s.quote.amount * LowestPrice(s.quote.from) \in Nat
      BY <1>1, SwapFields, LowestIsLow
    <3>2. g[i] \in {0, s.quote.amount * LowestPrice(s.quote.from)}
      BY <1>13, <2>3, <1>5 DEF Weight, LowestPrice
    <3> HIDE DEF f, g
    <3> QED BY <1>2, <2>1, <3>1, <3>2
  <2> QED BY <2>2, <2>3
<1>16. CASE v # s.user
  <2>1. \A i \in S : g[i] = f[i]
    BY <1>13, <1>14, <1>16, <1>5 DEF Weight
  <2>2. SumFunction(g) = SumFunction(f)
    BY <1>12, <2>1, SumOfEqual DEF SumFunction
  <2>3. UsedToday(v)' = UsedToday(v)
    BY <1>5, <1>6, <1>7, <1>16 DEF UsedToday
  <2> QED BY <1>10, <1>11, <2>2, <2>3
<1>17. CASE v = s.user
  <2>1. UsedToday(v)' = UsedToday(v) + value
    BY <1>5, <1>6, <1>7, <1>17 DEF UsedToday
  <2>2. \A i, j \in S : g[i] # f[i] /\ g[j] # f[j] => i = j
    BY <1>14 DEF QuotesAreSpentOnce
  <2> HIDE DEF f, g, S
  <2>3. \A i \in S : f[i] \in Int /\ g[i] \in Int /\ g[i] <= f[i] + value
    BY <1>15
  <2>4. SumFunction(g) <= SumFunction(f) + value
    BY <1>2, <1>12, <2>2, <2>3, SumWithOneLarger
  <2>5. SumFunction(g) \in Int
    BY <1>12, <2>3, SumType DEF SumFunction
  <2> QED BY <1>2, <1>10, <1>11, <2>1, <2>4, <2>5
<1> QED BY <1>16, <1>17

(* A new day begins with no swaps and no use.                              *)
LEMMA MidnightResets ==
  ASSUME TreasuryIInv, HistoryIsPast, Midnight
  PROVE  SwapsAreCharged'
<1> USE DEF TreasuryIInv
<1> SUFFICES ASSUME NEW v \in Users
             PROVE  SwappedToday(v)' <= UsedToday(v)'
  BY DEF SwapsAreCharged
<1>1. /\ history' = history /\ calls' = calls /\ usage' = usage
      /\ day \in Nat /\ day' = day + 1
  BY ConstantsAssumption DEF Midnight, engineVars, TypeOK
<1>2. UsedToday(v)' = 0
  <2>1. usage[v].on \in {Never} \union 0..day
    BY DEF TypeOK
  <2>2. usage[v].on # day'
    BY <1>1, <2>1 DEF Never
  <2> QED BY <1>1, <2>2 DEF UsedToday
<1>3. \A i \in DOMAIN history : history[i].day # day'
  <2>1. \A i \in DOMAIN history : history[i].day \in Nat /\ history[i].day <= day
    BY HistoryIsSeq, SwapFields DEF HistoryIsPast
  <2> QED BY <1>1, <2>1
<1> DEFINE w == Weights(v)'
<1>4. SwappedToday(v)' = SumFunction(w)
  BY DEF SwappedToday, Weights, Weight
<1>5. /\ DOMAIN w = DOMAIN history
      /\ \A i \in DOMAIN w : w[i] = 0
  BY <1>1, <1>3 DEF Weights, Weight
<1>6. IsFiniteSet(DOMAIN w)
  BY <1>5, HistoryIsSeq
<1> HIDE DEF w
<1> QED BY <1>2, <1>4, <1>5, <1>6, SumOfZeros

LEMMA PastStaysPast ==
  ASSUME TreasuryIInv, HistoryIsPast, [Next]_vars
  PROVE  HistoryIsPast'
<1> USE DEF TreasuryIInv
<1>1. day \in Nat
  BY ConstantsAssumption DEF TypeOK
<1>2. \A i \in DOMAIN history : history[i].day \in Nat
  BY HistoryIsSeq, SwapFields
<1>3. CASE history' = history /\ day' \in {day, day + 1}
  BY <1>1, <1>2, <1>3 DEF HistoryIsPast
<1>4. ASSUME NEW c \in Calls, NEW u \in Users, NEW q \in quotes, ExecuteSwap(c, u, q)
      PROVE  HistoryIsPast'
  <2>1. day' = day
    BY <1>4 DEF ExecuteSwap, worldVars
  <2>2. CASE history' = history
    BY <2>1, <2>2 DEF HistoryIsPast
  <2>3. CASE history' = Append(history, [quote |-> q, user |-> u, day |-> day])
    <3> DEFINE s == [quote |-> q, user |-> u, day |-> day]
    <3>1. s \in Swap /\ s.day = day
      BY <1>1 DEF TypeOK, Swap
    <3> HIDE DEF s
    <3>2. history' = Append(history, s)
      BY <2>3 DEF s
    <3> QED BY <2>1, <3>1, <3>2, AppendedSwap, <1>1 DEF HistoryIsPast
  <2> QED BY <1>4, <2>2, <2>3 DEF ExecuteSwap, Settle
<1>5. ASSUME \/ \E c \in Calls, u \in Users, from, to \in Assets, amount \in Amounts :
                  RequestQuote(c, u, from, to, amount)
             \/ \E c \in Calls : Step(c)
             \/ \E q \in quotes : DropQuote(q)
             \/ \E from, to \in Assets : ListPair(from, to)
             \/ Clock \/ Midnight \/ UNCHANGED vars
      PROVE  history' = history /\ day' \in {day, day + 1}
  BY <1>5 DEF RequestQuote, Step, AskOracle, IssueQuote, Charge, DropQuote, ListPair,
              Clock, Midnight, engineVars, worldVars, vars
<1> QED BY <1>3, <1>4, <1>5 DEF Next

(* A step that settles nothing keeps the books.                            *)
LEMMA StepKeepsBooks ==
  ASSUME TreasuryIInv, TreasuryIInv', BooksBalance, SwapsAreCharged, HistoryIsPast, [Next]_vars
  PROVE  BooksBalance' /\ SwapsAreCharged'
<1> USE DEF TreasuryIInv
<1>1. NoCall \in Call /\ NoCall.step = "idle"
  BY DEF Call, NoCall
<1>2. ASSUME history' = history, balances' = balances
      PROVE  BooksBalance'
  BY <1>2 DEF BooksBalance
<1>3. ASSUME NEW c \in Calls, NEW u \in Users, NEW from \in Assets,
             NEW to \in Assets, NEW amount \in Amounts,
             RequestQuote(c, u, from, to, amount)
      PROVE  BooksBalance' /\ SwapsAreCharged'
  <2>1. history' = history /\ balances' = balances /\ day' = day
    BY <1>3 DEF RequestQuote, engineVars, worldVars
  <2>2. calls[c].step # "charge"
    BY <1>1, <1>3 DEF RequestQuote, Idle
  <2>3. \A s : BeingCharged(s)' = BeingCharged(s)
    <3> DEFINE trade == [id |-> requested + 1, from |-> from, to |-> to, amount |-> amount]
               new == [step |-> "price", trade |-> trade]
    <3>1. from # to /\ requested \in Nat
      BY <1>3 DEF RequestQuote, TypeOK
    <3>2. trade \in Trade
      BY <3>1 DEF Trade
    <3> HIDE DEF trade
    <3>3. new \in Call /\ new.step # "charge"
      BY <3>2 DEF Call, Pricing
    <3>4. calls' = [calls EXCEPT ![c] = new] \/ calls' = calls
      BY <1>3 DEF RequestQuote, trade
    <3> HIDE DEF new
    <3> QED BY <2>2, <3>3, <3>4, ChargedAreTheSame
  <2>4. \A v \in Users : UsedToday(v)' = UsedToday(v)
    <3>1. usage' = [usage EXCEPT ![u].used = UsedToday(u)]
      BY <1>3 DEF RequestQuote
    <3>2. usage \in [Users -> [used : Nat, on : {Never} \union 0..day]]
      BY DEF TypeOK
    <3>3. usage'[u].on = usage[u].on /\ usage'[u].used = UsedToday(u)
      BY <3>1, <3>2
    <3>4. \A v \in Users \ {u} : usage'[v] = usage[v]
      BY <3>1, <3>2
    <3> QED BY <2>1, <3>3, <3>4 DEF UsedToday
  <2> QED BY <1>2, <2>1, <2>3, <2>4, SwapsStayCharged
<1>4. ASSUME NEW c \in Calls, NEW u \in Users, NEW q \in quotes, ExecuteSwap(c, u, q)
      PROVE  BooksBalance' /\ SwapsAreCharged'
  <2>1. usage' = usage /\ day' = day /\ Idle(c)
    BY <1>4 DEF ExecuteSwap, worldVars
  <2>2. CASE UNCHANGED <<balances, history, calls>>
    <3>1. \A s : BeingCharged(s)' = BeingCharged(s)
      BY <2>2 DEF BeingCharged, At
    <3>2. \A v \in Users : UsedToday(v)' = UsedToday(v)
      BY <2>1 DEF UsedToday
    <3> QED BY <1>2, <2>1, <2>2, <3>1, <3>2, SwapsStayCharged
  <2> DEFINE s == [quote |-> q, user |-> u, day |-> day]
  <2>3. CASE Settles(c, u, q, s)
    BY <2>1, <2>3, SettleKeepsBooks, SettleKeepsCharges
  <2>4. s \in Swap
    BY ConstantsAssumption DEF TypeOK, Swap
  <2> QED BY <1>4, <2>2, <2>3, <2>4 DEF ExecuteSwap, Settle, Settles
<1>5. ASSUME NEW c \in Calls, AskOracle(c) \/ IssueQuote(c)
      PROVE  BooksBalance' /\ SwapsAreCharged'
  <2>1. history' = history /\ balances' = balances /\ day' = day /\ usage' = usage
    BY <1>5 DEF AskOracle, IssueQuote, worldVars
  <2>2. calls[c].step # "charge"
    BY <1>5 DEF AskOracle, IssueQuote, At
  <2>3. \A s : BeingCharged(s)' = BeingCharged(s)
    <3> DEFINE next == [step |-> "exposure", trade |-> calls[c].trade,
                        out |-> PaidOut(calls[c].trade), held |-> balances]
    <3>1. \/ calls' = [calls EXCEPT ![c] = NoCall]
          \/ At(c, "price") /\ calls' = [calls EXCEPT ![c] = next]
      BY <1>5 DEF AskOracle, IssueQuote, Return
    <3>2. CASE calls' = [calls EXCEPT ![c] = NoCall]
      BY <1>1, <2>2, <3>2, ChargedAreTheSame
    <3>3. CASE At(c, "price") /\ calls' = [calls EXCEPT ![c] = next]
      <4>1. calls[c].trade \in Trade
        BY <3>3, CallShapes DEF At, Prepares
      <4>2. next \in Call /\ next.step # "charge"
        BY <4>1, PaidOutIsNat DEF Call, Limiting, TypeOK
      <4> HIDE DEF next
      <4> QED BY <2>2, <3>3, <4>2, ChargedAreTheSame
    <3> QED BY <3>1, <3>2, <3>3
  <2>4. \A v \in Users : UsedToday(v)' = UsedToday(v)
    BY <2>1 DEF UsedToday
  <2> QED BY <1>2, <2>1, <2>3, <2>4, SwapsStayCharged
<1>6. ASSUME NEW c \in Calls, Charge(c)
      PROVE  BooksBalance' /\ SwapsAreCharged'
  <2>1. history' = history /\ balances' = balances
    BY <1>6 DEF Charge, engineVars
  <2> QED BY <1>2, <1>6, <2>1, ChargeKeepsCharges
<1>7. ASSUME \/ \E q \in quotes : DropQuote(q)
             \/ \E from, to \in Assets : ListPair(from, to)
             \/ Clock \/ UNCHANGED vars
      PROVE  BooksBalance' /\ SwapsAreCharged'
  <2>1. /\ history' = history /\ balances' = balances /\ day' = day
        /\ usage' = usage /\ calls' = calls
    BY <1>7 DEF DropQuote, ListPair, Clock, engineVars, worldVars, vars
  <2>2. \A s : BeingCharged(s)' = BeingCharged(s)
    BY <2>1 DEF BeingCharged, At
  <2>3. \A v \in Users : UsedToday(v)' = UsedToday(v)
    BY <2>1 DEF UsedToday
  <2> QED BY <1>2, <2>1, <2>2, <2>3, SwapsStayCharged
<1>8. CASE Midnight
  <2>1. history' = history /\ balances' = balances
    BY <1>8 DEF Midnight, engineVars
  <2> QED BY <1>2, <1>8, <2>1, MidnightResets
<1> QED BY <1>3, <1>4, <1>5, <1>6, <1>7, <1>8 DEF Next, Step

LEMMA InitBooks == Init => HistoryIsPast /\ BooksBalance /\ SwapsAreCharged
<1> SUFFICES ASSUME Init
             PROVE  HistoryIsPast /\ BooksBalance /\ SwapsAreCharged
  OBVIOUS
<1>1. DOMAIN history = {}
  BY DEF Init
<1>2. HistoryIsPast
  BY <1>1 DEF HistoryIsPast
<1>3. ASSUME NEW f, DOMAIN f = {}
      PROVE  SumFunction(f) = 0
  BY <1>3, SumOfNone DEF SumFunction
<1>4. BooksBalance
  <2> SUFFICES ASSUME NEW a \in Assets
               PROVE  balances[a] = InitialBalances[a]
                        + SumFunction(Incoming(history, a))
                        - SumFunction(Outgoing(history, a))
    BY DEF BooksBalance, Incoming, Outgoing
  <2>1. DOMAIN Incoming(history, a) = {} /\ DOMAIN Outgoing(history, a) = {}
    BY <1>1 DEF Incoming, Outgoing
  <2>2. balances[a] = InitialBalances[a] /\ InitialBalances[a] \in Int
    BY ConstantsAssumption DEF Init
  <2> QED BY <1>3, <2>1, <2>2
<1>5. SwapsAreCharged
  <2> SUFFICES ASSUME NEW u \in Users
               PROVE  SwappedToday(u) <= UsedToday(u)
    BY DEF SwapsAreCharged
  <2>1. DOMAIN Weights(u) = {}
    BY <1>1 DEF Weights
  <2>2. SwappedToday(u) = 0
    BY <1>3, <2>1, SwappedTodayIsSum
  <2>3. UsedToday(u) = 0
    BY DEF Init, UsedToday
  <2> QED BY <2>2, <2>3
<1> QED BY <1>2, <1>4, <1>5

LEMMA InitBooksIInv == Init => BooksIInv
  BY InitIInv, InitBooks DEF BooksIInv

LEMMA NextBooksIInv == BooksIInv /\ [Next]_vars => BooksIInv'
  BY Inductive, PastStaysPast, StepKeepsBooks DEF BooksIInv

(* The treasury holds what its swaps brought in less what they paid out,   *)
(* and no swap of today escapes the counter of the daily limit, whatever   *)
(* the prices and however calls, timers and midnight interleave.           *)
THEOREM BooksStayKept == Spec => []BooksAreKept
<1>1. BooksIInv => BooksAreKept
  BY DEF BooksIInv, BooksAreKept
<1> QED BY <1>1, InitBooksIInv, NextBooksIInv, PTL DEF Spec

---------------------------------------------------------------------------
(***************************************************************************)
(* The reinvestment of yields (Compound).                                  *)
(***************************************************************************)

Configs == Reinvestment!CompoundConfig \union {Reinvestment!None}

SavedStates == [configs : [Parties -> Configs], runs : [Parties -> Nat]]

Savings == [lock : BOOLEAN, queued : BOOLEAN, failed : BOOLEAN, snapshot : SavedStates]

(* An execution that carries out a plan for a party.                       *)
Carries(x) ==
  x \in [step : {"detect", "swap"}, party : Parties, config : {x.config}, period : Nat,
         legs : {x.legs}, at : {x.at}, todo : SUBSET Parties]

(* A tick of the job that goes through the parties.                        *)
Ticks(x) ==
  /\ x = [step |-> "tick", at |-> x.at, todo |-> x.todo]
  /\ x.todo \subseteq Parties

ExecutionIsTyped(x) ==
  \/ x = Reinvestment!Idle
  \/ x.step = "tick" /\ Ticks(x)
  \/ x.step \in {"detect", "swap"} /\ Carries(x)

SavesHaveTypes ==
  /\ configs \in [Parties -> Configs]
  /\ runs \in [Parties -> Nat]
  /\ file \in SavedStates
  /\ wanted \in SavedStates
  /\ saving \in Savings
  /\ onLedger \in [Parties -> Configs]
  /\ \A w \in writes : w.party \in Parties /\ w.config \in Reinvestment!CompoundConfig
  /\ boot \in {"file", "ledger", "up"}

ExecutionsHaveTypes ==
  /\ lastCompoundTime \in [Parties -> Nat \union {Reinvestment!Never}]
  /\ \A p \in Parties : lastCompoundTime[p] <= compoundTime
  /\ compounded \in [Parties -> Nat]
  /\ compoundTime \in Nat /\ restarts \in Nat
  /\ DOMAIN executions = Executors
  /\ \A e \in Executors : ExecutionIsTyped(executions[e])

LEMMA TypedExecutions ==
  ASSUME NEW x, ExecutionIsTyped(x)
  PROVE  /\ x.step = "tick" => Ticks(x)
         /\ x.step \in {"detect", "swap"} => Carries(x)
  BY DEF ExecutionIsTyped, Reinvestment!Idle

(* What is saved is what is wanted, or will be: the write under way holds  *)
(* the wanted state, unless a call has come in that waits for it to end.   *)
SaveIsDue ==
  /\ saving.queued => saving.lock
  /\ saving.lock /\ ~saving.queued => saving.snapshot = wanted
  /\ Reinvestment!FileCatchesUp

SavesIInv == SavesHaveTypes /\ SaveIsDue

LEMMA ReinvestmentConstants ==
  /\ FirstPeriod \in Nat
  /\ IsFiniteSet(Executors)
<1>1. Reinvestment!IsFiniteSet(Executors) <=> IsFiniteSet(Executors)
  BY DEF Reinvestment!IsFiniteSet, IsFiniteSet
<1> QED BY <1>1, ReinvestmentAssumption DEF Reinvestment!ConstantsAssumption

LEMMA EmptyIsSaved ==
  /\ Reinvestment!Empty \in SavedStates
  /\ [p \in Parties |-> Reinvestment!None] \in [Parties -> Configs]
  /\ [p \in Parties |-> 0] \in [Parties -> Nat]
  BY DEF Reinvestment!Empty, SavedStates, Configs

LEMMA StateIsSaved ==
  ASSUME configs \in [Parties -> Configs], runs \in [Parties -> Nat]
  PROVE  Reinvestment!State \in SavedStates
  BY DEF Reinvestment!State, SavedStates

LEMMA NotSavingType ==
  /\ Reinvestment!NotSaving \in Savings
  /\ ~Reinvestment!NotSaving.lock /\ ~Reinvestment!NotSaving.queued
  /\ ~Reinvestment!NotSaving.failed
  BY EmptyIsSaved DEF Reinvestment!NotSaving, Savings

LEMMA InitSaves == Reinvestment!Init => SavesIInv
<1> SUFFICES ASSUME Reinvestment!Init
             PROVE  SavesIInv
  OBVIOUS
<1>1. configs \in [Parties -> Configs] /\ runs \in [Parties -> Nat]
  BY EmptyIsSaved DEF Reinvestment!Init
<1>2. SavesHaveTypes
  BY <1>1, EmptyIsSaved, StateIsSaved, NotSavingType DEF Reinvestment!Init, SavesHaveTypes
<1>3. SaveIsDue
  BY NotSavingType DEF Reinvestment!Init, SaveIsDue, Reinvestment!FileCatchesUp
<1> QED BY <1>2, <1>3 DEF SavesIInv

(* saveState, called with the state there will be.                         *)
LEMMA SaveStateStep ==
  ASSUME SavesIInv, NEW state \in SavedStates, Reinvestment!SaveState(state)
  PROVE  /\ SaveIsDue'
         /\ file' \in SavedStates /\ wanted' \in SavedStates /\ saving' \in Savings
<1>1. /\ saving \in Savings /\ saving.lock \in BOOLEAN
      /\ saving.queued => saving.lock
      /\ file \in SavedStates
  BY DEF SavesIInv, SavesHaveTypes, SaveIsDue, Savings
<1>2. wanted' = state /\ file' = file
  BY DEF Reinvestment!SaveState
<1>3. CASE saving.lock
  <2>1. saving' = [saving EXCEPT !.queued = TRUE]
    BY <1>3 DEF Reinvestment!SaveState
  <2>2. saving' \in Savings /\ saving'.lock = saving.lock /\ saving'.queued
    BY <1>1, <2>1 DEF Savings
  <2> QED BY <1>1, <1>2, <1>3, <2>2 DEF SaveIsDue, Reinvestment!FileCatchesUp
<1>4. CASE ~saving.lock
  <2>1. saving' = [saving EXCEPT !.lock = TRUE, !.snapshot = state]
    BY <1>4 DEF Reinvestment!SaveState
  <2>2. /\ saving' \in Savings /\ saving'.lock /\ saving'.snapshot = state
        /\ saving'.queued = saving.queued
    BY <1>1, <2>1 DEF Savings
  <2> QED BY <1>1, <1>2, <1>4, <2>2 DEF SaveIsDue, Reinvestment!FileCatchesUp
<1> QED BY <1>1, <1>3, <1>4

LEMMA SavedStep ==
  ASSUME SavesIInv, Reinvestment!Saved
  PROVE  SavesIInv'
<1> USE DEF SavesIInv, SavesHaveTypes
<1>1. /\ saving \in Savings /\ saving.lock /\ saving.queued \in BOOLEAN
      /\ saving.snapshot \in SavedStates
      /\ ~saving.queued => saving.snapshot = wanted
  BY DEF Reinvestment!Saved, Savings, SaveIsDue
<1>2. Reinvestment!State \in SavedStates
  BY StateIsSaved
<1> DEFINE next == IF saving.queued THEN Reinvestment!State ELSE Reinvestment!Empty
<1>3. PICK failed \in BOOLEAN :
        /\ file' = IF failed THEN file ELSE saving.snapshot
        /\ saving' = [lock |-> saving.queued, queued |-> FALSE, failed |-> failed,
                      snapshot |-> next]
  BY DEF Reinvestment!Saved
<1>4. wanted' = IF saving.queued THEN Reinvestment!State ELSE wanted
  BY DEF Reinvestment!Saved
<1>5. next \in SavedStates /\ (saving.queued => next = Reinvestment!State)
  BY <1>2, EmptyIsSaved
<1> HIDE DEF next
<1>6. /\ saving' \in Savings /\ saving'.lock = saving.queued /\ ~saving'.queued
      /\ saving'.failed = failed /\ saving'.snapshot = next
  BY <1>1, <1>3, <1>5 DEF Savings
<1>7. file' \in SavedStates /\ wanted' \in SavedStates
  BY <1>1, <1>2, <1>3, <1>4
<1>8. SaveIsDue'
  BY <1>1, <1>3, <1>4, <1>5, <1>6 DEF SaveIsDue, Reinvestment!FileCatchesUp
<1>9. SavesHaveTypes'
  BY <1>6, <1>7 DEF Reinvestment!Saved, Reinvestment!ledgerVars
<1> QED BY <1>8, <1>9

LEMMA RestartSaves ==
  ASSUME SavesIInv, Reinvestment!Restart
  PROVE  SavesIInv'
<1> USE DEF SavesIInv, SavesHaveTypes
<1>1. file' \in SavedStates
  <2>1. saving.snapshot \in SavedStates
    BY DEF Savings
  <2> QED BY <2>1, EmptyIsSaved DEF Reinvestment!Restart
<1>2. SavesHaveTypes'
  BY <1>1, EmptyIsSaved, NotSavingType DEF Reinvestment!Restart
<1>3. SaveIsDue'
  BY NotSavingType DEF Reinvestment!Restart, SaveIsDue, Reinvestment!FileCatchesUp
<1> QED BY <1>2, <1>3

LEMMA SetConfigStep ==
  ASSUME SavesIInv, NEW p \in Parties, NEW cfg \in Reinvestment!CompoundConfig,
         Reinvestment!SetConfig(p, cfg)
  PROVE  SavesIInv'
<1> USE DEF SavesIInv, SavesHaveTypes
<1> DEFINE state == [Reinvestment!State EXCEPT !.configs[p] = cfg]
<1>1. configs' \in [Parties -> Configs]
  BY DEF Reinvestment!SetConfig, Configs
<1>2. state \in SavedStates
  <2>1. state = [configs |-> [configs EXCEPT ![p] = cfg], runs |-> runs]
    BY DEF Reinvestment!State
  <2>2. [configs EXCEPT ![p] = cfg] \in [Parties -> Configs]
    BY DEF Configs
  <2> QED BY <2>1, <2>2 DEF SavedStates
<1>3. Reinvestment!SaveState(state)
  BY DEF Reinvestment!SetConfig
<1> HIDE DEF state
<1>4. /\ SaveIsDue'
      /\ file' \in SavedStates /\ wanted' \in SavedStates /\ saving' \in Savings
  BY <1>2, <1>3, SaveStateStep
<1>5. \A w \in writes' : w.party \in Parties /\ w.config \in Reinvestment!CompoundConfig
  BY DEF Reinvestment!SetConfig
<1>6. runs' = runs /\ onLedger' = onLedger /\ boot' = boot
  BY DEF Reinvestment!SetConfig
<1> QED BY <1>1, <1>4, <1>5, <1>6

LEMMA LoadingStep ==
  ASSUME SavesIInv,
         \/ Reinvestment!LoadState
         \/ Reinvestment!LoadConfigsFromLedger
         \/ \E w \in writes : Reinvestment!WriteConfig(w)
  PROVE  SavesIInv'
<1> USE DEF SavesIInv, SavesHaveTypes
<1>1. UNCHANGED <<file, saving, wanted>>
  BY DEF Reinvestment!LoadState, Reinvestment!LoadConfigsFromLedger,
         Reinvestment!WriteConfig, Reinvestment!savedVars
<1>2. SaveIsDue'
  BY <1>1 DEF SaveIsDue, Reinvestment!FileCatchesUp
<1>3. CASE Reinvestment!LoadState
  <2>1. file.configs \in [Parties -> Configs] /\ file.runs \in [Parties -> Nat]
    BY DEF SavedStates
  <2>2. configs' \in [Parties -> Configs] /\ runs' \in [Parties -> Nat]
    BY <1>3, <2>1 DEF Reinvestment!LoadState
  <2> QED BY <1>1, <1>2, <1>3, <2>2 DEF Reinvestment!LoadState, Reinvestment!ledgerVars
<1>4. CASE Reinvestment!LoadConfigsFromLedger
  <2>1. ASSUME NEW p \in Parties, onLedger[p] # Reinvestment!None
        PROVE  [onLedger[p] EXCEPT !.frequency = "daily"] \in Configs
    <3>1. onLedger[p] \in Reinvestment!CompoundConfig
      BY <2>1 DEF Configs
    <3>2. "daily" \in Reinvestment!Frequencies
      BY ReinvestmentAssumption DEF Reinvestment!ConstantsAssumption
    <3> QED BY <3>1, <3>2 DEF Configs, Reinvestment!CompoundConfig
  <2>2. [p \in Parties |-> IF onLedger[p] = Reinvestment!None THEN configs[p]
                           ELSE [onLedger[p] EXCEPT !.frequency = "daily"]]
          \in [Parties -> Configs]
    BY <2>1
  <2>3. configs' \in [Parties -> Configs]
    BY <1>4, <2>2 DEF Reinvestment!LoadConfigsFromLedger
  <2> QED BY <1>1, <1>2, <1>4, <2>3
          DEF Reinvestment!LoadConfigsFromLedger, Reinvestment!ledgerVars
<1>5. ASSUME NEW w \in writes, Reinvestment!WriteConfig(w)
      PROVE  SavesIInv'
  <2>1. onLedger' \in [Parties -> Configs]
    BY <1>5 DEF Reinvestment!WriteConfig, Configs
  <2> QED BY <1>1, <1>2, <1>5, <2>1 DEF Reinvestment!WriteConfig
<1> QED BY <1>3, <1>4, <1>5

LEMMA FinishSaves ==
  ASSUME SavesIInv, ExecutionsHaveTypes, NEW e \in Executors, Reinvestment!Finish(e)
  PROVE  SavesIInv'
<1> USE DEF SavesIInv, SavesHaveTypes
<1> DEFINE p == executions[e].party
           state == [Reinvestment!State EXCEPT !.runs[p] = @ + 1]
<1>1. p \in Parties
  BY TypedExecutions DEF Reinvestment!Finish, Reinvestment!At, ExecutionsHaveTypes, Carries
<1> HIDE DEF p
<1>2. runs' = [runs EXCEPT ![p] = runs[p] + 1] /\ Reinvestment!SaveState(state)
  BY DEF Reinvestment!Finish, p
<1>3. [runs EXCEPT ![p] = runs[p] + 1] \in [Parties -> Nat]
  BY <1>1
<1>4. state \in SavedStates
  <2>1. state = [configs |-> configs, runs |-> [runs EXCEPT ![p] = runs[p] + 1]]
    BY DEF Reinvestment!State
  <2> QED BY <1>3, <2>1 DEF SavedStates
<1> HIDE DEF state
<1>5. /\ SaveIsDue'
      /\ file' \in SavedStates /\ wanted' \in SavedStates /\ saving' \in Savings
  BY <1>2, <1>4, SaveStateStep
<1>6. UNCHANGED <<configs, onLedger, writes, boot>>
  BY DEF Reinvestment!Finish, Reinvestment!ledgerVars
<1> QED BY <1>2, <1>3, <1>5, <1>6

(* What reads and writes no saved state.                                   *)
Plans(e) ==
  \/ Reinvestment!StartTick(e) \/ Reinvestment!NextParty(e) \/ Reinvestment!EndTick(e)
  \/ Reinvestment!DetectYields(e) \/ Reinvestment!Swap(e)
  \/ \E p \in Parties : Reinvestment!ExecuteNow(e, p)

LEMMA PlansSaveNothing ==
  ASSUME NEW e, Plans(e)
  PROVE  UNCHANGED <<configs, runs, file, saving, wanted, onLedger, writes, boot,
                     lastCompoundTime, compounded, compoundTime, restarts>>
  BY DEF Plans, Reinvestment!StartTick, Reinvestment!NextParty, Reinvestment!EndTick,
         Reinvestment!DetectYields, Reinvestment!Swap, Reinvestment!ExecuteNow,
         Reinvestment!savedVars, Reinvestment!ledgerVars, Reinvestment!boundVars

LEMMA SavesKept ==
  ASSUME SavesIInv,
         UNCHANGED <<configs, runs, file, saving, wanted, onLedger, writes, boot>>
  PROVE  SavesIInv'
  BY DEF SavesIInv, SavesHaveTypes, SaveIsDue, Reinvestment!FileCatchesUp

LEMMA NextSaves ==
  ASSUME SavesIInv, ExecutionsHaveTypes, Reinvestment!Next
  PROVE  SavesIInv'
<1>1. ASSUME NEW e \in Executors, Plans(e)
      PROVE  SavesIInv'
  BY <1>1, PlansSaveNothing, SavesKept
<1>2. CASE Reinvestment!Clock
  BY <1>2, SavesKept DEF Reinvestment!Clock, Reinvestment!savedVars, Reinvestment!ledgerVars
<1> QED BY <1>1, <1>2, SavedStep, RestartSaves, SetConfigStep, LoadingStep, FinishSaves
        DEF Reinvestment!Next, Plans

---------------------------------------------------------------------------
(* What an execution may have reinvested for a party.                      *)

Pending(x, p) == x.step = "swap" /\ x.party = p

(* The time whose yield an execution x may have reinvested for p: all that *)
(* has passed but what it is about to reinvest, all that had passed when p *)
(* was compounded last, or all but the day of a first detection.           *)
Within(x, p, last, at, r) ==
  LET assumed == FirstPeriod * (r + 1) IN
  IF Pending(x, p) THEN at + assumed - x.period
  ELSE IF last = Reinvestment!Never THEN at + assumed - FirstPeriod
  ELSE last + assumed

Allowance(e, p) ==
  Within(executions[e], p, lastCompoundTime[p], compoundTime, restarts)

Allowances(p) == [e \in Executors |-> Allowance(e, p)]

YieldIsAllowed ==
  \A p \in Parties : compounded[p] <= SumFunctionOnSet(Allowances(p), Executors)

(* Sums of which no summand is smaller, and one is larger by v.            *)
LEMMA SumIsMonotone ==
  ASSUME NEW S, IsFiniteSet(S), NEW f, NEW g,
         \A x \in S : f[x] \in Int /\ g[x] \in Int /\ f[x] <= g[x]
  PROVE  SumFunctionOnSet(f, S) <= SumFunctionOnSet(g, S)
<1> DEFINE d == [x \in S |-> f[x] - g[x]]
<1>1. \A x \in S : d[x] \in Int /\ d[x] <= 0
  OBVIOUS
<1>2. SumFunctionOnSet(d, S) = SumFunctionOnSet(f, S) - SumFunctionOnSet(g, S)
  BY SumOfDifferences
<1> HIDE DEF d
<1>3. SumFunctionOnSet(d, S) <= Cardinality(S) * 0
  BY <1>1, SumOfSmall
<1>4. SumFunctionOnSet(f, S) \in Int /\ SumFunctionOnSet(g, S) \in Int
  BY SumType
<1>5. Cardinality(S) \in Nat
  BY FS_CardinalityType
<1> QED BY <1>2, <1>3, <1>4, <1>5

LEMMA SumWithOneMore ==
  ASSUME NEW S, IsFiniteSet(S), NEW f, NEW g, NEW e \in S, NEW v \in Int,
         \A x \in S : f[x] \in Int /\ g[x] \in Int /\ f[x] <= g[x],
         f[e] + v <= g[e]
  PROVE  SumFunctionOnSet(f, S) + v <= SumFunctionOnSet(g, S)
<1>1. IsFiniteSet(S \ {e})
  BY FS_Subset
<1> DEFINE F == SumFunctionOnSet(f, S \ {e})
           G == SumFunctionOnSet(g, S \ {e})
<1>2. F \in Int /\ G \in Int
  BY <1>1, SumType
<1>3. F <= G
  BY <1>1, SumIsMonotone
<1>4. /\ SumFunctionOnSet(f, S) = f[e] + F
      /\ SumFunctionOnSet(g, S) = g[e] + G
  BY SumSplits
<1>5. f[e] \in Int /\ g[e] \in Int
  OBVIOUS
<1> HIDE DEF F, G
<1> QED BY <1>2, <1>3, <1>4, <1>5

LEMMA SumOfNothing ==
  ASSUME NEW S, IsFiniteSet(S), NEW f, \A x \in S : f[x] = 0
  PROVE  0 <= SumFunctionOnSet(f, S)
<1> DEFINE d == [x \in S |-> f[x] - f[x]]
<1>1. \A x \in S : f[x] \in Int /\ d[x] = f[x]
  OBVIOUS
<1>2. SumFunctionOnSet(d, S) = SumFunctionOnSet(f, S) - SumFunctionOnSet(f, S)
  BY <1>1, SumOfDifferences
<1> HIDE DEF d
<1>3. SumFunctionOnSet(d, S) = SumFunctionOnSet(f, S)
  BY <1>1, SumOfEqual
<1>4. SumFunctionOnSet(f, S) \in Int
  BY <1>1, SumType
<1> QED BY <1>2, <1>3, <1>4

LEMMA AssumedPeriods ==
  ASSUME NEW r \in Nat
  PROVE  /\ FirstPeriod * (r + 1) \in Nat
         /\ FirstPeriod * (r + 1 + 1) = FirstPeriod * (r + 1) + FirstPeriod
  BY ReinvestmentConstants

(* A moment: when p was compounded last, the time, and the restarts.       *)
Moment(last, at, r) ==
  /\ last \in Nat \union {Reinvestment!Never}
  /\ at \in Nat /\ r \in Nat
  /\ last <= at

LEMMA WithinIsInt ==
  ASSUME NEW x, NEW p, NEW last, NEW at, NEW r, Moment(last, at, r),
         Pending(x, p) => x.period \in Nat
  PROVE  /\ Within(x, p, last, at, r) \in Int
         /\ Within(x, p, last, at, r) <= at + FirstPeriod * (r + 1)
<1> DEFINE assumed == FirstPeriod * (r + 1)
<1>1. /\ assumed \in Nat /\ FirstPeriod \in Nat
      /\ last \in Int /\ at \in Int /\ last <= at
  BY AssumedPeriods, ReinvestmentConstants DEF Moment, Reinvestment!Never
<1> HIDE DEF assumed
<1>2. CASE Pending(x, p)
  <2>1. Within(x, p, last, at, r) = at + assumed - x.period
    BY <1>2 DEF Within, assumed
  <2>2. at + assumed - x.period \in Int /\ at + assumed - x.period <= at + assumed
    BY <1>1, <1>2
  <2> QED BY <2>1, <2>2 DEF assumed
<1>3. CASE ~Pending(x, p)
  <2>1. Within(x, p, last, at, r) \in {at + assumed - FirstPeriod, last + assumed}
    BY <1>3 DEF Within, assumed
  <2>2. /\ Within(x, p, last, at, r) \in Int
        /\ Within(x, p, last, at, r) <= at + assumed
    BY <1>1, <2>1
  <2> QED BY <2>2 DEF assumed
<1> QED BY <1>2, <1>3

(* Time passes, or another execution has just compounded for p.            *)
LEMMA WithinGrows ==
  ASSUME NEW x, NEW y, NEW p, NEW last, NEW at, NEW later, NEW then, NEW r,
         Moment(last, at, r), Moment(later, then, r),
         later \in {last, at}, at <= then,
         Pending(x, p) => x.period \in Nat,
         Pending(y, p) <=> Pending(x, p), Pending(x, p) => y.period = x.period
  PROVE  Within(x, p, last, at, r) <= Within(y, p, later, then, r)
<1> DEFINE assumed == FirstPeriod * (r + 1)
<1>1. /\ assumed \in Nat /\ FirstPeriod \in Nat
      /\ last \in Int /\ at \in Nat /\ then \in Nat /\ last <= at
  BY AssumedPeriods, ReinvestmentConstants DEF Moment, Reinvestment!Never
<1> HIDE DEF assumed
<1>2. CASE Pending(x, p)
  <2>1. /\ Within(x, p, last, at, r) = at + assumed - x.period
        /\ Within(y, p, later, then, r) = then + assumed - x.period
    BY <1>2 DEF Within, assumed
  <2> QED BY <1>1, <1>2, <2>1
<1>3. CASE ~Pending(x, p) /\ last = Reinvestment!Never
  <2>1. /\ Within(x, p, last, at, r) = at + assumed - FirstPeriod
        /\ Within(y, p, later, then, r) \in {then + assumed - FirstPeriod, at + assumed}
    BY <1>3 DEF Within, assumed
  <2> QED BY <1>1, <2>1
<1>4. CASE ~Pending(x, p) /\ last # Reinvestment!Never
  <2>1. later # Reinvestment!Never
    BY <1>1, <1>4 DEF Reinvestment!Never
  <2>2. /\ Within(x, p, last, at, r) = last + assumed
        /\ Within(y, p, later, then, r) = later + assumed
    BY <1>4, <2>1 DEF Within, assumed
  <2> QED BY <1>1, <2>2
<1> QED BY <1>2, <1>3, <1>4

(* The day a first detection assumes is granted again after a restart.     *)
LEMMA WithinAfterRestart ==
  ASSUME NEW x, NEW y, NEW p, NEW last, NEW at, NEW r, Moment(last, at, r),
         Pending(x, p) => x.period \in Nat, ~Pending(y, p)
  PROVE  Within(x, p, last, at, r) <= Within(y, p, Reinvestment!Never, at, r + 1)
<1> DEFINE assumed == FirstPeriod * (r + 1)
<1>1. /\ Within(x, p, last, at, r) \in Int
      /\ Within(x, p, last, at, r) <= at + assumed
  BY WithinIsInt
<1>2. /\ assumed \in Nat /\ FirstPeriod \in Nat /\ at \in Nat
      /\ FirstPeriod * (r + 1 + 1) = assumed + FirstPeriod
  BY AssumedPeriods, ReinvestmentConstants DEF Moment
<1>3. Within(y, p, Reinvestment!Never, at, r + 1)
        = at + FirstPeriod * (r + 1 + 1) - FirstPeriod
  BY DEF Within
<1> HIDE DEF assumed
<1>4. Within(y, p, Reinvestment!Never, at, r + 1) = at + assumed
  BY <1>2, <1>3
<1> QED BY <1>1, <1>2, <1>4

(* What is detected is what has not been reinvested.                       *)
LEMMA WithinAtDetection ==
  ASSUME NEW x, NEW y, NEW p, NEW last, NEW at, NEW r, Moment(last, at, r),
         ~Pending(x, p), Pending(y, p),
         y.period = IF last = Reinvestment!Never THEN FirstPeriod ELSE at - last
  PROVE  Within(x, p, last, at, r) <= Within(y, p, last, at, r)
<1> DEFINE assumed == FirstPeriod * (r + 1)
<1>1. assumed \in Nat /\ FirstPeriod \in Nat /\ last \in Int /\ at \in Nat
  BY AssumedPeriods, ReinvestmentConstants DEF Moment, Reinvestment!Never
<1> HIDE DEF assumed
<1>2. Within(y, p, last, at, r) = at + assumed - y.period
  BY DEF Within, assumed
<1>3. Within(x, p, last, at, r) = IF last = Reinvestment!Never
                                  THEN at + assumed - FirstPeriod ELSE last + assumed
  BY DEF Within, assumed
<1> QED BY <1>1, <1>2, <1>3

(* What was detected is then reinvested.                                   *)
LEMMA WithinAtFinish ==
  ASSUME NEW x, NEW y, NEW p, NEW last, NEW at, NEW r, Moment(last, at, r),
         Pending(x, p), ~Pending(y, p), x.period \in Nat
  PROVE  Within(x, p, last, at, r) + x.period <= Within(y, p, at, at, r)
<1> DEFINE assumed == FirstPeriod * (r + 1)
<1>1. assumed \in Nat /\ at \in Nat /\ at # Reinvestment!Never
  BY AssumedPeriods DEF Moment, Reinvestment!Never
<1> HIDE DEF assumed
<1>2. Within(x, p, last, at, r) = at + assumed - x.period
  BY DEF Within, assumed
<1>3. Within(y, p, at, at, r) = at + assumed
  BY <1>1 DEF Within, assumed
<1> QED BY <1>1, <1>2, <1>3

LEMMA Moments ==
  ASSUME ExecutionsHaveTypes
  PROVE  /\ \A p \in Parties : Moment(lastCompoundTime[p], compoundTime, restarts)
         /\ \A e \in Executors, p \in Parties :
              Pending(executions[e], p) => executions[e].period \in Nat
  BY TypedExecutions DEF ExecutionsHaveTypes, Moment, Pending, Carries

LEMMA MomentsNext ==
  ASSUME ExecutionsHaveTypes'
  PROVE  /\ \A p \in Parties : Moment(lastCompoundTime'[p], compoundTime', restarts')
         /\ \A e \in Executors, p \in Parties :
              Pending(executions'[e], p) => executions'[e].period \in Nat
  BY TypedExecutions DEF ExecutionsHaveTypes, Moment, Pending, Carries

Later(e, p) ==
  Within(executions'[e], p, lastCompoundTime'[p], compoundTime', restarts')

LEMMA LaterAllowances ==
  ASSUME NEW p \in Parties
  PROVE  /\ Allowances(p)' = [e \in Executors |-> Later(e, p)]
         /\ Allowances(p) = [e \in Executors |-> Allowance(e, p)]
  BY DEF Allowances, Allowance, Later

LEMMA AllowancesAreInt ==
  ASSUME ExecutionsHaveTypes, ExecutionsHaveTypes', NEW p \in Parties, NEW e \in Executors
  PROVE  Allowance(e, p) \in Int /\ Later(e, p) \in Int
  BY Moments, MomentsNext, WithinIsInt DEF Allowance, Later

(* The yield stays within the allowances if none falls, ...                *)
LEMMA YieldStaysAllowed ==
  ASSUME ExecutionsHaveTypes, ExecutionsHaveTypes', YieldIsAllowed,
         NEW p \in Parties, compounded'[p] = compounded[p],
         \A e \in Executors : Allowance(e, p) <= Later(e, p)
  PROVE  compounded'[p] <= SumFunctionOnSet(Allowances(p)', Executors)
<1> DEFINE f == Allowances(p)
           g == Allowances(p)'
<1>1. \A e \in Executors : f[e] \in Int /\ g[e] \in Int /\ f[e] <= g[e]
  BY LaterAllowances, AllowancesAreInt
<1>2. compounded[p] <= SumFunctionOnSet(f, Executors) /\ compounded[p] \in Int
  BY DEF YieldIsAllowed, ExecutionsHaveTypes
<1> HIDE DEF f, g
<1>3. IsFiniteSet(Executors)
  BY ReinvestmentConstants
<1>4. SumFunctionOnSet(f, Executors) <= SumFunctionOnSet(g, Executors)
  BY <1>1, <1>3, SumIsMonotone
<1>5. SumFunctionOnSet(f, Executors) \in Int /\ SumFunctionOnSet(g, Executors) \in Int
  BY <1>1, <1>3, SumType
<1>6. compounded'[p] <= SumFunctionOnSet(g, Executors)
  BY <1>2, <1>4, <1>5
<1> QED BY <1>6 DEF g

(* ... and if that of the execution that reinvests grows by as much.       *)
LEMMA YieldGrowsAllowed ==
  ASSUME ExecutionsHaveTypes, ExecutionsHaveTypes', YieldIsAllowed,
         NEW p \in Parties, NEW v \in Nat, compounded'[p] = compounded[p] + v,
         \A e \in Executors : Allowance(e, p) <= Later(e, p),
         NEW d \in Executors, Allowance(d, p) + v <= Later(d, p)
  PROVE  compounded'[p] <= SumFunctionOnSet(Allowances(p)', Executors)
<1> DEFINE f == Allowances(p)
           g == Allowances(p)'
<1>1. /\ \A e \in Executors : f[e] \in Int /\ g[e] \in Int /\ f[e] <= g[e]
      /\ f[d] + v <= g[d]
  BY LaterAllowances, AllowancesAreInt
<1>2. compounded[p] <= SumFunctionOnSet(f, Executors) /\ compounded[p] \in Int
  BY DEF YieldIsAllowed, ExecutionsHaveTypes
<1> HIDE DEF f, g
<1>3. IsFiniteSet(Executors)
  BY ReinvestmentConstants
<1>4. SumFunctionOnSet(f, Executors) + v <= SumFunctionOnSet(g, Executors)
  BY <1>1, <1>3, SumWithOneMore
<1>5. SumFunctionOnSet(f, Executors) \in Int /\ SumFunctionOnSet(g, Executors) \in Int
  BY <1>1, <1>3, SumType
<1>6. compounded'[p] <= SumFunctionOnSet(g, Executors)
  BY <1>2, <1>4, <1>5
<1> QED BY <1>6 DEF g

LEMMA YieldIsAllowedNext ==
  ASSUME \A p \in Parties : compounded'[p] <= SumFunctionOnSet(Allowances(p)', Executors)
  PROVE  YieldIsAllowed'
  BY DEF YieldIsAllowed

---------------------------------------------------------------------------
(* The steps of the executions.                                            *)

YieldIInv == ExecutionsHaveTypes /\ YieldIsAllowed

LEMMA IdleExecution ==
  /\ Reinvestment!Idle.step = "idle"
  /\ \A p : ~Pending(Reinvestment!Idle, p)
  BY DEF Reinvestment!Idle, Pending

(* An execution moves to x, and time and yield stand still.                *)
LEMMA ExecutionMoves ==
  ASSUME YieldIInv, NEW e \in Executors, NEW x,
         executions' = [executions EXCEPT ![e] = x],
         UNCHANGED <<lastCompoundTime, compounded, compoundTime, restarts>>,
         ExecutionIsTyped(x),
         \A p \in Parties :
           Within(executions[e], p, lastCompoundTime[p], compoundTime, restarts)
             <= Within(x, p, lastCompoundTime[p], compoundTime, restarts)
  PROVE  YieldIInv'
<1> USE DEF YieldIInv
<1>1. executions'[e] = x /\ \A d \in Executors \ {e} : executions'[d] = executions[d]
  BY DEF ExecutionsHaveTypes
<1>2. ExecutionsHaveTypes'
  BY <1>1 DEF ExecutionsHaveTypes
<1>3. ASSUME NEW p \in Parties, NEW d \in Executors
      PROVE  Allowance(d, p) <= Later(d, p)
  <2>1. CASE d = e
    BY <1>1, <2>1 DEF Allowance, Later
  <2>2. CASE d # e
    <3>1. Later(d, p) = Allowance(d, p)
      BY <1>1, <2>2 DEF Allowance, Later
    <3> QED BY <1>2, <3>1, AllowancesAreInt
  <2> QED BY <2>1, <2>2
<1>4. YieldIsAllowed'
  BY <1>2, <1>3, YieldStaysAllowed, YieldIsAllowedNext
<1> QED BY <1>2, <1>4

(* An execution that has nothing pending before or after.                  *)
LEMMA NothingPending ==
  ASSUME ExecutionsHaveTypes, NEW x, NEW y,
         x.step # "swap", y.step # "swap", NEW p \in Parties
  PROVE  Within(x, p, lastCompoundTime[p], compoundTime, restarts)
           <= Within(y, p, lastCompoundTime[p], compoundTime, restarts)
<1>1. ~Pending(x, p) /\ ~Pending(y, p)
  BY DEF Pending
<1>2. /\ Moment(lastCompoundTime[p], compoundTime, restarts)
      /\ compoundTime <= compoundTime
  BY Moments DEF ExecutionsHaveTypes
<1> QED BY <1>1, <1>2, WithinGrows

LEMMA TickStep ==
  ASSUME YieldIInv, NEW e \in Executors,
         \/ Reinvestment!StartTick(e) \/ Reinvestment!EndTick(e)
         \/ Reinvestment!NextParty(e)
         \/ \E p \in Parties : Reinvestment!ExecuteNow(e, p)
  PROVE  YieldIInv'
<1> USE DEF YieldIInv
<1>1. executions[e].step # "swap"
  BY IdleExecution DEF Reinvestment!StartTick, Reinvestment!EndTick, Reinvestment!NextParty,
     Reinvestment!ExecuteNow, Reinvestment!At
<1>2. \E x : /\ executions' = [executions EXCEPT ![e] = x]
             /\ x.step # "swap" /\ ExecutionIsTyped(x)
  <2>1. CASE Reinvestment!StartTick(e)
    <3> DEFINE x == [step |-> "tick", at |-> compoundTime, todo |-> Parties]
    <3>1. executions' = [executions EXCEPT ![e] = x]
      BY <2>1 DEF Reinvestment!StartTick
    <3>2. x.step = "tick" /\ ExecutionIsTyped(x)
      BY DEF ExecutionIsTyped, Ticks
    <3> HIDE DEF x
    <3> QED BY <3>1, <3>2
  <2>2. CASE Reinvestment!EndTick(e)
    BY <2>2, IdleExecution DEF Reinvestment!EndTick, ExecutionIsTyped
  <2>3. CASE Reinvestment!NextParty(e)
    <3>1. PICK p \in executions[e].todo :
            executions' = [executions EXCEPT ![e] =
              IF /\ Reinvestment!Due(p, executions[e].at)
                 /\ Reinvestment!InRound(p, executions[e].at)
              THEN Reinvestment!Executing(e, "detect", p, configs[p], executions[e].todo \ {p})
              ELSE [executions[e] EXCEPT !.todo = @ \ {p}]]
      BY <2>3 DEF Reinvestment!NextParty
    <3> DEFINE old == executions[e]
               x == [step |-> "tick", at |-> old.at, todo |-> old.todo \ {p}]
               y == Reinvestment!Executing(e, "detect", p, configs[p], old.todo \ {p})
    <3>2. Ticks(old) /\ p \in Parties
      BY <2>3, <3>1, TypedExecutions
         DEF Reinvestment!NextParty, Reinvestment!At, ExecutionsHaveTypes, Ticks
    <3>3. [old EXCEPT !.todo = @ \ {p}] = x
      BY <3>2 DEF Ticks
    <3>4. executions' = [executions EXCEPT ![e] = x] \/ executions' = [executions EXCEPT ![e] = y]
      BY <3>1, <3>3
    <3>5. x.step = "tick" /\ ExecutionIsTyped(x)
      BY <3>2 DEF Ticks, ExecutionIsTyped
    <3>6. y.step = "detect" /\ ExecutionIsTyped(y)
      BY <3>2 DEF Ticks, Carries, ExecutionIsTyped, Reinvestment!Executing
    <3> HIDE DEF x, y
    <3> QED BY <3>4, <3>5, <3>6
  <2>4. ASSUME NEW p \in Parties, Reinvestment!ExecuteNow(e, p)
        PROVE  \E x : /\ executions' = [executions EXCEPT ![e] = x]
                      /\ x.step # "swap" /\ ExecutionIsTyped(x)
    <3>1. PICK cfg : executions' = [executions EXCEPT ![e] =
            [step |-> "detect", party |-> p, config |-> cfg, period |-> 0, legs |-> 0,
             at |-> compoundTime, todo |-> {}]]
      BY <2>4 DEF Reinvestment!ExecuteNow
    <3> DEFINE x == [step |-> "detect", party |-> p, config |-> cfg, period |-> 0,
                     legs |-> 0, at |-> compoundTime, todo |-> {}]
    <3>2. x.step = "detect" /\ ExecutionIsTyped(x)
      BY DEF Carries, ExecutionIsTyped
    <3>3. executions' = [executions EXCEPT ![e] = x]
      BY <3>1
    <3> HIDE DEF x
    <3> QED BY <3>2, <3>3
  <2> QED BY <2>1, <2>2, <2>3, <2>4
<1>3. PICK x : /\ executions' = [executions EXCEPT ![e] = x]
               /\ x.step # "swap" /\ ExecutionIsTyped(x)
  BY <1>2
<1>4. UNCHANGED <<lastCompoundTime, compounded, compoundTime, restarts>>
  BY PlansSaveNothing DEF Plans
<1> QED BY <1>1, <1>3, <1>4, NothingPending, ExecutionMoves

(* A plan waits to be carried out.                                         *)
LEMMA DetectStep ==
  ASSUME YieldIInv, NEW e \in Executors, Reinvestment!DetectYields(e)
  PROVE  YieldIInv'
<1> USE DEF YieldIInv
<1> DEFINE old == executions[e]
           q == old.party
           period == IF lastCompoundTime[q] = Reinvestment!Never THEN FirstPeriod
                     ELSE compoundTime - lastCompoundTime[q]
           back == [step |-> "tick", at |-> old.at, todo |-> old.todo]
           plan(legs) == [old EXCEPT !.step = "swap", !.period = period, !.legs = legs]
<1>1. old.step = "detect" /\ Carries(old)
  BY TypedExecutions DEF Reinvestment!DetectYields, Reinvestment!At, ExecutionsHaveTypes
<1>2. q \in Parties /\ old.todo \subseteq Parties
  BY <1>1 DEF Carries
<1>3. UNCHANGED <<lastCompoundTime, compounded, compoundTime, restarts>>
  BY PlansSaveNothing DEF Plans
<1>4. CASE executions' = [executions EXCEPT ![e] = back]
  <2>1. back.step = "tick" /\ ExecutionIsTyped(back)
    BY <1>2 DEF Ticks, ExecutionIsTyped
  <2> HIDE DEF back
  <2> QED BY <1>1, <1>3, <1>4, <2>1, NothingPending, ExecutionMoves
<1>5. ASSUME NEW legs \in 0..MaxLegs, period > 0,
             executions' = [executions EXCEPT ![e] =
               [@ EXCEPT !.step = "swap", !.period = period, !.legs = legs]]
      PROVE  YieldIInv'
  <2> DEFINE new == plan(legs)
  <2>1. period \in Nat
    BY <1>2, <1>5, Moments, ReinvestmentConstants DEF Moment, Reinvestment!Never
  <2> HIDE DEF period
  <2>2. executions' = [executions EXCEPT ![e] = new]
    BY <1>5
  <2>3. ExecutionIsTyped(new) /\ new.step = "swap" /\ new.party = q /\ new.period = period
    <3> HIDE DEF old
    <3>1. new \in [step : {"detect", "swap"}, party : Parties, config : {old.config},
                  period : Nat, legs : {legs}, at : {old.at}, todo : SUBSET Parties]
      BY <1>1, <2>1 DEF Carries
    <3>2. new.step = "swap" /\ new.party = q /\ new.period = period
      BY <1>1 DEF Carries
    <3> HIDE DEF new
    <3> QED BY <3>1, <3>2 DEF Carries, ExecutionIsTyped
  <2>4. ASSUME NEW p \in Parties
        PROVE  Within(old, p, lastCompoundTime[p], compoundTime, restarts)
                 <= Within(new, p, lastCompoundTime[p], compoundTime, restarts)
    <3>1. Moment(lastCompoundTime[p], compoundTime, restarts) /\ ~Pending(old, p)
      BY <1>1, Moments DEF Pending
    <3>2. CASE p = q
      <4>1. Pending(new, p)
        BY <2>3, <3>2 DEF Pending
      <4>2. new.period = IF lastCompoundTime[p] = Reinvestment!Never THEN FirstPeriod
                         ELSE compoundTime - lastCompoundTime[p]
        BY <2>3, <3>2 DEF period
      <4> QED BY <3>1, <4>1, <4>2, WithinAtDetection
    <3>3. CASE p # q
      <4>1. ~Pending(new, p) /\ compoundTime <= compoundTime
        BY <2>3, <3>3 DEF Pending, ExecutionsHaveTypes
      <4> QED BY <3>1, <4>1, WithinGrows
    <3> QED BY <3>2, <3>3
  <2> HIDE DEF new
  <2> QED BY <1>3, <2>2, <2>3, <2>4, ExecutionMoves
<1> QED BY <1>4, <1>5 DEF Reinvestment!DetectYields, Reinvestment!Return

LEMMA SwapStep ==
  ASSUME YieldIInv, NEW e \in Executors, Reinvestment!Swap(e)
  PROVE  YieldIInv'
<1> USE DEF YieldIInv
<1> DEFINE old == executions[e]
           new == [old EXCEPT !.legs = old.legs - 1]
<1>1. old.step = "swap" /\ Carries(old)
  BY TypedExecutions DEF Reinvestment!Swap, Reinvestment!At, ExecutionsHaveTypes
<1>2. UNCHANGED <<lastCompoundTime, compounded, compoundTime, restarts>>
  BY PlansSaveNothing DEF Plans
<1>3. executions' = [executions EXCEPT ![e].legs = old.legs - 1]
  BY DEF Reinvestment!Swap
<1>4. /\ new \in [step : {"detect", "swap"}, party : Parties, config : {old.config},
                  period : Nat, legs : {old.legs - 1}, at : {old.at}, todo : SUBSET Parties]
      /\ new.step = old.step /\ new.party = old.party /\ new.period = old.period
  BY <1>1 DEF Carries
<1>5. executions' = [executions EXCEPT ![e] = new]
  BY <1>3
<1>6. /\ ExecutionIsTyped(new)
      /\ new.step = old.step /\ new.party = old.party /\ new.period = old.period
  <2> HIDE DEF new
  <2> QED BY <1>1, <1>4 DEF ExecutionIsTyped, Carries
<1> HIDE DEF new
<1>7. ASSUME NEW p \in Parties
      PROVE  Within(old, p, lastCompoundTime[p], compoundTime, restarts)
               <= Within(new, p, lastCompoundTime[p], compoundTime, restarts)
  <2>1. /\ Moment(lastCompoundTime[p], compoundTime, restarts)
        /\ compoundTime <= compoundTime
    BY Moments DEF ExecutionsHaveTypes
  <2>2. /\ Pending(new, p) <=> Pending(old, p)
        /\ Pending(old, p) => old.period \in Nat /\ new.period = old.period
    BY <1>1, <1>6 DEF Pending, Carries
  <2> QED BY <2>1, <2>2, WithinGrows
<1> QED BY <1>2, <1>5, <1>6, <1>7, ExecutionMoves

LEMMA FinishStep ==
  ASSUME YieldIInv, NEW e \in Executors, Reinvestment!Finish(e)
  PROVE  YieldIInv'
<1> USE DEF YieldIInv
<1> DEFINE old == executions[e]
           back == [step |-> "tick", at |-> old.at, todo |-> old.todo]
<1>1. old.step = "swap" /\ Carries(old)
  BY TypedExecutions DEF Reinvestment!Finish, Reinvestment!At, ExecutionsHaveTypes
<1> PICK q \in Parties : q = old.party
  BY <1>1 DEF Carries
<1>2. old.party = q /\ old.period \in Nat /\ old.todo \subseteq Parties
  BY <1>1 DEF Carries
<1>3. /\ executions' = [executions EXCEPT ![e] = back]
      /\ lastCompoundTime' = [lastCompoundTime EXCEPT ![q] = compoundTime]
      /\ compounded' = [compounded EXCEPT ![q] = compounded[q] + old.period]
      /\ compoundTime' = compoundTime /\ restarts' = restarts
  BY <1>2 DEF Reinvestment!Finish, Reinvestment!Return, Reinvestment!boundVars
<1>4. back.step = "tick" /\ ExecutionIsTyped(back)
  BY <1>2 DEF Ticks, ExecutionIsTyped
<1> HIDE DEF back, old
<1>5. executions'[e] = back /\ \A d \in Executors \ {e} : executions'[d] = executions[d]
  BY <1>3 DEF ExecutionsHaveTypes
<1>6. /\ lastCompoundTime'[q] = compoundTime /\ compounded'[q] = compounded[q] + old.period
      /\ \A p \in Parties \ {q} : /\ lastCompoundTime'[p] = lastCompoundTime[p]
                                  /\ compounded'[p] = compounded[p]
  BY <1>2, <1>3 DEF ExecutionsHaveTypes
<1>7. ExecutionsHaveTypes'
  BY <1>2, <1>3, <1>4, <1>5, <1>6 DEF ExecutionsHaveTypes
<1>8. \A p \in Parties : /\ Moment(lastCompoundTime[p], compoundTime, restarts)
                         /\ Moment(lastCompoundTime'[p], compoundTime, restarts)
                         /\ compoundTime <= compoundTime
  BY <1>3, <1>7, Moments, MomentsNext DEF ExecutionsHaveTypes
<1>9. Pending(old, q) /\ \A p : ~Pending(back, p)
  BY <1>1, <1>2, <1>4 DEF Pending
<1>10. Allowance(e, q) + old.period <= Later(e, q)
  BY <1>2, <1>3, <1>5, <1>6, <1>8, <1>9, WithinAtFinish DEF Allowance, Later, old
<1>11. ASSUME NEW p \in Parties, NEW d \in Executors, p # q \/ d # e
       PROVE  Allowance(d, p) <= Later(d, p)
  <2>1. lastCompoundTime'[p] \in {lastCompoundTime[p], compoundTime}
    BY <1>6
  <2>2. Pending(executions'[d], p) <=> Pending(executions[d], p)
    <3>1. CASE d # e
      BY <1>5, <3>1
    <3>2. CASE d = e /\ p # q
      BY <1>5, <1>9, <3>2 DEF Pending, old
    <3> QED BY <1>11, <3>1, <3>2
  <2>3. Pending(executions[d], p) => /\ executions[d].period \in Nat
                                     /\ executions'[d].period = executions[d].period
    <3>1. CASE d # e
      BY <1>5, <3>1, Moments
    <3>2. CASE d = e
      BY <1>5, <1>9, <2>2, <3>2
    <3> QED BY <3>1, <3>2
  <2> QED BY <1>3, <1>8, <2>1, <2>2, <2>3, WithinGrows DEF Allowance, Later
<1>12. Allowance(e, q) <= Later(e, q)
  <2>1. Allowance(e, q) \in Int /\ Later(e, q) \in Int
    BY <1>2, <1>7, AllowancesAreInt
  <2> QED BY <1>2, <1>10, <2>1
<1>13. \A p \in Parties, d \in Executors : Allowance(d, p) <= Later(d, p)
  BY <1>11, <1>12
<1>14. compounded'[q] <= SumFunctionOnSet(Allowances(q)', Executors)
  BY <1>2, <1>6, <1>7, <1>10, <1>13, YieldGrowsAllowed
<1>15. \A p \in Parties \ {q} :
         compounded'[p] <= SumFunctionOnSet(Allowances(p)', Executors)
  BY <1>6, <1>7, <1>13, YieldStaysAllowed
<1>16. YieldIsAllowed'
  <2>1. \A p \in Parties : compounded'[p] <= SumFunctionOnSet(Allowances(p)', Executors)
    BY <1>14, <1>15
  <2> QED BY <2>1, YieldIsAllowedNext
<1> QED BY <1>7, <1>16

LEMMA RestartStep ==
  ASSUME YieldIInv, Reinvestment!Restart
  PROVE  YieldIInv'
<1> USE DEF YieldIInv
<1>1. /\ executions' = [e \in Executors |-> Reinvestment!Idle]
      /\ lastCompoundTime' = [p \in Parties |-> Reinvestment!Never]
      /\ restarts' = restarts + 1
      /\ compounded' = compounded /\ compoundTime' = compoundTime
  BY DEF Reinvestment!Restart
<1>2. ExecutionsHaveTypes'
  BY <1>1 DEF ExecutionsHaveTypes, ExecutionIsTyped, Reinvestment!Never
<1>3. ASSUME NEW p \in Parties, NEW e \in Executors
      PROVE  Allowance(e, p) <= Later(e, p)
  BY <1>1, Moments, IdleExecution, WithinAfterRestart DEF Allowance, Later
<1>4. YieldIsAllowed'
  BY <1>1, <1>2, <1>3, YieldStaysAllowed, YieldIsAllowedNext
<1> QED BY <1>2, <1>4

(* Time passes for the engine, or stands still.                            *)
LEMMA TimePasses ==
  ASSUME YieldIInv, UNCHANGED <<executions, lastCompoundTime, compounded, restarts>>,
         compoundTime' \in {compoundTime, compoundTime + 1}
  PROVE  YieldIInv'
<1> USE DEF YieldIInv
<1>1. compoundTime \in Nat /\ compoundTime' \in Nat /\ compoundTime <= compoundTime'
  BY DEF ExecutionsHaveTypes
<1>2. ExecutionsHaveTypes'
  BY <1>1 DEF ExecutionsHaveTypes, Reinvestment!Never
<1>3. ASSUME NEW p \in Parties, NEW e \in Executors
      PROVE  Allowance(e, p) <= Later(e, p)
  BY <1>1, <1>2, Moments, MomentsNext, WithinGrows DEF Allowance, Later
<1>4. YieldIsAllowed'
  BY <1>2, <1>3, YieldStaysAllowed, YieldIsAllowedNext
<1> QED BY <1>2, <1>4

LEMMA InitYield == Reinvestment!Init => YieldIInv
<1> SUFFICES ASSUME Reinvestment!Init
             PROVE  YieldIInv
  OBVIOUS
<1>1. ExecutionsHaveTypes
  BY DEF Reinvestment!Init, ExecutionsHaveTypes, ExecutionIsTyped, Reinvestment!Never
<1>2. ASSUME NEW p \in Parties
      PROVE  compounded[p] <= SumFunctionOnSet(Allowances(p), Executors)
  <2> DEFINE none == [e \in Executors |-> 0]
             f == Allowances(p)
  <2>1. ASSUME NEW e \in Executors
        PROVE  f[e] \in Int /\ 0 <= f[e]
    <3>1. f[e] = Within(Reinvestment!Idle, p, Reinvestment!Never, 0, 0)
      BY DEF Allowances, Allowance, Reinvestment!Init
    <3>2. Within(Reinvestment!Idle, p, Reinvestment!Never, 0, 0)
            = 0 + FirstPeriod * (0 + 1) - FirstPeriod
      BY IdleExecution DEF Within
    <3> QED BY <3>1, <3>2, ReinvestmentConstants
  <2>2. \A e \in Executors : none[e] = 0
    OBVIOUS
  <2> HIDE DEF none, f
  <2>3. /\ SumFunctionOnSet(none, Executors) <= SumFunctionOnSet(f, Executors)
        /\ SumFunctionOnSet(none, Executors) \in Int /\ SumFunctionOnSet(f, Executors) \in Int
    BY <2>1, <2>2, ReinvestmentConstants, SumIsMonotone, SumType
  <2>4. 0 <= SumFunctionOnSet(none, Executors)
    BY <2>2, ReinvestmentConstants, SumOfNothing
  <2>5. compounded[p] = 0
    BY DEF Reinvestment!Init
  <2>6. compounded[p] <= SumFunctionOnSet(f, Executors)
    BY <2>3, <2>4, <2>5
  <2> QED BY <2>6 DEF f
<1> QED BY <1>1, <1>2 DEF YieldIInv, YieldIsAllowed

LEMMA NextYield ==
  ASSUME YieldIInv, Reinvestment!Next
  PROVE  YieldIInv'
<1>1. CASE Reinvestment!Clock
  BY <1>1, TimePasses DEF Reinvestment!Clock
<1>2. ASSUME \/ Reinvestment!Saved \/ Reinvestment!LoadState
             \/ Reinvestment!LoadConfigsFromLedger
             \/ \E p \in Parties, cfg \in Reinvestment!CompoundConfig :
                  Reinvestment!SetConfig(p, cfg)
             \/ \E w \in writes : Reinvestment!WriteConfig(w)
      PROVE  UNCHANGED <<executions, lastCompoundTime, compounded, restarts, compoundTime>>
  BY <1>2 DEF Reinvestment!Saved, Reinvestment!LoadState,
     Reinvestment!LoadConfigsFromLedger, Reinvestment!SetConfig,
     Reinvestment!WriteConfig, Reinvestment!boundVars
<1> QED BY <1>1, <1>2, TimePasses, RestartStep, TickStep, DetectStep, SwapStep, FinishStep
        DEF Reinvestment!Next

ReinvestmentIInv == SavesIInv /\ YieldIInv

LEMMA ReinvestmentKept ==
  ASSUME ReinvestmentIInv, UNCHANGED compoundVars
  PROVE  ReinvestmentIInv'
<1>1. UNCHANGED <<configs, runs, file, saving, wanted, onLedger, writes, boot,
                  executions, lastCompoundTime, compounded, compoundTime, restarts>>
  BY DEF compoundVars
<1> QED BY <1>1, SavesKept, TimePasses DEF ReinvestmentIInv

LEMMA NextReinvestment == ReinvestmentIInv /\ [ValueNext]_valueVars => ReinvestmentIInv'
<1> SUFFICES ASSUME ReinvestmentIInv, [ValueNext]_valueVars
             PROVE  ReinvestmentIInv'
  OBVIOUS
<1>1. CASE Reinvestment!Next
  BY <1>1, NextSaves, NextYield DEF ReinvestmentIInv, YieldIInv
<1>2. CASE UNCHANGED compoundVars
  BY <1>2, ReinvestmentKept
<1> QED BY <1>1, <1>2 DEF ValueNext, valueVars

LEMMA ReinvestmentInvariance == ValueSpec => []ReinvestmentIInv
<1>1. ValueInit => ReinvestmentIInv
  BY InitSaves, InitYield DEF ValueInit, ReinvestmentIInv
<1> QED BY <1>1, NextReinvestment, PTL DEF ValueSpec

(* saveState: no save of the compound engine is lost, whatever calls come  *)
(* in during a write, and whichever writes fail.                           *)
THEOREM SavesAreNotLost == ValueSpec => []FileCatchesUp
<1>1. ReinvestmentIInv => FileCatchesUp
  BY DEF ReinvestmentIInv, SavesIInv, SaveIsDue, FileCatchesUp
<1> QED BY <1>1, ReinvestmentInvariance, PTL

(* The engine reinvests no more than what can have accrued, once for each  *)
(* execution that may overlap with others, for any number of those.        *)
THEOREM YieldIsEarned == ValueSpec => []YieldIsNotInvented
<1>1. ReinvestmentIInv => YieldIsNotInvented
  <2> SUFFICES ASSUME ReinvestmentIInv, NEW p \in Parties
               PROVE  compounded[p] <= Reinvestment!Cardinality(Executors)
                        * (compoundTime + FirstPeriod * (restarts + 1))
    BY DEF YieldIsNotInvented, Reinvestment!YieldIsNotInvented
  <2> USE DEF ReinvestmentIInv, YieldIInv
  <2> DEFINE most == compoundTime + FirstPeriod * (restarts + 1)
             f == Allowances(p)
  <2>1. Reinvestment!Cardinality(Executors) = Cardinality(Executors)
    BY DEF Reinvestment!Cardinality, Cardinality
  <2>2. most \in Nat
    BY AssumedPeriods DEF ExecutionsHaveTypes
  <2>3. ASSUME NEW e \in Executors
        PROVE  f[e] \in Int /\ f[e] <= most
    BY Moments, WithinIsInt DEF Allowances, Allowance
  <2>4. compounded[p] <= SumFunctionOnSet(f, Executors) /\ compounded[p] \in Int
    BY DEF YieldIsAllowed, ExecutionsHaveTypes
  <2> HIDE DEF most, f
  <2>5. /\ SumFunctionOnSet(f, Executors) <= Cardinality(Executors) * most
        /\ SumFunctionOnSet(f, Executors) \in Int
    BY <2>2, <2>3, ReinvestmentConstants, SumOfSmall, SumType
  <2>6. Cardinality(Executors) \in Nat
    BY ReinvestmentConstants, FS_CardinalityType
  <2>7. Cardinality(Executors) * most \in Int
    BY <2>2, <2>6
  <2>8. compounded[p] <= Cardinality(Executors) * most
    BY <2>4, <2>5, <2>7
  <2> QED BY <2>1, <2>8 DEF most
<1> QED BY <1>1, ReinvestmentInvariance, PTL

---------------------------------------------------------------------------
(***************************************************************************)
(* The monthly rewards (Rewards).                                          *)
(***************************************************************************)

(* The transactions on the trackers or in the payouts of a set.            *)
CountOf(set) == SumFunctionOnSet([x \in set |-> x.txCount], set)

OfUser(set, u) == {x \in set : x.user = u}

LEMMA CountedInIsCount ==
  ASSUME NEW set, NEW u
  PROVE  Monthly!CountedIn(set, u) = CountOf(OfUser(set, u))
<1> DEFINE S == OfUser(set, u)
           f == [x \in S |-> x.txCount]
<1>1. \A s \in SUBSET S : s # {} => SomeOf(s) \in s
  BY DEF SomeOf
<1>2. ASSUME NEW g
      PROVE  [s \in SUBSET S |-> IF s = {} THEN 0 ELSE f[SomeOf(s)] + g[s \ {SomeOf(s)}]] =
             [s \in SUBSET S |-> IF s = {} THEN 0
                                 ELSE SomeOf(s).txCount + g[s \ {SomeOf(s)}]]
  BY <1>1
<1>3. (CHOOSE g : g = [s \in SUBSET S |->
         IF s = {} THEN 0 ELSE f[SomeOf(s)] + g[s \ {SomeOf(s)}]]) =
      (CHOOSE g : g = [s \in SUBSET S |->
         IF s = {} THEN 0 ELSE SomeOf(s).txCount + g[s \ {SomeOf(s)}]])
  BY <1>2
<1>4. Monthly!CountedIn(set, u) =
        (CHOOSE g : g = [s \in SUBSET S |->
           IF s = {} THEN 0 ELSE SomeOf(s).txCount + g[s \ {SomeOf(s)}]])[S]
  BY Zenon DEF Monthly!CountedIn, Monthly!MapThenSumSet, Monthly!MapThenFoldSet, SomeOf, OfUser
<1>5. SumFunctionOnSet(f, S) =
        (CHOOSE g : g = [s \in SUBSET S |->
           IF s = {} THEN 0 ELSE f[SomeOf(s)] + g[s \ {SomeOf(s)}]])[S]
  BY SumUnfolds
<1> HIDE DEF f, S
<1>6. Monthly!CountedIn(set, u) = SumFunctionOnSet(f, S)
  BY <1>3, <1>4, <1>5
<1> QED BY <1>6 DEF CountOf, f, S

Counted(set) == IsFiniteSet(set) /\ \A x \in set : x.txCount \in Nat

LEMMA CountIsNat ==
  ASSUME NEW set, Counted(set)
  PROVE  CountOf(set) \in Int
<1> DEFINE f == [x \in set |-> x.txCount]
<1>1. \A x \in set : f[x] \in Int
  BY DEF Counted
<1> HIDE DEF f
<1>2. SumFunctionOnSet(f, set) \in Int
  BY <1>1, SumType DEF Counted
<1> QED BY <1>2 DEF CountOf, f

LEMMA CountWithout ==
  ASSUME NEW set, Counted(set), NEW x \in set
  PROVE  CountOf(set) = CountOf(set \ {x}) + x.txCount
<1> DEFINE f == [y \in set |-> y.txCount]
           g == [y \in set \ {x} |-> y.txCount]
<1>1. /\ \A y \in set : f[y] \in Int /\ f[y] = y.txCount
      /\ \A y \in set \ {x} : f[y] = g[y]
  BY DEF Counted
<1>2. /\ SumFunctionOnSet(f, set) = CountOf(set)
      /\ SumFunctionOnSet(g, set \ {x}) = CountOf(set \ {x})
  BY DEF CountOf
<1> HIDE DEF f, g
<1>3. SumFunctionOnSet(f, set) = f[x] + SumFunctionOnSet(f, set \ {x})
  BY <1>1, SumSplits DEF Counted
<1>4. SumFunctionOnSet(f, set \ {x}) = SumFunctionOnSet(g, set \ {x})
  BY <1>1, SumOfEqual
<1>5. Counted(set \ {x})
  BY FS_Subset DEF Counted
<1>6. CountOf(set \ {x}) \in Int /\ x.txCount \in Int
  BY <1>5, CountIsNat DEF Counted
<1> QED BY <1>1, <1>2, <1>3, <1>4, <1>6

LEMMA CountWith ==
  ASSUME NEW set, Counted(set), NEW x, x \notin set, x.txCount \in Nat
  PROVE  /\ Counted(set \union {x})
         /\ CountOf(set \union {x}) = CountOf(set) + x.txCount
<1>1. Counted(set \union {x})
  BY FS_AddElement DEF Counted
<1>2. (set \union {x}) \ {x} = set /\ x \in set \union {x}
  OBVIOUS
<1>3. CountOf(set \union {x}) = CountOf((set \union {x}) \ {x}) + x.txCount
  BY <1>1, <1>2, CountWithout
<1> QED BY <1>1, <1>2, <1>3

LEMMA OfUserCounted ==
  ASSUME NEW set, Counted(set), NEW u
  PROVE  Counted(OfUser(set, u))
<1>1. OfUser(set, u) \subseteq set
  BY DEF OfUser
<1> QED BY <1>1, FS_Subset DEF Counted

(* What a user's count is once x has been added or taken away.             *)
Share(x, u) == IF x.user = u THEN x.txCount ELSE 0

LEMMA UserCountWith ==
  ASSUME NEW set, Counted(set), NEW x, x \notin set, x.txCount \in Nat, NEW u
  PROVE  /\ CountOf(OfUser(set \union {x}, u)) = CountOf(OfUser(set, u)) + Share(x, u)
         /\ CountOf(OfUser(set, u)) \in Int
<1>1. Counted(OfUser(set, u)) /\ x \notin OfUser(set, u)
  BY OfUserCounted DEF OfUser
<1>2. CountOf(OfUser(set, u)) \in Int
  BY <1>1, CountIsNat
<1>3. CASE x.user = u
  <2>1. OfUser(set \union {x}, u) = OfUser(set, u) \union {x}
    BY <1>3 DEF OfUser
  <2>2. CountOf(OfUser(set, u) \union {x}) = CountOf(OfUser(set, u)) + x.txCount
    BY <1>1, CountWith
  <2> QED BY <1>2, <1>3, <2>1, <2>2 DEF Share
<1>4. CASE x.user # u
  <2>1. OfUser(set \union {x}, u) = OfUser(set, u)
    BY <1>4 DEF OfUser
  <2> QED BY <1>2, <1>4, <2>1 DEF Share
<1> QED BY <1>3, <1>4

LEMMA UserCountReplaced ==
  ASSUME NEW set, Counted(set), NEW x \in set, NEW y, y \notin set, y.txCount \in Nat, NEW u,
         NEW other, other = (set \ {x}) \union {y}
  PROVE  CountOf(OfUser(other, u)) = CountOf(OfUser(set, u)) - Share(x, u) + Share(y, u)
<1> DEFINE rest == set \ {x}
<1>1. Counted(rest) /\ x \notin rest /\ y \notin rest /\ rest \union {x} = set
  BY FS_Subset DEF Counted
<1>2. x.txCount \in Nat
  BY DEF Counted
<1> HIDE DEF rest
<1>3. /\ CountOf(OfUser(rest \union {x}, u)) = CountOf(OfUser(rest, u)) + Share(x, u)
      /\ CountOf(OfUser(rest \union {y}, u)) = CountOf(OfUser(rest, u)) + Share(y, u)
      /\ CountOf(OfUser(rest, u)) \in Int
  BY <1>1, <1>2, UserCountWith
<1>4. Share(x, u) \in Int /\ Share(y, u) \in Int
  BY <1>2 DEF Share
<1>5. CountOf(OfUser(rest \union {y}, u)) = CountOf(OfUser(set, u)) - Share(x, u) + Share(y, u)
  BY <1>1, <1>3, <1>4
<1> QED BY <1>5 DEF rest

---------------------------------------------------------------------------
(* Tiers.                                                                  *)

LEMMA MonthlyConstants ==
  /\ TierBounds \subseteq Nat /\ IsFiniteSet(TierBounds)
  /\ \A S : Monthly!Cardinality(S) = Cardinality(S)
  /\ RatePerTx \in [Monthly!Tiers -> Nat \ {0}]
  /\ MaxMonth \in Nat
<1>1. Monthly!IsFiniteSet(TierBounds) <=> IsFiniteSet(TierBounds)
  BY DEF Monthly!IsFiniteSet, IsFiniteSet
<1>2. \A S : Monthly!Cardinality(S) = Cardinality(S)
  BY DEF Monthly!Cardinality, Cardinality
<1> QED BY <1>1, <1>2, MonthlyAssumption DEF Monthly!ConstantsAssumption, Monthly!Tiers

LEMMA TierIsTier ==
  ASSUME NEW n
  PROVE  /\ Monthly!GetTier(n) \in Monthly!Tiers
         /\ Monthly!GetTier(n) \in Nat
<1> DEFINE S == {b \in TierBounds : n > b}
<1>1. /\ IsFiniteSet(S) /\ Cardinality(S) <= Cardinality(TierBounds)
      /\ Cardinality(S) \in Nat /\ Cardinality(TierBounds) \in Nat
  BY MonthlyConstants, FS_Subset, FS_CardinalityType
<1>2. Monthly!GetTier(n) = Cardinality(S) /\ Monthly!Tiers = 0..Cardinality(TierBounds)
  BY MonthlyConstants DEF Monthly!GetTier, Monthly!Tiers
<1> QED BY <1>1, <1>2

LEMMA NothingIsBronze == Monthly!GetTier(0) = 0
<1>1. {b \in TierBounds : 0 > b} = {}
  <2>1. \A b \in TierBounds : b \in Nat
    BY MonthlyConstants
  <2> QED BY <2>1
<1> QED BY <1>1, MonthlyConstants, FS_EmptySet DEF Monthly!GetTier

LEMMA BetterTier ==
  ASSUME NEW a \in Nat, NEW b \in Nat
  PROVE  LET m == Monthly!Max({a, b}) IN m \in {a, b} /\ a <= m /\ b <= m
<1>1. \E x \in {a, b} : \A y \in {a, b} : x >= y
  OBVIOUS
<1> QED BY <1>1 DEF Monthly!Max

(* With what txToNextTier says, the next tier is reached, and not before.  *)
LEMMA NextTierIsHonest ==
  ASSUME NEW n \in Nat, NEW tier \in Nat, NEW more, more = Monthly!TxToNextTier(n, tier),
         more > 0
  PROVE  /\ Monthly!GetTier(n + more) = tier + 1
         /\ Monthly!GetTier(n + more - 1) <= tier
<1> DEFINE below(b) == {c \in TierBounds : c < b}
           above == {b \in TierBounds : Cardinality(below(b)) = tier}
           least == Monthly!Min(above)
<1>1. more = IF above = {} THEN 0 ELSE Monthly!Max({0, least + 1 - n})
  BY MonthlyConstants DEF Monthly!TxToNextTier
<1>2. above # {}
  BY <1>1
<1>3. least \in above
  <2>1. above \in SUBSET Nat
    BY MonthlyConstants
  <2> HIDE DEF above
  <2>2. \E x \in above : \A y \in above : x <= y
    BY <1>2, <2>1, LeastNatural
  <2> QED BY <2>2 DEF Monthly!Min
<1>4. least \in Nat /\ least \in TierBounds /\ Cardinality(below(least)) = tier
  BY <1>3, MonthlyConstants
<1> HIDE DEF least, above
<1>5. n + more = least + 1 /\ more \in Int
  <2>1. \E x \in {0, least + 1 - n} : \A y \in {0, least + 1 - n} : x >= y
    BY <1>4
  <2>2. Monthly!Max({0, least + 1 - n}) \in {0, least + 1 - n}
    BY <2>1 DEF Monthly!Max
  <2>3. more \in {0, least + 1 - n}
    BY <1>1, <1>2, <2>2
  <2> QED BY <1>4, <2>3
<1>6. {b \in TierBounds : least + 1 > b} = below(least) \union {least}
  <2>1. \A b \in TierBounds : least + 1 > b <=> b < least \/ b = least
    BY <1>4, MonthlyConstants
  <2> QED BY <1>4, <2>1
<1>7. {b \in TierBounds : least > b} = below(least)
  BY <1>4, MonthlyConstants
<1>8. IsFiniteSet(below(least)) /\ least \notin below(least)
  BY <1>4, MonthlyConstants, FS_Subset
<1>9. Cardinality(below(least) \union {least}) = tier + 1
  BY <1>4, <1>8, FS_AddElement
<1>10. n + more - 1 = least
  BY <1>4, <1>5
<1>11. /\ Monthly!GetTier(least + 1) = tier + 1
       /\ Monthly!GetTier(least) = tier
  BY <1>4, <1>6, <1>7, <1>9, MonthlyConstants DEF Monthly!GetTier
<1> QED BY <1>5, <1>10, <1>11

---------------------------------------------------------------------------
(* The invariant of the rewards.                                           *)

PayoutRecord ==
  [tracker : Nat, user : Traders, month : Nat, tier : Monthly!Tiers, txCount : Nat,
   amount : Nat \ {0}]

(* A tracker is found by its number, which no other has had.               *)
TrackersAreUnique ==
  /\ created \in Nat
  /\ trackers \subseteq Monthly!Tracker /\ IsFiniteSet(trackers)
  /\ \A t \in trackers : t.id <= created
  /\ \A s, t \in trackers : s.id = t.id => s = t

PayoutsAreFinal ==
  /\ payouts \subseteq PayoutRecord /\ IsFiniteSet(payouts)
  /\ \A p \in payouts : p.month < month
  /\ \A p \in payouts : p.tracker <= created
  /\ \A p \in payouts, t \in trackers : p.tracker # t.id

CountsHaveTypes ==
  /\ month \in 0..MaxMonth
  /\ lastDistributedMonthId \in Monthly!None..(MaxMonth - 1)
  /\ counted \in [Traders -> Nat] /\ acked \in [Traders -> Nat]
  /\ \A u \in Traders : acked[u] <= counted[u]

(* A call of recordTransaction.                                            *)
Recording(x) ==
  \/ x \in [step : {"query", "create"}, user : Traders, month : Nat]
  \/ x.step = "record"

(* A run of the job, for the month before the one it rolls over to.        *)
Distribution(x, m) ==
  /\ \/ x \in [step : {"list"}, month : Nat, next : Nat]
     \/ x \in [step : {"pay"}, month : Nat, next : Nat, todo : SUBSET Monthly!Tracker,
               distributed : BOOLEAN, failed : BOOLEAN]
  /\ x.next = x.month + 1 /\ x.next <= m
  /\ x.step = "pay" => \A t \in x.todo : t.month = x.month /\ Monthly!Earned(t) > 0

CallsHaveTypes ==
  /\ DOMAIN recordings = Recorders \union Jobs
  /\ \A c \in Recorders \union Jobs :
       \/ recordings[c] = Monthly!Idle
       \/ Recording(recordings[c])
       \/ Distribution(recordings[c], month)

PaidBefore(u, m, tier) ==
  \E q \in payouts : q.user = u /\ q.month < m /\ q.tier = tier

(* The tier of a tracker is that of its count, or one that was paid.       *)
TierIsFounded(t) ==
  /\ t.previousTier = 0 \/ PaidBefore(t.user, t.month, t.previousTier)
  /\ t.tier = Monthly!GetTier(t.txCount) \/ PaidBefore(t.user, t.month, t.tier)

TiersAreFounded ==
  /\ \A t \in trackers : TierIsFounded(t)
  /\ \A p \in payouts :
       p.tier = Monthly!GetTier(p.txCount) \/ PaidBefore(p.user, p.month, p.tier)

(* What was counted for a user is on trackers or in payouts.               *)
CountsAddUp ==
  \A u \in Traders :
    CountOf(OfUser(trackers, u)) + CountOf(OfUser(payouts, u)) = counted[u]

LedgerIInv ==
  TrackersAreUnique /\ PayoutsAreFinal /\ TiersAreFounded /\ CountsAddUp

MonthlyIInv == LedgerIInv /\ CountsHaveTypes /\ CallsHaveTypes

LEMMA MonthlyCalls ==
  ASSUME MonthlyIInv, NEW c \in Recorders \union Jobs
  PROVE  /\ recordings[c].step \in {"query", "create"} =>
              recordings[c] \in [step : {"query", "create"}, user : Traders, month : Nat]
         /\ recordings[c].step \in {"list", "pay"} => Distribution(recordings[c], month)
  BY DEF MonthlyIInv, CallsHaveTypes, Recording, Distribution, Monthly!Idle

LEMMA TrackersCounted ==
  ASSUME LedgerIInv
  PROVE  Counted(trackers) /\ Counted(payouts)
<1>1. \A t \in trackers : t.txCount \in Nat
  BY DEF LedgerIInv, TrackersAreUnique, Monthly!Tracker
<1>2. \A p \in payouts : p.txCount \in Nat
  BY DEF LedgerIInv, PayoutsAreFinal, PayoutRecord
<1> QED BY <1>1, <1>2 DEF Counted, LedgerIInv, TrackersAreUnique, PayoutsAreFinal

LEMMA InitMonthly == Monthly!Init => MonthlyIInv
<1> SUFFICES ASSUME Monthly!Init
             PROVE  MonthlyIInv
  OBVIOUS
<1>1. TrackersAreUnique /\ PayoutsAreFinal /\ TiersAreFounded
  BY FS_EmptySet DEF Monthly!Init, TrackersAreUnique, PayoutsAreFinal, TiersAreFounded
<1>2. CountsHaveTypes
  BY MonthlyConstants DEF Monthly!Init, CountsHaveTypes, Monthly!None
<1>3. CallsHaveTypes
  BY DEF Monthly!Init, CallsHaveTypes
<1>4. CountsAddUp
  <2>1. \A u : OfUser(trackers, u) = {} /\ OfUser(payouts, u) = {}
    BY DEF Monthly!Init, OfUser
  <2>2. CountOf({}) = 0
    BY SumOfNone DEF CountOf
  <2> QED BY <2>1, <2>2 DEF Monthly!Init, CountsAddUp
<1> QED BY <1>1, <1>2, <1>3, <1>4 DEF MonthlyIInv, LedgerIInv

---------------------------------------------------------------------------
(* The ledger's steps.                                                     *)

LEMMA LedgerKept ==
  ASSUME LedgerIInv, UNCHANGED <<trackers, payouts, created, counted>>,
         month' \in {month, month + 1}, month \in Nat
  PROVE  LedgerIInv'
<1> USE DEF LedgerIInv
<1>1. TrackersAreUnique'
  BY DEF TrackersAreUnique
<1>2. PayoutsAreFinal'
  <2>1. \A p \in payouts : p.month \in Nat /\ p.month < month
    BY DEF PayoutsAreFinal, PayoutRecord
  <2>2. \A p \in payouts : p.month < month'
    BY <2>1
  <2> QED BY <2>2 DEF PayoutsAreFinal
<1>3. TiersAreFounded'
  BY DEF TiersAreFounded, TierIsFounded, PaidBefore
<1>4. CountsAddUp'
  BY DEF CountsAddUp
<1> QED BY <1>1, <1>2, <1>3, <1>4

(* The number created + 1 is new.                                          *)
LEMMA NewTrackers ==
  ASSUME LedgerIInv, NEW old \in SUBSET trackers, NEW t \in Monthly!Tracker,
         t.id = created + 1, created' = created + 1, trackers' = (trackers \ old) \union {t}
  PROVE  TrackersAreUnique' /\ t \notin trackers
<1> USE DEF LedgerIInv
<1>1. \A s \in trackers : s.id \in Nat /\ s.id <= created
  BY DEF TrackersAreUnique, Monthly!Tracker
<1>2. created \in Nat
  BY DEF TrackersAreUnique
<1>3. \A s \in trackers : s.id # t.id
  BY <1>1, <1>2
<1>4. IsFiniteSet(trackers')
  BY FS_Subset, FS_AddElement DEF TrackersAreUnique
<1> QED BY <1>1, <1>2, <1>3, <1>4 DEF TrackersAreUnique

LEMMA PayoutsAreOld ==
  ASSUME LedgerIInv
  PROVE  /\ created \in Nat
         /\ \A p \in payouts : p.tracker \in Nat /\ p.tracker < created + 1
  BY DEF LedgerIInv, TrackersAreUnique, PayoutsAreFinal, PayoutRecord

LEMMA CreateLedger ==
  ASSUME MonthlyIInv, NEW c \in Recorders, Monthly!CreateTracker(c)
  PROVE  LedgerIInv'
<1> USE DEF MonthlyIInv, LedgerIInv
<1> DEFINE t == Monthly!NewTracker(recordings[c].user, recordings[c].month)
<1>1. recordings[c].user \in Traders /\ recordings[c].month \in Nat
  BY MonthlyCalls DEF Monthly!CreateTracker, Monthly!At
<1>2. /\ t \in Monthly!Tracker /\ t.id = created + 1 /\ t.txCount = 0
      /\ t.tier = 0 /\ t.previousTier = 0
  <2>1. 0 \in Monthly!Tiers
    BY TierIsTier, NothingIsBronze
  <2>2. created + 1 \in Nat
    BY DEF TrackersAreUnique
  <2> QED BY <1>1, <2>1, <2>2 DEF Monthly!NewTracker, Monthly!Tracker
<1>3. /\ trackers' = trackers \union {t} /\ created' = created + 1
      /\ payouts' = payouts /\ counted' = counted /\ month' = month
  BY DEF Monthly!CreateTracker
<1> HIDE DEF t
<1>4. trackers' = (trackers \ {}) \union {t}
  BY <1>3
<1>5. TrackersAreUnique' /\ t \notin trackers
  BY <1>2, <1>3, <1>4, NewTrackers
<1>6. PayoutsAreFinal'
  BY <1>2, <1>3, PayoutsAreOld DEF PayoutsAreFinal
<1>7. TiersAreFounded'
  BY <1>2, <1>3, NothingIsBronze DEF TiersAreFounded, TierIsFounded, PaidBefore
<1>8. CountsAddUp'
  <2> SUFFICES ASSUME NEW u \in Traders
               PROVE  CountOf(OfUser(trackers', u)) + CountOf(OfUser(payouts', u)) = counted'[u]
    BY DEF CountsAddUp
  <2>1. CountOf(OfUser(trackers \union {t}, u)) = CountOf(OfUser(trackers, u)) + Share(t, u)
    BY <1>2, <1>5, TrackersCounted, UserCountWith
  <2>2. Share(t, u) = 0
    BY <1>2 DEF Share
  <2>3. CountOf(OfUser(trackers, u)) \in Int
    BY TrackersCounted, OfUserCounted, CountIsNat
  <2> QED BY <1>3, <2>1, <2>2, <2>3 DEF CountsAddUp
<1> QED BY <1>5, <1>6, <1>7, <1>8

(* The new contract for a tracker that counted one transaction more.      *)
LEMMA Recounted ==
  ASSUME NEW t \in Monthly!Tracker, NEW id \in Nat, NEW new, new = Monthly!WithTx(t, id)
  PROVE  /\ new \in Monthly!Tracker /\ new.id = id /\ new.txCount = t.txCount + 1
         /\ \/ new.tier = Monthly!GetTier(new.txCount)
            \/ new.tier = t.previousTier /\ t.previousTier # 0
         /\ new.previousTier = t.previousTier /\ new.user = t.user /\ new.month = t.month
<1> PICK n, tier : /\ n = t.txCount + 1
                   /\ tier = Monthly!Max({t.previousTier, Monthly!GetTier(n)})
  OBVIOUS
<1>1. /\ t.txCount \in Nat /\ t.previousTier \in Monthly!Tiers
      /\ t.previousTier \in Nat
  BY MonthlyConstants, FS_CardinalityType DEF Monthly!Tracker, Monthly!Tiers
<1>2. /\ tier \in {t.previousTier, Monthly!GetTier(n)} /\ tier \in Monthly!Tiers /\ n \in Nat
      /\ Monthly!GetTier(n) <= tier /\ Monthly!GetTier(n) \in Nat
  BY <1>1, TierIsTier, BetterTier
<1>3. new = [t EXCEPT !.id = id, !.txCount = n, !.tier = tier]
  BY <1>1 DEF Monthly!WithTx
<1>4. new \in Monthly!Tracker
  BY <1>2, <1>3 DEF Monthly!Tracker
<1>5. new.id = id /\ new.txCount = n /\ new.tier = tier
  BY <1>3 DEF Monthly!Tracker
<1>6. new.previousTier = t.previousTier /\ new.user = t.user /\ new.month = t.month
  BY <1>3 DEF Monthly!Tracker
<1>7. \/ tier = Monthly!GetTier(n)
      \/ tier = t.previousTier /\ t.previousTier # 0
  BY <1>1, <1>2
<1> QED BY <1>4, <1>5, <1>6, <1>7

(* The new contract for a tracker that was paid.                           *)
LEMMA Renewed ==
  ASSUME NEW t \in Monthly!Tracker, NEW next \in Nat, NEW amount \in Nat, created \in Nat,
         NEW new, new = Monthly!RolledOver(t, next, amount)
  PROVE  /\ new \in Monthly!Tracker /\ new.id = created + 1 /\ new.txCount = 0
         /\ new.tier = t.tier /\ new.previousTier = t.tier
         /\ new.user = t.user /\ new.month = next
<1> PICK id, run, total :
      /\ id = created + 1
      /\ run = IF Monthly!GetTier(t.txCount) >= t.tier THEN t.consecutiveMonths + 1 ELSE 1
      /\ total = t.totalRewardsEarned + amount
  OBVIOUS
<1>1. /\ id \in Nat /\ run \in Nat /\ total \in Nat /\ 0 \in Nat
      /\ t.tier \in Monthly!Tiers
  BY DEF Monthly!Tracker
<1>2. new = [t EXCEPT !.id = id, !.month = next, !.txCount = 0, !.previousTier = t.tier,
                      !.consecutiveMonths = run, !.totalRewardsEarned = total]
  BY DEF Monthly!RolledOver
<1>3. new \in Monthly!Tracker
  BY <1>1, <1>2 DEF Monthly!Tracker
<1>4. new.id = id /\ new.month = next /\ new.txCount = 0 /\ new.previousTier = t.tier
  BY <1>2 DEF Monthly!Tracker
<1>5. new.tier = t.tier /\ new.user = t.user
  BY <1>2 DEF Monthly!Tracker
<1> QED BY <1>3, <1>4, <1>5

(* The count of a user when one tracker takes another's place.             *)
LEMMA TrackerReplaced ==
  ASSUME LedgerIInv, NEW t \in trackers, NEW new \in Monthly!Tracker, new \notin trackers,
         trackers' = (trackers \ {t}) \union {new}, NEW u
  PROVE  /\ CountOf(OfUser(trackers', u))
              = CountOf(OfUser(trackers, u)) - Share(t, u) + Share(new, u)
         /\ CountOf(OfUser(trackers, u)) \in Int
<1>1. new.txCount \in Nat
  BY DEF Monthly!Tracker
<1>2. Counted(trackers)
  BY TrackersCounted
<1>3. CountOf(OfUser((trackers \ {t}) \union {new}, u))
        = CountOf(OfUser(trackers, u)) - Share(t, u) + Share(new, u)
  <2> PICK set, other : set = trackers /\ other = (set \ {t}) \union {new}
    OBVIOUS
  <2>1. Counted(set) /\ t \in set /\ new \notin set
    BY <1>2
  <2>2. CountOf(OfUser(other, u)) = CountOf(OfUser(set, u)) - Share(t, u) + Share(new, u)
    BY <1>1, <2>1, UserCountReplaced
  <2> QED BY <2>2
<1> QED BY <1>2, <1>3, OfUserCounted, CountIsNat

LEMMA RecordLedger ==
  ASSUME MonthlyIInv, NEW c \in Recorders, Monthly!RecordTx(c)
  PROVE  LedgerIInv'
<1> USE DEF MonthlyIInv, LedgerIInv
<1> PICK t \in trackers : t = recordings[c].tracker
  BY DEF Monthly!RecordTx
<1> PICK id, new : id = created + 1 /\ new = Monthly!WithTx(t, id)
  OBVIOUS
<1>1. /\ t \in Monthly!Tracker /\ t.txCount \in Nat /\ t.user \in Traders
      /\ created \in Nat /\ created + 1 \in Nat
  BY DEF TrackersAreUnique, Monthly!Tracker
<1>4. /\ new \in Monthly!Tracker /\ new.id = created + 1 /\ new.txCount = t.txCount + 1
      /\ \/ new.tier = Monthly!GetTier(new.txCount)
         \/ new.tier = t.previousTier /\ t.previousTier # 0
      /\ new.previousTier = t.previousTier /\ new.user = t.user /\ new.month = t.month
  <2>1. t \in Monthly!Tracker /\ id \in Nat /\ new = Monthly!WithTx(t, id)
    BY <1>1
  <2>2. id = created + 1
    OBVIOUS
  <2> QED BY ONLY <2>1, <2>2, Recounted
<1>5. /\ trackers' = (trackers \ {t}) \union {new} /\ created' = created + 1
      /\ payouts' = payouts /\ month' = month
      /\ counted' = [counted EXCEPT ![t.user] = counted[t.user] + 1]
  BY DEF Monthly!RecordTx
<1>6. TrackersAreUnique' /\ new \notin trackers
  BY <1>4, <1>5, NewTrackers
<1>7. PayoutsAreFinal'
  BY <1>4, <1>5, PayoutsAreOld DEF PayoutsAreFinal
<1>8. TiersAreFounded'
  <2>1. TierIsFounded(t)
    BY DEF TiersAreFounded
  <2>2. TierIsFounded(new)
    <3>1. new.previousTier = 0 \/ PaidBefore(new.user, new.month, new.previousTier)
      BY <1>4, <2>1 DEF TierIsFounded
    <3>2. \/ new.tier = Monthly!GetTier(new.txCount)
          \/ new.tier = new.previousTier /\ new.previousTier # 0
      BY <1>4
    <3>3. CASE new.tier = Monthly!GetTier(new.txCount)
      BY <3>1, <3>3 DEF TierIsFounded
    <3>4. CASE new.tier = new.previousTier /\ new.previousTier # 0
      BY <3>1, <3>4 DEF TierIsFounded
    <3> QED BY <3>2, <3>3, <3>4
  <2>3. \A s : TierIsFounded(s)' <=> TierIsFounded(s)
    BY <1>5 DEF TierIsFounded, PaidBefore
  <2> QED BY <1>5, <2>2, <2>3 DEF TiersAreFounded, PaidBefore
<1>9. CountsAddUp'
  <2> SUFFICES ASSUME NEW u \in Traders
               PROVE  CountOf(OfUser(trackers', u)) + CountOf(OfUser(payouts', u)) = counted'[u]
    BY DEF CountsAddUp
  <2>1. /\ CountOf(OfUser(trackers', u))
             = CountOf(OfUser(trackers, u)) - Share(t, u) + Share(new, u)
        /\ CountOf(OfUser(trackers, u)) \in Int /\ CountOf(OfUser(payouts, u)) \in Int
    BY <1>4, <1>5, <1>6, TrackerReplaced, TrackersCounted, OfUserCounted, CountIsNat
  <2>2. CountOf(OfUser(trackers, u)) + CountOf(OfUser(payouts, u)) = counted[u]
    BY DEF CountsAddUp
  <2>3. counted'[u] = counted[u] + (Share(new, u) - Share(t, u)) /\ counted[u] \in Nat
    BY <1>1, <1>4, <1>5 DEF CountsHaveTypes, Share
  <2>4. Share(t, u) \in Nat /\ Share(new, u) \in Nat
    BY <1>1, <1>4 DEF Share
  <2> QED BY <1>5, <2>1, <2>2, <2>3, <2>4
<1> QED BY <1>6, <1>7, <1>8, <1>9

LEMMA PayLedger ==
  ASSUME MonthlyIInv, NEW t \in trackers, NEW next, Monthly!Pay(t, next), next \in Nat,
         t.month < next, t.month < month, Monthly!Earned(t) > 0, month' = month
  PROVE  LedgerIInv'
<1> USE DEF MonthlyIInv, LedgerIInv
<1> PICK p, new : /\ p = Monthly!Payout(t, Monthly!Earned(t))
                  /\ new = Monthly!RolledOver(t, next, Monthly!Earned(t))
  OBVIOUS
<1>1. /\ t \in Monthly!Tracker /\ t.txCount \in Nat /\ t.tier \in Monthly!Tiers
      /\ t.user \in Traders /\ created \in Nat /\ t.month \in Nat /\ t.id \in Nat
      /\ t.id <= created
  BY DEF TrackersAreUnique, Monthly!Tracker
<1>2. Monthly!Earned(t) \in Nat \ {0}
  <2>1. RatePerTx[t.tier] \in Nat
    BY <1>1, MonthlyConstants
  <2>2. t.txCount * RatePerTx[t.tier] \in Nat
    BY <1>1, <2>1
  <2>3. Monthly!Earned(t) \in Nat
    BY <2>2 DEF Monthly!Earned, Monthly!CalculateRewardAmount
  <2> QED BY <1>1, <2>3
<1>3. /\ p \in PayoutRecord /\ p.tracker = t.id /\ p.user = t.user /\ p.month = t.month
      /\ p.tier = t.tier /\ p.txCount = t.txCount
  BY <1>1, <1>2 DEF Monthly!Payout, PayoutRecord
<1>5. /\ trackers' = (trackers \ {t}) \union {new} /\ created' = created + 1
      /\ payouts' = payouts \union {p} /\ counted' = counted
  BY DEF Monthly!Pay
<1>6. /\ new \in Monthly!Tracker /\ new.id = created + 1 /\ new.txCount = 0
      /\ new.tier = t.tier /\ new.previousTier = t.tier
      /\ new.user = t.user /\ new.month = next
  <2> PICK amount : amount = Monthly!Earned(t)
    OBVIOUS
  <2>1. /\ t \in Monthly!Tracker /\ next \in Nat /\ amount \in Nat /\ created \in Nat
        /\ new = Monthly!RolledOver(t, next, amount)
    BY <1>1, <1>2
  <2>2. new \in Monthly!Tracker
    BY <2>1, Renewed
  <2>3. /\ new.id = created + 1 /\ new.txCount = 0
        /\ new.tier = t.tier /\ new.previousTier = t.tier
    BY <2>1, Renewed
  <2>4. new.user = t.user /\ new.month = next
    BY <2>1, Renewed
  <2> QED BY <2>2, <2>3, <2>4
<1>7. TrackersAreUnique' /\ new \notin trackers
  BY <1>5, <1>6, NewTrackers
<1>8. p \notin payouts
  BY <1>3 DEF PayoutsAreFinal
<1>9. PayoutsAreFinal'
  <2>1. payouts' \subseteq PayoutRecord /\ IsFiniteSet(payouts')
    BY <1>3, <1>5, FS_AddElement DEF PayoutsAreFinal
  <2>2. \A q \in payouts' : q.month < month' /\ q.tracker <= created'
    <3>1. \A q \in payouts : q.tracker < created + 1 /\ q.tracker \in Nat
      BY PayoutsAreOld
    <3> QED BY <1>1, <1>3, <1>5, <3>1 DEF PayoutsAreFinal
  <2>3. \A q \in payouts', s \in trackers' : q.tracker # s.id
    <3>1. \A q \in payouts' : q.tracker # new.id
      BY <1>1, <1>3, <1>5, <1>6, PayoutsAreOld
    <3>2. \A s \in trackers \ {t} : s.id # t.id
      BY DEF TrackersAreUnique
    <3> QED BY <1>3, <1>5, <3>1, <3>2 DEF PayoutsAreFinal
  <2> QED BY <2>1, <2>2, <2>3 DEF PayoutsAreFinal
<1>10. TiersAreFounded'
  <2>1. \A u, m, r : PaidBefore(u, m, r) => PaidBefore(u, m, r)'
    BY <1>5 DEF PaidBefore
  <2>2. TierIsFounded(t)
    BY DEF TiersAreFounded
  <2>3. PaidBefore(t.user, next, t.tier)'
    BY <1>3, <1>5 DEF PaidBefore
  <2>4. TierIsFounded(new)'
    BY <1>6, <2>3 DEF TierIsFounded
  <2>5. \A s \in trackers : TierIsFounded(s)'
    BY <2>1 DEF TiersAreFounded, TierIsFounded
  <2>6. p.tier = Monthly!GetTier(p.txCount) \/ PaidBefore(p.user, p.month, p.tier)
    BY <1>3, <2>2 DEF TierIsFounded
  <2>7. \A q \in payouts' :
          q.tier = Monthly!GetTier(q.txCount) \/ PaidBefore(q.user, q.month, q.tier)'
    BY <1>5, <2>1, <2>6 DEF TiersAreFounded
  <2> QED BY <1>5, <2>4, <2>5, <2>7 DEF TiersAreFounded
<1>11. CountsAddUp'
  <2> SUFFICES ASSUME NEW u \in Traders
               PROVE  CountOf(OfUser(trackers', u)) + CountOf(OfUser(payouts', u)) = counted'[u]
    BY DEF CountsAddUp
  <2>1. /\ CountOf(OfUser(trackers', u))
             = CountOf(OfUser(trackers, u)) - Share(t, u) + Share(new, u)
        /\ CountOf(OfUser(trackers, u)) \in Int
    BY <1>5, <1>6, <1>7, TrackerReplaced
  <2>2. /\ CountOf(OfUser(payouts', u)) = CountOf(OfUser(payouts, u)) + Share(p, u)
        /\ CountOf(OfUser(payouts, u)) \in Int
    BY <1>1, <1>3, <1>5, <1>8, TrackersCounted, UserCountWith
  <2>3. CountOf(OfUser(trackers, u)) + CountOf(OfUser(payouts, u)) = counted[u]
    BY DEF CountsAddUp
  <2>4. Share(p, u) = Share(t, u) /\ Share(t, u) \in Nat /\ Share(new, u) = 0
    BY <1>1, <1>3, <1>6 DEF Share
  <2> QED BY <1>5, <2>1, <2>2, <2>3, <2>4
<1> QED BY <1>7, <1>9, <1>10, <1>11

---------------------------------------------------------------------------
(* The steps of the calls, and of the counters.                            *)

LEMMA CallChanged ==
  ASSUME CallsHaveTypes, NEW c \in Recorders \union Jobs, NEW x, Monthly!Goto(c, x),
         x = Monthly!Idle \/ Recording(x) \/ Distribution(x, month), month' = month
  PROVE  CallsHaveTypes'
<1>1. /\ DOMAIN recordings' = Recorders \union Jobs
      /\ recordings'[c] = x
      /\ \A d \in Recorders \union Jobs : d # c => recordings'[d] = recordings[d]
  BY DEF CallsHaveTypes, Monthly!Goto
<1>2. ASSUME NEW d \in Recorders \union Jobs
      PROVE  \/ recordings'[d] = Monthly!Idle
             \/ Recording(recordings'[d])
             \/ Distribution(recordings'[d], month')
  <2>1. CASE d = c
    BY <1>1, <2>1
  <2>2. CASE d # c
    BY <1>1, <2>2 DEF CallsHaveTypes
  <2> QED BY <2>1, <2>2
<1> QED BY <1>1, <1>2 DEF CallsHaveTypes

LEMMA CountersKept ==
  ASSUME CountsHaveTypes,
         UNCHANGED <<counted, acked, lastDistributedMonthId, month>>
  PROVE  CountsHaveTypes'
  BY DEF CountsHaveTypes

LEMMA RecordSteps ==
  ASSUME MonthlyIInv, NEW c \in Recorders,
         \/ \E u \in Traders : Monthly!Record(c, u)
         \/ Monthly!FindTracker(c)
         \/ Monthly!RecordFails(c)
  PROVE  MonthlyIInv'
<1> USE DEF MonthlyIInv
<1>1. /\ UNCHANGED <<trackers, payouts, created, counted>>
      /\ UNCHANGED <<counted, acked, lastDistributedMonthId, month>>
  BY DEF Monthly!Record, Monthly!FindTracker, Monthly!RecordFails, Monthly!ledgerVars
<1>2. month \in Nat
  BY MonthlyConstants DEF CountsHaveTypes
<1>3. CallsHaveTypes'
  <2>1. CASE \E u \in Traders : Monthly!Record(c, u)
    <3> PICK u \in Traders : Monthly!Record(c, u)
      BY <2>1
    <3> PICK x : x = [step |-> "query", user |-> u, month |-> month]
      OBVIOUS
    <3>1. Recording(x)
      BY <1>2 DEF Recording
    <3> QED BY <1>1, <3>1, CallChanged DEF Monthly!Record
  <2>2. CASE Monthly!FindTracker(c)
    <3>1. PICK x : /\ Monthly!Goto(c, x)
                   /\ \/ x = [recordings[c] EXCEPT !.step = "create"]
                      \/ \E t : x = [step |-> "record", user |-> t.user, tracker |-> t]
      BY <2>2 DEF Monthly!FindTracker
    <3>2. recordings[c] \in [step : {"query", "create"}, user : Traders, month : Nat]
      BY <2>2, MonthlyCalls DEF Monthly!FindTracker, Monthly!At
    <3>3. Recording(x)
      <4>1. CASE x = [recordings[c] EXCEPT !.step = "create"]
        BY <3>2, <4>1 DEF Recording
      <4>2. CASE \E t : x = [step |-> "record", user |-> t.user, tracker |-> t]
        BY <4>2 DEF Recording
      <4> QED BY <3>1, <4>1, <4>2
    <3> QED BY <1>1, <3>1, <3>3, CallChanged
  <2>3. CASE Monthly!RecordFails(c)
    BY <1>1, <2>3, CallChanged DEF Monthly!RecordFails
  <2> QED BY <2>1, <2>2, <2>3
<1> QED BY <1>1, <1>2, <1>3, LedgerKept, CountersKept

LEMMA CreateStep ==
  ASSUME MonthlyIInv, NEW c \in Recorders, Monthly!CreateTracker(c)
  PROVE  MonthlyIInv'
<1> USE DEF MonthlyIInv
<1>1. LedgerIInv'
  BY CreateLedger
<1>2. CountsHaveTypes'
  BY CountersKept DEF Monthly!CreateTracker
<1>3. CallsHaveTypes'
  <2>1. PICK x, t : /\ Monthly!Goto(c, x)
                    /\ x = [step |-> "record", user |-> t.user, tracker |-> t]
    BY DEF Monthly!CreateTracker
  <2>2. Recording(x)
    BY <2>1 DEF Recording
  <2> QED BY <2>1, <2>2, CallChanged DEF Monthly!CreateTracker
<1> QED BY <1>1, <1>2, <1>3

LEMMA RecordStep ==
  ASSUME MonthlyIInv, NEW c \in Recorders, Monthly!RecordTx(c)
  PROVE  MonthlyIInv'
<1> USE DEF MonthlyIInv
<1>1. LedgerIInv'
  BY RecordLedger
<1>2. CountsHaveTypes'
  <2>1. PICK u, more : /\ counted' = [counted EXCEPT ![u] = counted[u] + 1]
                       /\ acked' = [acked EXCEPT ![u] = acked[u] + more]
                       /\ more \in {0, 1}
    BY DEF Monthly!RecordTx
  <2>2. \A v \in Traders : counted[v] \in Nat /\ acked[v] \in Nat /\ acked[v] <= counted[v]
    BY DEF CountsHaveTypes
  <2>3. counted' \in [Traders -> Nat] /\ acked' \in [Traders -> Nat]
    <3>1. /\ u \in Traders => counted[u] + 1 \in Nat
          /\ u \in Traders => acked[u] + more \in Nat
      BY <2>1, <2>2
    <3>2. counted' \in [Traders -> Nat]
      BY <2>1, <3>1 DEF CountsHaveTypes
    <3>3. acked' \in [Traders -> Nat]
      BY <2>1, <3>1 DEF CountsHaveTypes
    <3> QED BY <3>2, <3>3
  <2>4. ASSUME NEW v \in Traders
        PROVE  acked'[v] <= counted'[v]
    <3>1. v = u => acked'[v] = acked[v] + more /\ counted'[v] = counted[v] + 1
      BY <2>1 DEF CountsHaveTypes
    <3>2. v # u => acked'[v] = acked[v] /\ counted'[v] = counted[v]
      BY <2>1 DEF CountsHaveTypes
    <3>3. acked[v] \in Nat /\ counted[v] \in Nat /\ acked[v] <= counted[v]
      BY <2>2
    <3>4. more \in Int /\ more <= 1
      BY <2>1
    <3> QED BY <3>1, <3>2, <3>3, <3>4
  <2>5. UNCHANGED <<month, lastDistributedMonthId>>
    BY DEF Monthly!RecordTx
  <2> QED BY <2>3, <2>4, <2>5 DEF CountsHaveTypes
<1>3. CallsHaveTypes'
  BY CallChanged DEF Monthly!RecordTx
<1> QED BY <1>1, <1>2, <1>3

(* What the job has still to do after a payout, made or refused.           *)
LEMMA OneDone ==
  ASSUME NEW x, NEW m, Distribution(x, m), x.step = "pay", NEW t, NEW y,
         \/ y = [x EXCEPT !.todo = @ \ {t}, !.distributed = TRUE]
         \/ y = [x EXCEPT !.todo = @ \ {t}, !.failed = TRUE]
  PROVE  Distribution(y, m)
<1> PICK rest : rest = x.todo \ {t}
  OBVIOUS
<1>1. /\ x \in [step : {"pay"}, month : Nat, next : Nat, todo : SUBSET Monthly!Tracker,
                distributed : BOOLEAN, failed : BOOLEAN]
      /\ x.next = x.month + 1 /\ x.next <= m
      /\ \A s \in rest : s.month = x.month /\ Monthly!Earned(s) > 0
      /\ rest \in SUBSET Monthly!Tracker
  BY DEF Distribution
<1>2. \/ y = [x EXCEPT !.todo = rest, !.distributed = TRUE]
      \/ y = [x EXCEPT !.todo = rest, !.failed = TRUE]
  OBVIOUS
<1>3. y \in [step : {"pay"}, month : Nat, next : Nat, todo : SUBSET Monthly!Tracker,
             distributed : BOOLEAN, failed : BOOLEAN]
  BY <1>1, <1>2
<1>4. y.next = x.next /\ y.month = x.month /\ y.todo = rest
  BY <1>1, <1>2
<1> QED BY <1>1, <1>3, <1>4 DEF Distribution

LEMMA JobSteps ==
  ASSUME MonthlyIInv, NEW j \in Jobs,
         Monthly!StartJob(j) \/ Monthly!ListTrackers(j) \/ Monthly!EndJob(j)
  PROVE  MonthlyIInv'
<1> USE DEF MonthlyIInv
<1>1. UNCHANGED <<trackers, payouts, created, counted, acked, month>>
  BY DEF Monthly!StartJob, Monthly!ListTrackers, Monthly!EndJob, Monthly!ledgerVars
<1>2. month \in Nat
  BY MonthlyConstants DEF CountsHaveTypes
<1>3. LedgerIInv'
  BY <1>1, <1>2, LedgerKept
<1>4. CASE Monthly!StartJob(j)
  <2> PICK x : x = [step |-> "list", month |-> month - 1, next |-> month]
    OBVIOUS
  <2>1. Distribution(x, month)
    BY <1>2, <1>4 DEF Distribution, Monthly!StartJob
  <2>2. CallsHaveTypes'
    BY <1>1, <1>4, <2>1, CallChanged DEF Monthly!StartJob
  <2> QED BY <1>1, <1>3, <1>4, <2>2, CountersKept DEF Monthly!StartJob
<1>5. CASE Monthly!ListTrackers(j)
  <2> PICK todo : todo = {t \in trackers :
                            t.month = recordings[j].month /\ Monthly!Earned(t) > 0}
    OBVIOUS
  <2> PICK x : x = [step |-> "pay", month |-> recordings[j].month,
                    next |-> recordings[j].next, todo |-> todo,
                    distributed |-> FALSE, failed |-> FALSE]
    OBVIOUS
  <2>1. /\ Distribution(recordings[j], month) /\ recordings[j].step = "list"
        /\ Monthly!Goto(j, x)
    BY <1>5, MonthlyCalls DEF Monthly!ListTrackers, Monthly!At
  <2>2. /\ todo \in SUBSET Monthly!Tracker
        /\ \A t \in todo : t.month = recordings[j].month /\ Monthly!Earned(t) > 0
    BY DEF LedgerIInv, TrackersAreUnique
  <2>3. Distribution(x, month)
    BY <2>1, <2>2 DEF Distribution
  <2>4. CallsHaveTypes'
    BY <1>1, <2>1, <2>3, CallChanged
  <2> QED BY <1>1, <1>3, <1>5, <2>4, CountersKept DEF Monthly!ListTrackers
<1>6. CASE Monthly!EndJob(j)
  <2>1. Distribution(recordings[j], month)
    BY <1>6, MonthlyCalls DEF Monthly!EndJob, Monthly!At
  <2>2. recordings[j].month \in Nat /\ recordings[j].month <= month - 1
    BY <1>2, <2>1 DEF Distribution
  <2>3. lastDistributedMonthId' \in {recordings[j].month, lastDistributedMonthId}
    BY <1>6 DEF Monthly!EndJob
  <2>4. lastDistributedMonthId' \in Monthly!None..(MaxMonth - 1)
    BY <2>2, <2>3, MonthlyConstants DEF CountsHaveTypes, Monthly!None
  <2>5. CountsHaveTypes'
    BY <1>1, <2>4 DEF CountsHaveTypes
  <2>6. CallsHaveTypes'
    BY <1>1, <1>6, CallChanged DEF Monthly!EndJob
  <2> QED BY <1>3, <2>5, <2>6
<1> QED BY <1>4, <1>5, <1>6

LEMMA DistributeStep ==
  ASSUME MonthlyIInv, NEW j \in Jobs, Monthly!Distribute(j)
  PROVE  MonthlyIInv'
<1> USE DEF MonthlyIInv
<1>1. UNCHANGED <<acked, lastDistributedMonthId, month>>
  BY DEF Monthly!Distribute
<1>2. month \in Nat
  BY MonthlyConstants DEF CountsHaveTypes
<1>3. Distribution(recordings[j], month) /\ recordings[j].step = "pay"
  BY MonthlyCalls DEF Monthly!Distribute, Monthly!At
<1>4. PICK t, x :
        /\ t \in recordings[j].todo
        /\ \/ Monthly!Pay(t, recordings[j].next)
           \/ UNCHANGED <<trackers, payouts, created, counted>>
        /\ Monthly!Goto(j, x)
        /\ \/ x = [recordings[j] EXCEPT !.todo = @ \ {t}, !.distributed = TRUE]
           \/ x = [recordings[j] EXCEPT !.todo = @ \ {t}, !.failed = TRUE]
  BY DEF Monthly!Distribute, Monthly!ledgerVars
<1>5. Distribution(x, month)
  BY <1>3, <1>4, OneDone
<1>6. CallsHaveTypes'
  BY <1>1, <1>4, <1>5, CallChanged
<1>7. LedgerIInv'
  <2>1. CASE UNCHANGED <<trackers, payouts, created, counted>>
    BY <1>1, <1>2, <2>1, LedgerKept
  <2>2. CASE Monthly!Pay(t, recordings[j].next)
    <3> PICK next : next = recordings[j].next
      OBVIOUS
    <3>1. /\ recordings[j].month \in Nat /\ next \in Nat
          /\ next = recordings[j].month + 1 /\ next <= month
          /\ t.month = recordings[j].month /\ Monthly!Earned(t) > 0
      BY <1>3, <1>4 DEF Distribution
    <3>2. t.month < next /\ t.month < month
      BY <1>2, <3>1
    <3>3. t \in trackers /\ Monthly!Pay(t, next)
      BY <2>2 DEF Monthly!Pay
    <3> QED BY <1>1, <3>1, <3>2, <3>3, PayLedger
  <2> QED BY <1>4, <2>1, <2>2
<1>8. counted' = counted
  BY <1>4 DEF Monthly!Pay
<1>9. CountsHaveTypes'
  BY <1>1, <1>8, CountersKept
<1> QED BY <1>6, <1>7, <1>9

LEMMA CalendarSteps ==
  ASSUME MonthlyIInv, Monthly!NextMonth \/ Monthly!Restart
  PROVE  MonthlyIInv'
<1> USE DEF MonthlyIInv
<1>1. month \in Nat /\ MaxMonth \in Nat /\ month <= MaxMonth
  BY MonthlyConstants DEF CountsHaveTypes
<1>2. CASE Monthly!NextMonth
  <2>1. /\ month' = month + 1 /\ month < MaxMonth
        /\ UNCHANGED <<trackers, payouts, created, counted>>
        /\ UNCHANGED <<lastDistributedMonthId, recordings, acked>>
    BY <1>2 DEF Monthly!NextMonth, Monthly!ledgerVars
  <2>2. LedgerIInv'
    BY <1>1, <2>1, LedgerKept
  <2>3. CountsHaveTypes'
    BY <1>1, <2>1 DEF CountsHaveTypes
  <2>4. \A x : Distribution(x, month) => Distribution(x, month + 1)
    BY <1>1 DEF Distribution
  <2>5. CallsHaveTypes'
    BY <2>1, <2>4 DEF CallsHaveTypes
  <2> QED BY <2>2, <2>3, <2>5
<1>3. CASE Monthly!Restart
  <2>1. /\ UNCHANGED <<trackers, payouts, created, counted, month, acked>>
        /\ lastDistributedMonthId' = Monthly!None
        /\ recordings' = [c \in Recorders \union Jobs |-> Monthly!Idle]
    BY <1>3 DEF Monthly!Restart, Monthly!ledgerVars
  <2>2. LedgerIInv'
    BY <1>1, <2>1, LedgerKept
  <2>3. CountsHaveTypes'
    BY <1>1, <2>1 DEF CountsHaveTypes, Monthly!None
  <2>4. CallsHaveTypes'
    BY <2>1 DEF CallsHaveTypes
  <2> QED BY <2>2, <2>3, <2>4
<1> QED BY <1>2, <1>3

LEMMA NextMonthly ==
  ASSUME MonthlyIInv, [ValueNext]_valueVars
  PROVE  MonthlyIInv'
<1>1. CASE Monthly!Next
  BY <1>1, RecordSteps, CreateStep, RecordStep, JobSteps, DistributeStep, CalendarSteps
     DEF Monthly!Next
<1>2. CASE UNCHANGED rewardVars
  <2>1. /\ UNCHANGED <<trackers, payouts, created, counted, month, acked>>
        /\ UNCHANGED <<lastDistributedMonthId, recordings>>
    BY <1>2 DEF rewardVars
  <2>2. month \in Nat
    BY MonthlyConstants DEF MonthlyIInv, CountsHaveTypes
  <2>3. LedgerIInv'
    BY <2>1, <2>2, LedgerKept DEF MonthlyIInv
  <2>4. CountsHaveTypes' /\ CallsHaveTypes'
    BY <2>1 DEF MonthlyIInv, CountsHaveTypes, CallsHaveTypes
  <2> QED BY <2>3, <2>4 DEF MonthlyIInv
<1> QED BY <1>1, <1>2 DEF ValueNext, valueVars

LEMMA MonthlyInvariance == ValueSpec => []MonthlyIInv
<1>1. ValueInit => MonthlyIInv
  BY InitMonthly DEF ValueInit
<1>2. MonthlyIInv /\ [ValueNext]_valueVars => MonthlyIInv'
  BY NextMonthly
<1> QED BY <1>1, <1>2, PTL DEF ValueSpec

LEMMA RewardsFollow == MonthlyIInv => Monthly!RewardsAreExact
<1> SUFFICES ASSUME MonthlyIInv
             PROVE  Monthly!RewardsAreExact
  OBVIOUS
<1> USE DEF MonthlyIInv, LedgerIInv
<1>1. Monthly!TransactionsAreConserved
  <2>1. ASSUME NEW u \in Traders
        PROVE  Monthly!CountedIn(trackers, u) + Monthly!CountedIn(payouts, u) = counted[u]
    <3>1. /\ Monthly!CountedIn(trackers, u) = CountOf(OfUser(trackers, u))
          /\ Monthly!CountedIn(payouts, u) = CountOf(OfUser(payouts, u))
      BY CountedInIsCount
    <3> QED BY <3>1 DEF CountsAddUp
  <2> QED BY <2>1 DEF Monthly!TransactionsAreConserved
<1>2. \A p \in payouts :
        \/ p.tier = Monthly!GetTier(p.txCount)
        \/ \E q \in payouts : q.user = p.user /\ q.month < p.month /\ q.tier = p.tier
  BY DEF TiersAreFounded, PaidBefore
<1>3. ASSUME NEW t \in trackers, NEW more, more = Monthly!TxToNextTier(t.txCount, t.tier),
             more > 0
      PROVE  /\ Monthly!GetTier(t.txCount + more) = t.tier + 1
             /\ Monthly!GetTier(t.txCount + more - 1) <= t.tier
  <2>1. t.txCount \in Nat /\ t.tier \in Nat
    BY MonthlyConstants, FS_CardinalityType
       DEF TrackersAreUnique, Monthly!Tracker, Monthly!Tiers
  <2> QED BY <1>3, <2>1, NextTierIsHonest
<1> QED BY <1>1, <1>2, <1>3 DEF Monthly!RewardsAreExact, Monthly!TiersAreHonest

(* Every transaction that was counted for a user is on exactly one tracker *)
(* or in exactly one payout, a payout is at a tier its count reaches or one*)
(* the user was paid at before, and what users are told of the next tier is*)
(* so (recordTransaction, distributeMonthlyRewards, getTier and            *)
(* txToNextTier in rewards.ts).                                            *)
THEOREM RewardsStayExact == ValueSpec => []RewardsAreExact
<1>1. MonthlyIInv => RewardsAreExact
  BY RewardsFollow DEF RewardsAreExact
<1> QED BY <1>1, MonthlyInvariance, PTL

---------------------------------------------------------------------------
(***************************************************************************)
(* The price oracle (PriceOracle).                                         *)
(***************************************************************************)

(* Remainders.                                                             *)

LEMMA NoMultipleBetween ==
  ASSUME NEW M \in Nat \ {0}, NEW q \in Int, 0 - M < q * M, q * M < M
  PROVE  q = 0
<1>1. q >= 1 => q * M >= M
  OBVIOUS
<1>2. q <= 0 - 1 => q * M <= 0 - M
  OBVIOUS
<1>3. PICK p \in Int : p = q * M
  OBVIOUS
<1>4. ~(q >= 1)
  BY <1>1, <1>3
<1>5. ~(q <= 0 - 1)
  BY <1>2, <1>3
<1> QED BY <1>4, <1>5

LEMMA Division ==
  ASSUME NEW M \in Nat \ {0}, NEW n \in Nat
  PROVE  \E q \in Int : n = q * M + (n % M) /\ n % M \in 0..(M - 1)
<1>1. n % M \in 0..(M - 1)
  OBVIOUS
<1>2. n = (n \div M) * M + (n % M)
  OBVIOUS
<1>3. n \div M \in Int
  OBVIOUS
<1> QED BY <1>1, <1>2, <1>3

(* The remainder is what is left of a multiple.                            *)
LEMMA RemainderIs ==
  ASSUME NEW M \in Nat \ {0}, NEW n \in Nat, NEW q \in Int, NEW r \in 0..(M - 1),
         n = q * M + r
  PROVE  n % M = r
<1>1. PICK p \in Int : n = p * M + (n % M) /\ n % M \in 0..(M - 1)
  BY Division
<1>2. PICK s : s = n % M
  OBVIOUS
<1>3. (q - p) * M = q * M - p * M
  OBVIOUS
<1>4. PICK x \in Int, y \in Int, z \in Int : x = q * M /\ y = p * M /\ z = (q - p) * M
  OBVIOUS
<1>5. s \in Int /\ 0 <= s /\ s <= M - 1 /\ n = y + s /\ n = x + r /\ z = x - y
  BY <1>1, <1>2, <1>3, <1>4
<1>6. 0 - M < z /\ z < M
  BY <1>5
<1>7. q - p = 0
  BY <1>4, <1>6, NoMultipleBetween
<1>8. x = y
  BY <1>4, <1>7
<1> QED BY <1>2, <1>5, <1>8

LEMMA RemainderOfSum ==
  ASSUME NEW M \in Nat \ {0}, NEW n \in Nat, NEW k \in Nat
  PROVE  /\ ((n % M) + k) % M = (n + k) % M
         /\ (n + M) % M = n % M
<1>1. PICK q \in Int : n = q * M + (n % M) /\ n % M \in 0..(M - 1)
  BY Division
<1>2. PICK r : r = n % M
  OBVIOUS
<1>3. r \in 0..(M - 1) /\ n = q * M + r
  BY <1>1, <1>2
<1>4. PICK p \in Int : r + k = p * M + ((r + k) % M) /\ (r + k) % M \in 0..(M - 1)
  <2>1. r + k \in Nat
    BY <1>3
  <2> QED BY <2>1, Division
<1>5. PICK s : s = (r + k) % M
  OBVIOUS
<1>6. s \in 0..(M - 1) /\ r + k = p * M + s
  BY <1>4, <1>5
<1>7. (q + p) * M = q * M + p * M /\ (q + 1) * M = q * M + M
  OBVIOUS
<1>8. n + k = (q + p) * M + s
  <2>1. PICK x \in Int, y \in Int : x = q * M /\ y = p * M
    OBVIOUS
  <2> QED BY <1>3, <1>6, <1>7, <2>1
<1>9. (n + k) % M = s
  <2>1. n + k \in Nat /\ q + p \in Int
    OBVIOUS
  <2> QED BY <1>6, <1>8, <2>1, RemainderIs
<1>10. n + M = (q + 1) * M + r
  <2>1. PICK x \in Int : x = q * M
    OBVIOUS
  <2> QED BY <1>3, <1>7, <2>1
<1>11. (n + M) % M = r
  <2>1. n + M \in Nat /\ q + 1 \in Int
    OBVIOUS
  <2> QED BY <1>3, <1>10, <2>1, RemainderIs
<1> QED BY <1>2, <1>5, <1>9, <1>11

(* Numbers that are less than M apart leave different remainders.          *)
LEMMA RemaindersDiffer ==
  ASSUME NEW M \in Nat \ {0}, NEW n \in Nat, NEW k \in Nat, k < n, n < k + M
  PROVE  n % M # k % M
<1> SUFFICES ASSUME n % M = k % M
             PROVE  FALSE
  OBVIOUS
<1>1. PICK q \in Int : n = q * M + (n % M) /\ n % M \in 0..(M - 1)
  BY Division
<1>2. PICK p \in Int : k = p * M + (k % M)
  BY Division
<1>3. (q - p) * M = q * M - p * M
  OBVIOUS
<1>4. PICK x \in Int, y \in Int, z \in Int, r \in Int :
        x = q * M /\ y = p * M /\ z = (q - p) * M /\ r = n % M
  BY <1>1
<1>5. z = n - k
  BY <1>1, <1>2, <1>3, <1>4
<1>6. q - p = 0
  BY <1>4, <1>5, NoMultipleBetween
<1>7. x = y
  BY <1>4, <1>6
<1> QED BY <1>3, <1>4, <1>5, <1>7

---------------------------------------------------------------------------
(* The ring of past prices.                                                *)

Values == Prices \union {MadeUp[a] : a \in Listed}

LEMMA OracleConstants ==
  /\ Quoted \subseteq Listed
  /\ MaxHistory \in Nat \ {0} /\ CacheTtl \in Nat
  BY OracleAssumption DEF Oracle!ConstantsAssumption

(* The ring holds the latest prices of rec, each where its number says.    *)
RingHolds(buf, rec) ==
  /\ buf.size = IF Len(rec) < MaxHistory THEN Len(rec) ELSE MaxHistory
  /\ buf.writeIdx = Len(rec) % MaxHistory
  /\ buf.data \in Seq(Values) /\ Len(buf.data) = buf.size
  /\ \A k \in 1..Len(rec) :
       Len(rec) < k + MaxHistory => buf.data[((k - 1) % MaxHistory) + 1] = rec[k]

LEMMA RecordKeepsRing ==
  ASSUME NEW rec \in Seq(Values), NEW buf, RingHolds(buf, rec), NEW price \in Values,
         NEW new, new = Oracle!Record(buf, price)
  PROVE  RingHolds(new, Append(rec, price))
<1> PICK n \in Nat, M \in Nat \ {0} : n = Len(rec) /\ M = MaxHistory
  BY OracleConstants, LenProperties
<1> PICK w, size, size2 : /\ w = n % M /\ size = IF n < M THEN n ELSE M
                          /\ size2 = IF n + 1 < M THEN n + 1 ELSE M
  OBVIOUS
<1>1. /\ buf.size = size /\ buf.writeIdx = w /\ buf.data \in Seq(Values) /\ Len(buf.data) = size
      /\ \A k \in 1..n : n < k + M => buf.data[((k - 1) % M) + 1] = rec[k]
  BY DEF RingHolds
<1>2. /\ w \in 0..(M - 1) /\ size \in Nat /\ size2 \in Nat
      /\ n < M => w = n
      /\ size < M => size2 = size + 1
      /\ ~(size < M) => size2 = size
      /\ size < M <=> n < M
      /\ (w + 1) % M = (n + 1) % M
  <2>1. w \in 0..(M - 1)
    OBVIOUS
  <2>2. n < M => w = n
    <3>1. n = 0 * M + n
      OBVIOUS
    <3>2. n < M => n \in 0..(M - 1)
      OBVIOUS
    <3> QED BY <3>1, <3>2, RemainderIs
  <2>3. (w + 1) % M = (n + 1) % M
    <3> PICK k \in Nat : k = 1
      OBVIOUS
    <3>1. ((n % M) + k) % M = (n + k) % M
      BY RemainderOfSum
    <3> QED BY <3>1
  <2>4. /\ size \in Nat /\ size2 \in Nat
        /\ size < M => size2 = size + 1
        /\ ~(size < M) => size2 = size
        /\ size < M <=> n < M
    OBVIOUS
  <2> QED BY <2>1, <2>2, <2>3, <2>4
<1>3. /\ new.size = size2
      /\ new.writeIdx = (n + 1) % M
      /\ new.data = [i \in 1..size2 |-> IF i = w + 1 THEN price ELSE buf.data[i]]
  BY <1>1, <1>2 DEF Oracle!Record
<1>4. \A i \in 1..size2 : i # w + 1 => i \in 1..size
  BY <1>2
<1>5. \A i \in 1..size : buf.data[i] \in Values
  BY <1>1, <1>2, ElementOfSeq
<1>6. new.data \in Seq(Values) /\ Len(new.data) = size2
  BY <1>2, <1>3, <1>4, <1>5
<1>7. /\ Append(rec, price) \in Seq(Values) /\ Len(Append(rec, price)) = n + 1
      /\ \A k \in 1..n : Append(rec, price)[k] = rec[k]
      /\ Append(rec, price)[n + 1] = price
  BY AppendProperties
<1>8. ASSUME NEW k \in 1..(n + 1), n + 1 < k + M
      PROVE  new.data[((k - 1) % M) + 1] = Append(rec, price)[k]
  <2>1. CASE k = n + 1
    <3>1. ((k - 1) % M) + 1 = w + 1
      BY <2>1
    <3>2. w + 1 \in 1..size2
      BY <1>2
    <3> QED BY <1>3, <1>7, <2>1, <3>1, <3>2
  <2>2. CASE k # n + 1
    <3>1. k \in 1..n /\ k - 1 \in Nat /\ k - 1 < n /\ n < (k - 1) + M /\ n < k + M
      BY <1>8, <2>2
    <3> PICK i : i = ((k - 1) % M) + 1
      OBVIOUS
    <3>2. i # w + 1 /\ i \in 1..M
      <4>1. n % M # (k - 1) % M
        BY <3>1, RemaindersDiffer
      <4>2. (k - 1) % M \in 0..(M - 1)
        BY <3>1
      <4> QED BY <1>2, <4>1, <4>2
    <3>3. i \in 1..size2
      <4>1. CASE n < M
        <5>1. k - 1 \in 0..(M - 1) /\ k - 1 = 0 * M + (k - 1)
          BY <3>1, <4>1
        <5>2. (k - 1) % M = k - 1
          BY <3>1, <5>1, RemainderIs
        <5> QED BY <3>1, <3>2, <4>1, <5>2
      <4>2. CASE ~(n < M)
        BY <3>2, <4>2
      <4> QED BY <4>1, <4>2
    <3>4. new.data[i] = buf.data[i]
      BY <1>3, <3>2, <3>3
    <3>5. buf.data[i] = rec[k]
      BY <1>1, <3>1
    <3> QED BY <1>7, <3>1, <3>4, <3>5
  <2> QED BY <2>1, <2>2
<1> QED BY <1>3, <1>6, <1>7, <1>8 DEF RingHolds

LEMMA RingIsRecent ==
  ASSUME NEW rec \in Seq(Values), NEW buf, RingHolds(buf, rec)
  PROVE  Oracle!ReadHistory(buf) =
           SubSeq(rec, IF Len(rec) > MaxHistory THEN Len(rec) - MaxHistory + 1 ELSE 1, Len(rec))
<1>0. PICK n \in Nat, M \in Nat \ {0} : n = Len(rec) /\ M = MaxHistory
  BY OracleConstants, LenProperties
<1>1. PICK first \in Nat, size \in Nat :
        /\ first = IF n > M THEN n - M + 1 ELSE 1
        /\ size = IF n < M THEN n ELSE M
  <2>1. n > M => n - M + 1 \in Nat
    OBVIOUS
  <2>2. (IF n > M THEN n - M + 1 ELSE 1) \in Nat /\ (IF n < M THEN n ELSE M) \in Nat
    BY <2>1
  <2> QED BY <2>2
<1>2. PICK w \in Nat, start \in Nat : w = n % M /\ start = IF size < M THEN 0 ELSE w
  <2>1. n % M \in Nat
    OBVIOUS
  <2>2. (IF size < M THEN 0 ELSE n % M) \in Nat
    BY <2>1
  <2> QED BY <2>1, <2>2
<1>3. /\ buf.size = size /\ buf.writeIdx = w
      /\ \A k \in 1..n : n < k + M => buf.data[((k - 1) % M) + 1] = rec[k]
  BY <1>0, <1>1, <1>2 DEF RingHolds
<1>4. first >= 1 /\ size = 1 + n - first /\ first >= n - M + 1
  BY <1>1
<1>5. n < M => start = 0 /\ first = 1
  BY <1>1, <1>2
<1>6. ~(n < M) => start = w /\ first = n - M + 1
  BY <1>1, <1>2
<1>7. Oracle!ReadHistory(buf) = [i \in 1..size |-> buf.data[((start + i - 1) % M) + 1]]
  BY <1>0, <1>2, <1>3 DEF Oracle!ReadHistory
<1> PICK recent : recent = SubSeq(rec, first, n)
  OBVIOUS
<1>8. /\ recent = [i \in 1..size |-> recent[i]]
      /\ \A i \in 1..size : recent[i] = rec[i + first - 1]
  <2>1. first \in Int /\ n \in Int /\ size = n - first + 1
    BY <1>4
  <2>2. \A i \in first..n : rec[i] \in Values
    <3>1. \A i \in first..n : i \in 1..n
      BY <1>4
    <3> QED BY <1>0, <3>1, ElementOfSeq
  <2>3. /\ recent \in Seq(Values)
        /\ Len(recent) = IF first <= n THEN n - first + 1 ELSE 0
        /\ \A i \in 1..(n - first + 1) : recent[i] = rec[first + i - 1]
    BY <2>1, <2>2, SubSeqProperties
  <2>4. Len(recent) = size
    BY <1>4, <2>1, <2>3
  <2>5. recent = [i \in 1..size |-> recent[i]]
    BY <2>3, <2>4, LenProperties
  <2>6. \A i \in 1..size : first + i - 1 = i + first - 1
    BY <1>4
  <2> QED BY <2>1, <2>3, <2>5, <2>6
<1>9. ASSUME NEW i \in 1..size
      PROVE  buf.data[((start + i - 1) % M) + 1] = recent[i]
  <2> PICK k \in Nat, j \in Nat : k = i + first - 1 /\ j = i - 1
    BY <1>4
  <2>1. k \in 1..n /\ n < k + M /\ k - 1 \in Nat
    BY <1>4
  <2>2. (start + j) % M = (k - 1) % M
    <3>1. CASE n < M
      <4>1. start + j = k - 1
        BY <1>5, <3>1
      <4> QED BY <4>1
    <3>2. CASE ~(n < M)
      <4>1. start = w /\ (k - 1) + M = n + j
        BY <1>4, <1>6, <3>2
      <4>2. (w + j) % M = (n + j) % M
        BY <1>2, RemainderOfSum
      <4>3. ((k - 1) + M) % M = (k - 1) % M
        BY <2>1, RemainderOfSum
      <4> QED BY <4>1, <4>2, <4>3
    <3> QED BY <3>1, <3>2
  <2>3. start + i - 1 = start + j
    OBVIOUS
  <2>4. buf.data[((k - 1) % M) + 1] = rec[k]
    BY <1>3, <2>1
  <2>5. recent[i] = rec[k]
    BY <1>8
  <2> QED BY <2>2, <2>3, <2>4, <2>5
<1>10. Oracle!ReadHistory(buf) = [i \in 1..size |-> recent[i]]
  BY <1>9, <1>7
<1> QED BY <1>0, <1>1, <1>8, <1>10

---------------------------------------------------------------------------
(* The invariant of the oracle.                                            *)

PricesOf(a) == Prices \union {MadeUp[a]}

Seen(a, price) == \E i \in DOMAIN recorded[a] : recorded[a][i] = price

HistoriesAreKept ==
  /\ recorded \in [Listed -> Seq(Values)]
  /\ DOMAIN buffers = Listed
  /\ \A a \in Listed : RingHolds(buffers[a], recorded[a])

(* A cached price was seen.                                                *)
CacheIsKept ==
  /\ priceTime \in Nat
  /\ DOMAIN cache = Listed
  /\ \A a \in Listed :
       /\ cache[a].price \in PricesOf(a) \union {0}
       /\ cache[a].expires \in Nat
       /\ cache[a] = Oracle!NoEntry \/ Seen(a, cache[a].price)

(* What a call holds: the price that was cached when it asked, the quotes  *)
(* it got, or what it answers.                                             *)
Fetches(x) == x.asset \in Listed /\ (x.cached # 0 => Seen(x.asset, x.cached))

Holds(x) ==
  /\ DOMAIN x.quotes \subseteq Quoted
  /\ x.todo \subseteq DOMAIN x.quotes
  /\ \A a \in DOMAIN x.quotes : x.quotes[a] \in PricesOf(a)

Answers(x) ==
  /\ x.asset \in Listed
  /\ x.source \in Oracle!Sources
  /\ IF x.source = "fallback" THEN x.price = MadeUp[x.asset] ELSE Seen(x.asset, x.price)

(* A call that takes quotes: its record, as the code builds it.            *)
Waits(x) == x = [step |-> "volume", quotes |-> x.quotes, todo |-> x.todo, asset |-> x.asset]

ReadingIsTyped(x) ==
  \/ x = Oracle!Idle
  \/ x.step = "fetch" /\ Fetches(x)
  \/ x.step = "poll"
  \/ x.step = "volume" /\ Waits(x) /\ Holds(x)
  \/ x.step = "answered" /\ Answers(x)

ReadingsAreTyped ==
  /\ DOMAIN readings = Readers
  /\ \A r \in Readers : ReadingIsTyped(readings[r])

OracleIInv == HistoriesAreKept /\ CacheIsKept /\ ReadingsAreTyped

LEMMA ReadingShapes ==
  ASSUME ReadingsAreTyped, NEW r \in Readers
  PROVE  /\ readings[r].step = "fetch" => Fetches(readings[r])
         /\ readings[r].step = "volume" => Waits(readings[r]) /\ Holds(readings[r])
         /\ readings[r].step = "answered" => Answers(readings[r])
  BY DEF ReadingsAreTyped, ReadingIsTyped, Oracle!Idle

LEMMA InitOracle == Oracle!Init => OracleIInv
<1> SUFFICES ASSUME Oracle!Init
             PROVE  OracleIInv
  OBVIOUS
<1>1. HistoriesAreKept
  <2>1. \A a \in Listed : RingHolds(buffers[a], recorded[a])
    <3> TAKE a \in Listed
    <3>1. /\ recorded[a] = <<>> /\ buffers[a].data = <<>>
          /\ buffers[a].size = 0 /\ buffers[a].writeIdx = 0
      BY DEF Oracle!Init, Oracle!EmptyBuffer
    <3>2. Len(<<>>) = 0 /\ <<>> \in Seq(Values)
      OBVIOUS
    <3>3. 0 % MaxHistory = 0
      <4>1. 0 = 0 * MaxHistory + 0 /\ 0 \in 0..(MaxHistory - 1)
        BY OracleConstants
      <4> QED BY <4>1, OracleConstants, RemainderIs
    <3> QED BY <3>1, <3>2, <3>3, OracleConstants DEF RingHolds
  <2> QED BY <2>1 DEF Oracle!Init, HistoriesAreKept
<1>2. CacheIsKept
  BY DEF Oracle!Init, CacheIsKept, Oracle!NoEntry
<1>3. ReadingsAreTyped
  BY DEF Oracle!Init, ReadingsAreTyped, ReadingIsTyped
<1> QED BY <1>1, <1>2, <1>3 DEF OracleIInv

---------------------------------------------------------------------------
(* The steps of the oracle.                                                *)

(* What is seen stays seen, so that a call that stands still stays as it   *)
(* is, and one that goes on needs to be looked at.                         *)
LEMMA ReadingChanged ==
  ASSUME ReadingsAreTyped, NEW r \in Readers, NEW x, Oracle!Goes(r, x), ReadingIsTyped(x)',
         \A a \in Listed : \A p : Seen(a, p) => Seen(a, p)'
  PROVE  ReadingsAreTyped'
<1>1. /\ DOMAIN readings' = Readers
      /\ readings'[r] = x
      /\ \A d \in Readers : d # r => readings'[d] = readings[d]
  BY DEF ReadingsAreTyped, Oracle!Goes
<1>2. \A y : ReadingIsTyped(y) => ReadingIsTyped(y)'
  BY DEF ReadingIsTyped, Fetches, Answers
<1> QED BY <1>1, <1>2 DEF ReadingsAreTyped

LEMMA OracleReads ==
  ASSUME OracleIInv, NEW r \in Readers, UNCHANGED <<cache, buffers, recorded, priceTime>>,
         NEW x, Oracle!Goes(r, x), ReadingIsTyped(x)
  PROVE  OracleIInv'
<1>1. HistoriesAreKept' /\ CacheIsKept'
  BY DEF OracleIInv, HistoriesAreKept, CacheIsKept, Seen
<1>2. \A a \in Listed : \A p : Seen(a, p) => Seen(a, p)'
  BY DEF Seen
<1>3. ReadingIsTyped(x)'
  BY DEF ReadingIsTyped, Fetches, Answers, Seen
<1>4. ReadingsAreTyped'
  BY <1>2, <1>3, ReadingChanged DEF OracleIInv
<1> QED BY <1>1, <1>4 DEF OracleIInv

LEMMA GetPriceStep ==
  ASSUME OracleIInv, NEW r \in Readers, NEW a \in Listed, Oracle!GetPrice(r, a)
  PROVE  OracleIInv'
<1>1. PICK x : /\ Oracle!Goes(r, x)
               /\ x = IF Oracle!Hot(a) THEN Oracle!Answer(a, cache[a].price, "cached")
                      ELSE [step |-> "fetch", asset |-> a, cached |-> cache[a].price]
  BY DEF Oracle!GetPrice
<1>2. CASE Oracle!Hot(a)
  <2>1. Seen(a, cache[a].price)
    BY <1>2 DEF Oracle!Hot, OracleIInv, CacheIsKept
  <2>2. /\ x.step = "answered" /\ x.asset = a /\ x.source = "cached"
        /\ x.price = cache[a].price
    BY <1>1, <1>2 DEF Oracle!Answer
  <2>3. ReadingIsTyped(x)
    BY <2>1, <2>2 DEF ReadingIsTyped, Answers, Oracle!Sources
  <2> QED BY <1>1, <2>3, OracleReads DEF Oracle!GetPrice
<1>3. CASE ~Oracle!Hot(a)
  <2>1. x.step = "fetch" /\ x.asset = a /\ x.cached = cache[a].price
    BY <1>1, <1>3
  <2>2. cache[a].price # 0 => Seen(a, cache[a].price)
    BY DEF OracleIInv, CacheIsKept, Oracle!NoEntry
  <2>3. ReadingIsTyped(x)
    BY <2>1, <2>2 DEF ReadingIsTyped, Fetches
  <2> QED BY <1>1, <2>3, OracleReads DEF Oracle!GetPrice
<1> QED BY <1>2, <1>3

LEMMA QuotesArePrices ==
  ASSUME NEW asks \in Oracle!Quotes
  PROVE  /\ DOMAIN asks \subseteq Quoted
         /\ \A a \in DOMAIN asks : asks[a] \in PricesOf(a)
  BY DEF Oracle!Quotes, PricesOf

LEMMA FetchedStep ==
  ASSUME OracleIInv, NEW r \in Readers, Oracle!Fetched(r)
  PROVE  OracleIInv'
<1>1. Fetches(readings[r])
  BY ReadingShapes DEF Oracle!Fetched, Oracle!At, OracleIInv
<1>2. PICK asks, a, c, x :
        /\ asks \in Oracle!Quotes
        /\ a = readings[r].asset /\ c = readings[r].cached
        /\ Oracle!Goes(r, x)
        /\ x = IF a \in DOMAIN asks
               THEN [step |-> "volume", quotes |-> asks, todo |-> {a}, asset |-> a]
               ELSE Oracle!Fallback(c, a)
  BY DEF Oracle!Fetched
<1>3. ReadingIsTyped(x)
  <2>1. CASE a \in DOMAIN asks
    <3>1. x = [step |-> "volume", quotes |-> asks, todo |-> {a}, asset |-> a]
      BY <1>2, <2>1
    <3>2. x.step = "volume" /\ Waits(x) /\ x.quotes = asks /\ x.todo = {a}
      BY <3>1 DEF Waits
    <3>3. Holds(x)
      BY <1>2, <2>1, <3>2, QuotesArePrices DEF Holds
    <3> QED BY <3>2, <3>3 DEF ReadingIsTyped
  <2>2. CASE a \notin DOMAIN asks
    <3>1. x = Oracle!Fallback(c, a) /\ a \in Listed /\ (c # 0 => Seen(a, c))
      BY <1>1, <1>2, <2>2 DEF Fetches
    <3>2. /\ x.step = "answered" /\ x.asset = a
          /\ c # 0 => x.source = "cached" /\ x.price = c
          /\ c = 0 => x.source = "fallback" /\ x.price = MadeUp[a]
      BY <3>1 DEF Oracle!Fallback, Oracle!Answer
    <3> QED BY <3>1, <3>2 DEF ReadingIsTyped, Answers, Oracle!Sources
  <2> QED BY <2>1, <2>2
<1> QED BY <1>2, <1>3, OracleReads DEF Oracle!Fetched

LEMMA PollSteps ==
  ASSUME OracleIInv, NEW r \in Readers,
         \/ Oracle!PollOnce(r)
         \/ Oracle!Polled(r)
         \/ Oracle!EndPoll(r)
         \/ Oracle!Return(r)
  PROVE  OracleIInv'
<1>1. CASE Oracle!PollOnce(r)
  <2> PICK x : x = [step |-> "poll"]
    OBVIOUS
  <2>1. ReadingIsTyped(x)
    BY DEF ReadingIsTyped
  <2> QED BY <1>1, <2>1, OracleReads DEF Oracle!PollOnce
<1>2. CASE Oracle!Polled(r)
  <2>1. PICK asks \in Oracle!Quotes :
          Oracle!Goes(r, [step |-> "volume", quotes |-> asks, todo |-> DOMAIN asks,
                          asset |-> "none"])
    BY <1>2 DEF Oracle!Polled
  <2> PICK x : x = [step |-> "volume", quotes |-> asks, todo |-> DOMAIN asks,
                    asset |-> "none"]
    OBVIOUS
  <2>2. x.step = "volume" /\ Waits(x) /\ x.quotes = asks /\ x.todo = DOMAIN asks
    BY DEF Waits
  <2>3. ReadingIsTyped(x)
    BY <2>2, QuotesArePrices DEF ReadingIsTyped, Holds
  <2> QED BY <1>2, <2>1, <2>3, OracleReads DEF Oracle!Polled
<1>3. CASE Oracle!EndPoll(r) \/ Oracle!Return(r)
  <2>1. ReadingIsTyped(Oracle!Idle)
    BY DEF ReadingIsTyped
  <2> QED BY <1>3, <2>1, OracleReads DEF Oracle!EndPoll, Oracle!Return
<1> QED BY <1>1, <1>2, <1>3

LEMMA VolumeStep ==
  ASSUME OracleIInv, NEW r \in Readers, Oracle!VolumeArrives(r)
  PROVE  OracleIInv'
<1> USE DEF OracleIInv
<1>1. Waits(readings[r]) /\ Holds(readings[r])
  BY ReadingShapes DEF Oracle!VolumeArrives, Oracle!At
<1>2. PICK a, price, x, rest :
        /\ a \in readings[r].todo /\ price = readings[r].quotes[a]
        /\ Oracle!Keep(a, price)
        /\ Oracle!Goes(r, x)
        /\ rest = readings[r].todo \ {a}
        /\ x = IF readings[r].asset = a THEN Oracle!Answer(a, price, "cantex")
               ELSE [readings[r] EXCEPT !.todo = rest]
        /\ priceTime' = priceTime
  BY DEF Oracle!VolumeArrives
<1>3. a \in Listed /\ price \in PricesOf(a) /\ price \in Values
  BY <1>1, <1>2, OracleConstants DEF Holds, PricesOf, Values
<1>4. /\ recorded' = [recorded EXCEPT ![a] = Append(recorded[a], price)]
      /\ buffers' = [buffers EXCEPT ![a] = Oracle!Record(buffers[a], price)]
      /\ cache' = [cache EXCEPT ![a] = [price |-> price, expires |-> priceTime + CacheTtl]]
  BY <1>2 DEF Oracle!Keep
<1>5. /\ recorded[a] \in Seq(Values) /\ Append(recorded[a], price) \in Seq(Values)
      /\ Len(Append(recorded[a], price)) = Len(recorded[a]) + 1
      /\ \A i \in 1..Len(recorded[a]) : Append(recorded[a], price)[i] = recorded[a][i]
      /\ Append(recorded[a], price)[Len(recorded[a]) + 1] = price
      /\ Len(recorded[a]) \in Nat
  <2>1. recorded[a] \in Seq(Values)
    BY <1>3 DEF HistoriesAreKept
  <2> QED BY <1>3, <2>1, AppendProperties, LenProperties
<1>6. HistoriesAreKept'
  <2>1. RingHolds(Oracle!Record(buffers[a], price), Append(recorded[a], price))
    BY <1>3, <1>5, RecordKeepsRing DEF HistoriesAreKept
  <2>2. /\ recorded' \in [Listed -> Seq(Values)] /\ DOMAIN buffers' = Listed
        /\ recorded'[a] = Append(recorded[a], price)
        /\ buffers'[a] = Oracle!Record(buffers[a], price)
    BY <1>3, <1>4, <1>5 DEF HistoriesAreKept
  <2>3. \A b \in Listed : b # a => recorded'[b] = recorded[b] /\ buffers'[b] = buffers[b]
    BY <1>4 DEF HistoriesAreKept
  <2> QED BY <2>1, <2>2, <2>3 DEF HistoriesAreKept
<1>7. Seen(a, price)'
  <2>1. recorded'[a] = Append(recorded[a], price)
    BY <1>3, <1>4 DEF HistoriesAreKept
  <2>2. Len(recorded[a]) + 1 \in DOMAIN Append(recorded[a], price)
    BY <1>5, LenProperties
  <2> QED BY <1>5, <2>1, <2>2 DEF Seen
<1>8. ASSUME NEW b \in Listed, NEW p, Seen(b, p)
      PROVE  Seen(b, p)'
  <2>1. CASE b = a
    <3>1. recorded'[a] = Append(recorded[a], price)
      BY <1>3, <1>4 DEF HistoriesAreKept
    <3>2. /\ DOMAIN recorded[a] = 1..Len(recorded[a])
          /\ DOMAIN Append(recorded[a], price) = 1..(Len(recorded[a]) + 1)
      BY <1>5, LenProperties
    <3>3. PICK i \in 1..Len(recorded[a]) : recorded[a][i] = p
      BY <1>8, <2>1, <3>2 DEF Seen
    <3>4. i \in 1..(Len(recorded[a]) + 1)
      BY <1>5, <3>3
    <3> QED BY <1>5, <2>1, <3>1, <3>2, <3>3, <3>4 DEF Seen
  <2>2. CASE b # a
    <3>1. recorded'[b] = recorded[b]
      BY <1>4, <2>2 DEF HistoriesAreKept
    <3> QED BY <1>8, <3>1 DEF Seen
  <2> QED BY <2>1, <2>2
<1>9. CacheIsKept'
  <2>1. priceTime + CacheTtl \in Nat
    BY OracleConstants DEF CacheIsKept
  <2>2. cache'[a].price = price /\ cache'[a].expires = priceTime + CacheTtl
    BY <1>3, <1>4 DEF CacheIsKept
  <2>3. \A b \in Listed : b # a => cache'[b] = cache[b]
    BY <1>4 DEF CacheIsKept
  <2>4. priceTime' \in Nat /\ DOMAIN cache' = Listed
    BY <1>2, <1>4 DEF CacheIsKept
  <2>5. \A b \in Listed : b # a =>
          /\ cache'[b].price \in PricesOf(b) \union {0}
          /\ cache'[b].expires \in Nat
          /\ cache'[b] = Oracle!NoEntry \/ Seen(b, cache[b].price)'
    BY <1>8, <2>3 DEF CacheIsKept
  <2> QED BY <1>3, <1>7, <2>1, <2>2, <2>3, <2>4, <2>5 DEF CacheIsKept
<1>10. ReadingIsTyped(x)'
  <2>1. CASE readings[r].asset = a
    <3>1. x.step = "answered" /\ x.asset = a /\ x.source = "cantex" /\ x.price = price
      BY <1>2, <2>1 DEF Oracle!Answer
    <3> QED BY <1>3, <1>7, <3>1 DEF ReadingIsTyped, Answers, Oracle!Sources
  <2>2. CASE readings[r].asset # a
    <3> PICK y : y = readings[r]
      OBVIOUS
    <3>1. x = [y EXCEPT !.todo = rest]
      BY <1>2, <2>2
    <3>2. y = [step |-> "volume", quotes |-> y.quotes, todo |-> y.todo, asset |-> y.asset]
      BY <1>1 DEF Waits
    <3>3. x = [step |-> "volume", quotes |-> y.quotes, todo |-> rest, asset |-> y.asset]
      BY <3>1, <3>2
    <3>4. x.step = "volume" /\ Waits(x) /\ x.quotes = y.quotes /\ x.todo = rest
      BY <3>3 DEF Waits
    <3>5. Holds(x)
      BY <1>1, <1>2, <3>4 DEF Holds
    <3> QED BY <3>4, <3>5 DEF ReadingIsTyped
  <2> QED BY <2>1, <2>2
<1>11. ReadingsAreTyped'
  BY <1>2, <1>8, <1>10, ReadingChanged
<1> QED BY <1>6, <1>9, <1>11

LEMMA NextOracle ==
  ASSUME OracleIInv, [ValueNext]_valueVars
  PROVE  OracleIInv'
<1>1. CASE Oracle!Next
  <2>1. CASE Oracle!Clock
    <3>1. /\ priceTime' = priceTime + 1
          /\ UNCHANGED <<cache, buffers, recorded, readings>>
      BY <2>1 DEF Oracle!Clock
    <3> QED BY <3>1 DEF OracleIInv, HistoriesAreKept, CacheIsKept, ReadingsAreTyped,
                        ReadingIsTyped, Fetches, Answers, Seen
  <2> QED BY <1>1, <2>1, GetPriceStep, FetchedStep, PollSteps, VolumeStep DEF Oracle!Next
<1>2. CASE UNCHANGED oracleVars
  <2>1. UNCHANGED <<cache, buffers, recorded, readings, priceTime>>
    BY <1>2 DEF oracleVars
  <2> QED BY <2>1 DEF OracleIInv, HistoriesAreKept, CacheIsKept, ReadingsAreTyped,
                      ReadingIsTyped, Fetches, Answers, Seen
<1> QED BY <1>1, <1>2 DEF ValueNext, valueVars

LEMMA OracleInvariance == ValueSpec => []OracleIInv
<1>1. ValueInit => OracleIInv
  BY InitOracle DEF ValueInit
<1>2. OracleIInv /\ [ValueNext]_valueVars => OracleIInv'
  BY NextOracle
<1> QED BY <1>1, <1>2, PTL DEF ValueSpec

LEMMA OracleFollows ==
  ASSUME OracleIInv
  PROVE  Oracle!PricesAreHonest /\ Oracle!TypeOK
<1> USE DEF OracleIInv
<1>1. Oracle!HistoryIsRecent
  <2>1. ASSUME NEW a \in Listed
        PROVE  LET n == Len(recorded[a]) IN
               Oracle!ReadHistory(buffers[a]) =
                 SubSeq(recorded[a], IF n > MaxHistory THEN n - MaxHistory + 1 ELSE 1, n)
    <3>1. recorded[a] \in Seq(Values) /\ RingHolds(buffers[a], recorded[a])
      BY DEF HistoriesAreKept
    <3> QED BY <3>1, RingIsRecent
  <2> QED BY <2>1 DEF Oracle!HistoryIsRecent
<1>2. Oracle!AnswersAreLabelled
  BY ReadingShapes DEF Oracle!AnswersAreLabelled, Oracle!At, Answers, Seen
<1>3. Oracle!TypeOK
  <2>1. ASSUME NEW a \in Listed
        PROVE  /\ buffers[a].writeIdx \in 0..(MaxHistory - 1)
               /\ buffers[a].size = Len(buffers[a].data)
    <3>1. recorded[a] \in Seq(Values) /\ RingHolds(buffers[a], recorded[a])
      BY DEF HistoriesAreKept
    <3>2. Len(recorded[a]) \in Nat
      BY <3>1, LenProperties
    <3>3. Len(recorded[a]) % MaxHistory \in 0..(MaxHistory - 1)
      BY <3>2, OracleConstants, Division
    <3> QED BY <3>1, <3>3 DEF RingHolds
  <2>2. \A a \in Listed : /\ cache[a].price \in Prices \union {0, MadeUp[a]}
                          /\ cache[a].expires \in Nat
    BY DEF CacheIsKept, PricesOf
  <2>3. \A r \in Readers : Oracle!At(r, "answered") => readings[r].source \in Oracle!Sources
    BY ReadingShapes DEF Oracle!At, Answers
  <2> QED BY <2>1, <2>2, <2>3 DEF Oracle!TypeOK
<1> QED BY <1>1, <1>2, <1>3 DEF Oracle!PricesAreHonest

---------------------------------------------------------------------------
(***************************************************************************)
(* The smart router (SmartRouter).                                         *)
(***************************************************************************)

(* The router's walk through a book of bids.                               *)

Level == [price : Nat, amount : Nat]

LEMMA RouterConstants ==
  /\ Amount \in Nat \ {0} /\ Outputs \subseteq Nat /\ Dummy \in Nat /\ CantexFee \in Nat
  /\ Books \subseteq Seq(Level)
  /\ \A book \in Books : \A i, j \in DOMAIN book :
       i <= j => book[i].price >= book[j].price
  /\ TakerRate \in Nat \ {0}
  /\ Attempts \in [{"cantex", "temple"} -> Nat \ {0}]
  /\ AvailabilityTtl \in Nat \ {0}
  BY RouterAssumption DEF Router!ConstantsAssumption, Router!Venues, Level

LEMMA RouterSums ==
  \A f : Router!FoldFunction(LAMBDA x, y : x + y, 0, f) = SumFunctionOnSet(f, DOMAIN f)
BY Zenon DEF Router!FoldFunction, SumFunctionOnSet, Router!FoldFunctionOnSet,
             FoldFunctionOnSet, Router!MapThenFoldSet, MapThenFoldSet

(* The sum of the first k values of f.                                     *)
First(f, k) == SumFunctionOnSet(f, 1..k)

LEMMA FirstSteps ==
  ASSUME NEW n \in Nat, NEW f, \A i \in 1..n : f[i] \in Int
  PROVE  /\ First(f, 0) = 0
         /\ \A k \in 0..n : First(f, k) \in Int
         /\ \A k \in 1..n : First(f, k) = f[k] + First(f, k - 1)
<1>1. First(f, 0) = 0
  <2>1. 1..0 = {}
    OBVIOUS
  <2> QED BY <2>1, SumOfNone DEF First
<1>2. \A k \in 0..n : First(f, k) \in Int
  <2> TAKE k \in 0..n
  <2>1. IsFiniteSet(1..k) /\ \A i \in 1..k : f[i] \in Int
    BY FS_Interval
  <2> QED BY <2>1, SumType DEF First
<1>3. \A k \in 1..n : First(f, k) = f[k] + First(f, k - 1)
  <2> TAKE k \in 1..n
  <2>1. IsFiniteSet(1..k) /\ (\A i \in 1..k : f[i] \in Int) /\ k \in 1..k
    BY FS_Interval
  <2>2. (1..k) \ {k} = 1..(k - 1)
    OBVIOUS
  <2> QED BY <2>1, <2>2, SumSplits DEF First
<1> QED BY <1>1, <1>2, <1>3

LEMMA FirstGrows ==
  ASSUME NEW n \in Nat, NEW f, \A i \in 1..n : f[i] \in Nat, NEW k \in 0..n
  PROVE  First(f, k) <= First(f, n)
<1> DEFINE T == {j \in Nat : k + j <= n => First(f, k) <= First(f, k + j)}
<1>0. /\ \A i \in 0..n : First(f, i) \in Int
      /\ \A i \in 1..n : First(f, i) = f[i] + First(f, i - 1)
  BY FirstSteps
<1>1. 0 \in T
  BY <1>0
<1>2. ASSUME NEW j \in Nat, j \in T PROVE j + 1 \in T
  <2>1. CASE k + (j + 1) <= n
    <3>1. k + (j + 1) \in 1..n /\ (k + (j + 1)) - 1 = k + j /\ k + j \in 0..n /\ k + j <= n
      BY <2>1
    <3>2. First(f, k + (j + 1)) = f[k + (j + 1)] + First(f, k + j)
      BY <1>0, <3>1
    <3>3. First(f, k) <= First(f, k + j)
      BY <1>2, <3>1
    <3>4. /\ First(f, k) \in Int /\ First(f, k + j) \in Int /\ First(f, k + (j + 1)) \in Int
          /\ f[k + (j + 1)] \in Nat
      BY <1>0, <3>1
    <3> QED BY <3>2, <3>3, <3>4
  <2>2. CASE ~(k + (j + 1) <= n)
    BY <2>2
  <2> QED BY <2>1, <2>2
<1>3. \A j \in Nat : j \in T
  <2> HIDE DEF T
  <2> QED BY <1>1, <1>2, NumberInduction
<1>4. n - k \in Nat /\ k + (n - k) = n
  OBVIOUS
<1> QED BY <1>3, <1>4

(* The states of the walk after each of the bids.                          *)
Left == [left : 0..Amount, cost : Nat]

Sold(acc, entry) == Router!Smaller(acc.left, entry.amount)

Taken(acc, entry) ==
  [left |-> acc.left - Sold(acc, entry), cost |-> acc.cost + Sold(acc, entry) * entry.price]

LEMMA TakenIsLeft ==
  ASSUME NEW acc \in Left, NEW entry \in Level
  PROVE  /\ Taken(acc, entry) \in Left
         /\ Sold(acc, entry) \in 0..acc.left /\ Sold(acc, entry) <= entry.amount
         /\ Sold(acc, entry) = acc.left \/ Sold(acc, entry) = entry.amount
<1>1. /\ acc.left \in 0..Amount /\ acc.cost \in Nat
      /\ entry.amount \in Nat /\ entry.price \in Nat /\ Amount \in Nat
  BY RouterConstants DEF Left, Level
<1>2. /\ Sold(acc, entry) \in 0..acc.left /\ Sold(acc, entry) <= entry.amount
      /\ Sold(acc, entry) = acc.left \/ Sold(acc, entry) = entry.amount
  BY <1>1 DEF Sold, Router!Smaller
<1>3. acc.left - Sold(acc, entry) \in 0..Amount
  BY <1>1, <1>2
<1>4. acc.cost + Sold(acc, entry) * entry.price \in Nat
  <2>1. Sold(acc, entry) \in Nat
    BY <1>1, <1>2
  <2>2. Sold(acc, entry) * entry.price \in Nat
    BY <1>1, <2>1
  <2> QED BY <1>1, <2>2
<1> QED BY <1>2, <1>3, <1>4 DEF Taken, Left

(* e is what the walk through the book goes through.                       *)
Walked(e, book) ==
  /\ e \in [0..Len(book) -> Left]
  /\ e[0] = [left |-> Amount, cost |-> 0]
  /\ \A k \in 1..Len(book) : e[k] = Taken(e[k - 1], book[k])

LEMMA WalksInSteps ==
  ASSUME NEW book \in Seq(Level)
  PROVE  \E e : Walked(e, book) /\ Router!Walk(book) = e[Len(book)]
<1> DEFINE h == [left |-> Amount, cost |-> 0]
<1>0. h \in Left
  BY RouterConstants DEF Left
<1>1. PICK n \in Nat : n = Len(book) /\ DOMAIN book = 1..n
  BY LenProperties
<1> DEFINE M == [p \in (1..n) \X Left |-> Taken(p[2], book[p[1]])]
           Def(g) == [s \in SUBSET (1..n) |->
                        IF s = {} THEN h ELSE Taken(g[s \ {Max(s)}], book[Max(s)])]
<1>2. ASSUME NEW k \in 1..n, NEW x \in Left
      PROVE  M[<<k, x>>] = Taken(x, book[k]) /\ Taken(x, book[k]) \in Left
  <2>1. book[k] \in Level
    BY <1>1, ElementOfSeq
  <2> QED BY <2>1, TakenIsLeft
<1>3. M \in [(1..n) \X Left -> Left]
  <2>1. \A p \in (1..n) \X Left : M[p] \in Left
    <3> TAKE p \in (1..n) \X Left
    <3>1. p[1] \in 1..n /\ p[2] \in Left /\ M[p] = Taken(p[2], book[p[1]])
      OBVIOUS
    <3> HIDE DEF M
    <3> QED BY <1>2, <3>1
  <2>2. M = [p \in (1..n) \X Left |-> M[p]]
    OBVIOUS
  <2> HIDE DEF M
  <2> QED BY <2>1, <2>2
<1> HIDE DEF M, h
<1>4. PICK f \in [SUBSET (1..n) -> Left] : FoldsOver(f, n, h, M)
  BY <1>0, <1>3, FoldExists
<1>5. ASSUME NEW g, \A s \in SUBSET (1..n) : g[s] \in Left
      PROVE  FoldsOver(g, n, h, M) <=> g = Def(g)
  <2>1. ASSUME NEW s \in SUBSET (1..n), s # {}
        PROVE  M[<<Max(s), g[s \ {Max(s)}]>>] = Taken(g[s \ {Max(s)}], book[Max(s)])
    <3>1. Max(s) \in 1..n
      BY <2>1, MaxOfNumbers
    <3>2. g[s \ {Max(s)}] \in Left
      BY <1>5
    <3> QED BY <1>2, <3>1, <3>2
  <2> QED BY <2>1 DEF FoldsOver
<1>6. f = Def(f)
  BY <1>4, <1>5
<1>7. PICK g : g = Def(g) /\ Router!Walk(book) = g[1..n]
  <2>1. (CHOOSE g : g = Def(g)) = Def(CHOOSE g : g = Def(g))
    <3> HIDE DEF Def
    <3> QED BY <1>6
  <2>2. Router!Walk(book) = (CHOOSE g : g = Def(g))[1..n]
    BY <1>1, Zenon DEF Router!Walk, Router!FoldLeft, Router!MapThenFoldSet, h, Taken, Sold,
                       Router!Max, Max
  <2> QED BY <2>1, <2>2
<1>8. \A s \in SUBSET (1..n) : g[s] \in Left
  <2> DEFINE T == {s \in SUBSET (1..n) : g[s] \in Left}
  <2>1. ASSUME NEW s \in SUBSET (1..n), \A r \in SUBSET s : r # s => r \in T
        PROVE  s \in T
    <3>1. g[s] = IF s = {} THEN h ELSE Taken(g[s \ {Max(s)}], book[Max(s)])
      BY <1>7
    <3>2. CASE s # {}
      <4>1. Max(s) \in s
        BY <3>2, MaxOfNumbers
      <4>2. Max(s) \in 1..n /\ s \ {Max(s)} \in T
        BY <2>1, <4>1
      <4> QED BY <1>2, <3>1, <3>2, <4>2
    <3> QED BY <1>0, <3>1, <3>2
  <2>2. IsFiniteSet(1..n)
    BY FS_Interval
  <2>3. \A s \in SUBSET (1..n) : s \in T
    <3> HIDE DEF T
    <3> QED BY <2>1, <2>2, SubsetInduction
  <2> QED BY <2>3
<1>9. FoldsOver(g, n, h, M)
  BY <1>5, <1>7, <1>8
<1>10. PICK e : FoldSteps(e, g, n, Left, h, M)
  BY <1>0, <1>3, <1>9, FoldsInSteps
<1>11. \A k \in 1..n : e[k] = Taken(e[k - 1], book[k])
  <2> TAKE k \in 1..n
  <2>1. k - 1 \in 0..n
    OBVIOUS
  <2>2. e[k - 1] \in Left
    BY <1>10, <2>1 DEF FoldSteps
  <2>3. e[k] = M[<<k, e[k - 1]>>]
    BY <1>10 DEF FoldSteps
  <2> QED BY <1>2, <2>2, <2>3
<1>12. Walked(e, book)
  BY <1>1, <1>10, <1>11 DEF Walked, FoldSteps, h
<1>13. g[1..n] = e[n]
  BY <1>10 DEF FoldSteps
<1> QED BY <1>1, <1>7, <1>12, <1>13

---------------------------------------------------------------------------
(* The walk takes the most that the bids can bring.                        *)

IsSplit(f, book) ==
  /\ DOMAIN f = 1..Len(book)
  /\ \A i \in 1..Len(book) : f[i] \in Nat /\ f[i] <= book[i].amount
  /\ First(f, Len(book)) <= Amount

Brings(f, book) == [i \in 1..Len(book) |-> f[i] * book[i].price]

LEMMA FillsAreSplits ==
  ASSUME NEW book \in Seq(Level)
  PROVE  /\ \A f \in Router!Fills(book) :
              IsSplit(f, book) /\ Router!Proceeds(book, f) = First(Brings(f, book), Len(book))
         /\ \A f \in [1..Len(book) -> 0..Amount] : IsSplit(f, book) =>
              /\ f \in Router!Fills(book)
              /\ Router!Proceeds(book, f) = First(Brings(f, book), Len(book))
<1>1. DOMAIN book = 1..Len(book)
  BY LenProperties
<1>2. ASSUME NEW f, DOMAIN f = 1..Len(book)
      PROVE  /\ Router!Proceeds(book, f) = First(Brings(f, book), Len(book))
             /\ Router!FoldFunction(LAMBDA x, y : x + y, 0, f) = First(f, Len(book))
  <2>1. /\ DOMAIN Brings(f, book) = 1..Len(book)
        /\ Brings(f, book) = [i \in DOMAIN book |-> f[i] * book[i].price]
    BY <1>1 DEF Brings
  <2>2. Router!Proceeds(book, f) =
          Router!FoldFunction(LAMBDA x, y : x + y, 0, Brings(f, book))
    BY <2>1, Zenon DEF Router!Proceeds
  <2>3. Router!FoldFunction(LAMBDA x, y : x + y, 0, Brings(f, book)) =
          SumFunctionOnSet(Brings(f, book), DOMAIN Brings(f, book))
    BY RouterSums, Zenon
  <2>4. Router!FoldFunction(LAMBDA x, y : x + y, 0, f) = SumFunctionOnSet(f, DOMAIN f)
    BY RouterSums, Zenon
  <2> QED BY <1>2, <2>1, <2>2, <2>3, <2>4, Zenon DEF First
<1>3. \A f : f \in Router!Fills(book) <=>
               /\ f \in [DOMAIN book -> 0..Amount]
               /\ \A i \in DOMAIN book : f[i] <= book[i].amount
               /\ Router!FoldFunction(LAMBDA x, y : x + y, 0, f) <= Amount
  BY Zenon DEF Router!Fills
<1>4. ASSUME NEW f \in Router!Fills(book)
      PROVE  IsSplit(f, book) /\ Router!Proceeds(book, f) = First(Brings(f, book), Len(book))
  <2>0. Router!FoldFunction(LAMBDA x, y : x + y, 0, f) <= Amount
    BY <1>3, <1>4
  <2>1. /\ f \in [1..Len(book) -> 0..Amount] /\ DOMAIN f = 1..Len(book)
        /\ \A i \in 1..Len(book) : f[i] <= book[i].amount
    BY <1>1, <1>3, <1>4
  <2>2. First(f, Len(book)) <= Amount
    BY <1>2, <2>0, <2>1
  <2>3. \A i \in 1..Len(book) : f[i] \in Nat
    <3>1. Amount \in Nat
      BY RouterConstants
    <3> QED BY <2>1, <3>1
  <2> QED BY <1>2, <2>1, <2>2, <2>3 DEF IsSplit
<1>5. ASSUME NEW f \in [1..Len(book) -> 0..Amount], IsSplit(f, book)
      PROVE  /\ f \in Router!Fills(book)
             /\ Router!Proceeds(book, f) = First(Brings(f, book), Len(book))
  <2>1. Router!FoldFunction(LAMBDA x, y : x + y, 0, f) <= Amount
    BY <1>2, <1>5 DEF IsSplit
  <2>2. f \in [DOMAIN book -> 0..Amount] /\ \A i \in DOMAIN book : f[i] <= book[i].amount
    BY <1>1, <1>5 DEF IsSplit
  <2> QED BY <1>2, <1>3, <1>5, <2>1, <2>2
<1> QED BY <1>4, <1>5

LEMMA SplitSteps ==
  ASSUME NEW book \in Seq(Level), NEW f, IsSplit(f, book), NEW n \in Nat, n = Len(book)
  PROVE  /\ First(f, 0) = 0 /\ First(Brings(f, book), 0) = 0
         /\ \A k \in 0..n : /\ First(f, k) \in Int /\ First(f, k) <= Amount
                            /\ First(Brings(f, book), k) \in Int
         /\ \A k \in 1..n :
              /\ First(f, k) = f[k] + First(f, k - 1)
              /\ First(Brings(f, book), k) =
                   f[k] * book[k].price + First(Brings(f, book), k - 1)
<1>1. /\ \A k \in 1..n : f[k] \in Nat
      /\ First(f, n) <= Amount
  BY DEF IsSplit
<1>2. /\ First(f, 0) = 0
      /\ \A k \in 0..n : First(f, k) \in Int
      /\ \A k \in 1..n : First(f, k) = f[k] + First(f, k - 1)
  <2>1. \A k \in 1..n : f[k] \in Int
    BY <1>1
  <2> QED BY <2>1, FirstSteps
<1>3. \A k \in 0..n : First(f, k) <= Amount
  <2> TAKE k \in 0..n
  <2>1. First(f, k) <= First(f, n)
    BY <1>1, FirstGrows
  <2>2. n \in 0..n
    OBVIOUS
  <2> QED BY <1>1, <1>2, <2>1, <2>2, RouterConstants
<1>4. \A k \in 1..n : Brings(f, book)[k] = f[k] * book[k].price /\ Brings(f, book)[k] \in Int
  <2> TAKE k \in 1..n
  <2>1. book[k] \in Level
    BY ElementOfSeq
  <2>2. f[k] \in Nat /\ book[k].price \in Nat
    BY <1>1, <2>1 DEF Level
  <2>3. f[k] * book[k].price \in Int
    BY <2>2
  <2> QED BY <2>3 DEF Brings
<1>5. /\ First(Brings(f, book), 0) = 0
      /\ \A k \in 0..n : First(Brings(f, book), k) \in Int
      /\ \A k \in 1..n : First(Brings(f, book), k) =
                           Brings(f, book)[k] + First(Brings(f, book), k - 1)
  BY <1>4, FirstSteps
<1> QED BY <1>2, <1>3, <1>4, <1>5

(* What the walk takes of each bid is a split that brings what it counts.  *)
LEMMA WalkIsSplit ==
  ASSUME NEW book \in Seq(Level)
  PROVE  \E f \in Router!Fills(book) : Router!Proceeds(book, f) = Router!Walk(book).cost
<1>1. PICK n \in Nat : n = Len(book)
  BY LenProperties
<1>2. PICK e : Walked(e, book) /\ Router!Walk(book) = e[n]
  BY <1>1, WalksInSteps
<1>3. PICK f : f = [k \in 1..n |-> Sold(e[k - 1], book[k])]
  OBVIOUS
<1>4. ASSUME NEW k \in 1..n
      PROVE  /\ e[k - 1] \in Left /\ book[k] \in Level
             /\ f[k] = Sold(e[k - 1], book[k])
             /\ f[k] \in 0..Amount /\ f[k] <= book[k].amount
             /\ e[k].left = e[k - 1].left - f[k]
             /\ e[k].cost = e[k - 1].cost + f[k] * book[k].price
  <2>1. e[k - 1] \in Left /\ book[k] \in Level
    <3>1. k - 1 \in 0..n
      OBVIOUS
    <3> QED BY <1>1, <1>2, <3>1, ElementOfSeq DEF Walked
  <2>2. f[k] = Sold(e[k - 1], book[k])
    BY <1>3
  <2>3. Sold(e[k - 1], book[k]) \in 0..(e[k - 1].left) /\ Sold(e[k - 1], book[k]) <= book[k].amount
    BY <2>1, TakenIsLeft
  <2>4. f[k] \in 0..Amount
    BY <2>1, <2>2, <2>3, RouterConstants DEF Left
  <2>5. e[k] = Taken(e[k - 1], book[k])
    BY <1>1, <1>2 DEF Walked
  <2> QED BY <2>1, <2>2, <2>3, <2>4, <2>5 DEF Taken
<1>5. f \in [1..n -> 0..Amount]
  BY <1>3, <1>4
<1>6. /\ First(f, 0) = 0 /\ \A k \in 0..n : First(f, k) \in Int
      /\ \A k \in 1..n : First(f, k) = f[k] + First(f, k - 1)
  <2>1. \A k \in 1..n : f[k] \in Int
    BY <1>4
  <2> QED BY <2>1, FirstSteps
<1>7. ASSUME NEW k \in 1..n
      PROVE  Brings(f, book)[k] = f[k] * book[k].price /\ Brings(f, book)[k] \in Int
  <2>1. f[k] \in Int /\ book[k].price \in Int
    BY <1>4 DEF Level
  <2>2. f[k] * book[k].price \in Int
    BY <2>1
  <2> QED BY <1>1, <2>2 DEF Brings
<1>8. /\ First(Brings(f, book), 0) = 0
      /\ \A k \in 0..n : First(Brings(f, book), k) \in Int
      /\ \A k \in 1..n : First(Brings(f, book), k) =
                           Brings(f, book)[k] + First(Brings(f, book), k - 1)
  BY <1>7, FirstSteps
<1> DEFINE T == {k \in Nat : k <= n => /\ e[k].left = Amount - First(f, k)
                                       /\ e[k].cost = First(Brings(f, book), k)}
<1>9. 0 \in T
  <2>1. e[0].left = Amount /\ e[0].cost = 0
    BY <1>2 DEF Walked
  <2> QED BY <1>6, <1>8, <2>1, RouterConstants
<1>10. ASSUME NEW k \in Nat, k \in T PROVE k + 1 \in T
  <2>1. CASE k + 1 <= n
    <3>1. k + 1 \in 1..n /\ (k + 1) - 1 = k /\ k \in 0..n /\ k <= n
      BY <2>1
    <3>2. /\ e[k + 1].left = e[k].left - f[k + 1]
          /\ e[k + 1].cost = e[k].cost + f[k + 1] * book[k + 1].price
          /\ f[k + 1] \in Int
      BY <1>4, <3>1
    <3>3. /\ First(f, k + 1) = f[k + 1] + First(f, k) /\ First(f, k) \in Int
          /\ First(Brings(f, book), k + 1) = Brings(f, book)[k + 1] + First(Brings(f, book), k)
          /\ Brings(f, book)[k + 1] = f[k + 1] * book[k + 1].price
          /\ First(Brings(f, book), k) \in Int /\ Brings(f, book)[k + 1] \in Int
      BY <1>6, <1>7, <1>8, <3>1
    <3>4. /\ e[k].left = Amount - First(f, k)
          /\ e[k].cost = First(Brings(f, book), k)
      BY <1>10, <3>1
    <3>5. e[k + 1].left = Amount - First(f, k + 1)
      BY <3>2, <3>3, <3>4, RouterConstants
    <3>6. e[k + 1].cost = First(Brings(f, book), k + 1)
      BY <3>2, <3>3, <3>4
    <3> QED BY <3>5, <3>6
  <2>2. CASE ~(k + 1 <= n)
    BY <2>2
  <2> QED BY <2>1, <2>2
<1>11. n \in T
  <2> HIDE DEF T
  <2> QED BY <1>9, <1>10, NumberInduction
<1>12. e[n].left = Amount - First(f, n) /\ e[n].cost = First(Brings(f, book), n)
  BY <1>11
<1>13. First(f, n) <= Amount
  <2>1. e[n].left \in 0..Amount
    BY <1>1, <1>2 DEF Walked, Left
  <2> QED BY <1>6, <1>12, <2>1, RouterConstants
<1>14. IsSplit(f, book)
  <2>1. \A k \in 1..n : f[k] \in Nat
    BY <1>5, RouterConstants
  <2> QED BY <1>1, <1>4, <1>5, <1>13, <2>1 DEF IsSplit
<1> QED BY <1>1, <1>2, <1>5, <1>12, <1>14, FillsAreSplits

LEMMA ProductGrows ==
  ASSUME NEW a \in Nat, NEW x \in Int, NEW y \in Int, x >= y
  PROVE  a * x >= a * y
<1>1. PICK d \in Nat : x = y + d
  <2>1. x - y \in Nat /\ x = y + (x - y)
    OBVIOUS
  <2> QED BY <2>1
<1>2. a * x = a * y + a * d /\ a * d \in Nat
  BY <1>1
<1>3. PICK s \in Int, t \in Int, m \in Nat : s = a * x /\ t = a * y /\ m = a * d
  BY <1>2
<1> QED BY <1>2, <1>3

(* One bid more: what the walk is ahead by stays worth its price.          *)
LEMMA AheadByOneMore ==
  ASSUME NEW costs \in Int, NEW brought \in Int, NEW ahead \in Nat, NEW sold \in Int,
         NEW split \in Int, NEW price \in Nat, NEW later \in Nat,
         costs - brought >= ahead * price,
         ahead + (sold - split) >= 0, price >= later
  PROVE  (costs + sold * price) - (brought + split * price)
           >= (ahead + (sold - split)) * later
<1>1. PICK more \in Nat : more = ahead + (sold - split)
  OBVIOUS
<1>2. more * price >= more * later
  BY <1>1, ProductGrows
<1>3. more * price = ahead * price + (sold * price - split * price)
  BY <1>1
<1>4. PICK a \in Int, b \in Int, c \in Int, d \in Int, l \in Int :
        /\ a = ahead * price /\ b = sold * price /\ c = split * price
        /\ d = more * price /\ l = more * later
  OBVIOUS
<1>5. (costs + b) - (brought + c) >= l
  BY <1>2, <1>3, <1>4
<1> QED BY <1>1, <1>4, <1>5

(* No split of the amount between the bids brings more than the walk.      *)
LEMMA WalkIsBest ==
  ASSUME NEW book \in Books, NEW f \in Router!Fills(book)
  PROVE  Router!Proceeds(book, f) <= Router!Walk(book).cost
<1>0. book \in Seq(Level)
  BY RouterConstants
<1>1. PICK n \in Nat : n = Len(book) /\ DOMAIN book = 1..n
  BY <1>0, LenProperties
<1>2. PICK e : Walked(e, book) /\ Router!Walk(book) = e[n]
  BY <1>0, <1>1, WalksInSteps
<1>3. IsSplit(f, book) /\ Router!Proceeds(book, f) = First(Brings(f, book), n)
  BY <1>0, <1>1, FillsAreSplits
<1>4. /\ First(f, 0) = 0 /\ First(Brings(f, book), 0) = 0
      /\ \A k \in 0..n : /\ First(f, k) \in Int /\ First(f, k) <= Amount
                         /\ First(Brings(f, book), k) \in Int
      /\ \A k \in 1..n :
           /\ First(f, k) = f[k] + First(f, k - 1)
           /\ First(Brings(f, book), k) = f[k] * book[k].price + First(Brings(f, book), k - 1)
  BY <1>0, <1>1, <1>3, SplitSteps
<1>5. ASSUME NEW k \in 1..n
      PROVE  /\ e[k - 1] \in Left /\ book[k] \in Level
             /\ e[k].left = e[k - 1].left - Sold(e[k - 1], book[k])
             /\ e[k].cost = e[k - 1].cost + Sold(e[k - 1], book[k]) * book[k].price
             /\ Sold(e[k - 1], book[k]) \in Int
             /\ \/ Sold(e[k - 1], book[k]) = e[k - 1].left
                \/ Sold(e[k - 1], book[k]) = book[k].amount
             /\ f[k] \in Nat /\ f[k] <= book[k].amount
  <2>1. e[k - 1] \in Left /\ book[k] \in Level
    <3>1. k - 1 \in 0..n
      OBVIOUS
    <3> QED BY <1>0, <1>1, <1>2, <3>1, ElementOfSeq DEF Walked
  <2>2. e[k] = Taken(e[k - 1], book[k])
    BY <1>1, <1>2 DEF Walked
  <2>3. /\ Sold(e[k - 1], book[k]) \in 0..(e[k - 1].left)
        /\ \/ Sold(e[k - 1], book[k]) = e[k - 1].left
           \/ Sold(e[k - 1], book[k]) = book[k].amount
    BY <2>1, TakenIsLeft
  <2> QED BY <1>1, <1>3, <2>1, <2>2, <2>3 DEF Taken, IsSplit
<1> DEFINE Ahead(k) == (Amount - e[k].left) - First(f, k)
           Gain(k) == e[k].cost - First(Brings(f, book), k)
           T == {k \in Nat : k <= n =>
                   /\ Ahead(k) >= 0
                   /\ \A j \in 1..n : j >= k => Gain(k) >= Ahead(k) * book[j].price}
<1>6. \A k \in 0..n : e[k].left \in 0..Amount /\ e[k].cost \in Nat
  BY <1>1, <1>2 DEF Walked, Left
<1>7. 0 \in T
  <2>1. e[0].left = Amount /\ e[0].cost = 0
    BY <1>2 DEF Walked
  <2>2. Ahead(0) = 0 /\ Gain(0) = 0
    BY <1>4, <2>1, RouterConstants
  <2>3. \A j \in 1..n : 0 >= 0 * book[j].price
    <3> TAKE j \in 1..n
    <3>1. book[j].price \in Nat
      BY <1>5 DEF Level
    <3> QED BY <3>1
  <2> HIDE DEF Ahead, Gain
  <2> QED BY <2>2, <2>3
<1>8. ASSUME NEW k \in Nat, k \in T PROVE k + 1 \in T
  <2>1. ASSUME k + 1 <= n
        PROVE  /\ Ahead(k + 1) >= 0
               /\ \A j \in 1..n : j >= k + 1 => Gain(k + 1) >= Ahead(k + 1) * book[j].price
    <3>1. k + 1 \in 1..n /\ (k + 1) - 1 = k /\ k \in 0..n /\ k + 1 \in 0..n /\ k <= n
      BY <2>1
    <3>2. PICK sold \in Int : sold = Sold(e[k], book[k + 1])
      BY <1>5, <3>1
    <3>3. /\ book[k + 1] \in Level
          /\ e[k + 1].left = e[k].left - sold
          /\ e[k + 1].cost = e[k].cost + sold * book[k + 1].price
          /\ sold = e[k].left \/ sold = book[k + 1].amount
          /\ f[k + 1] \in Nat /\ f[k + 1] <= book[k + 1].amount
      BY <1>5, <3>1, <3>2
    <3>4. /\ First(f, k + 1) = f[k + 1] + First(f, k) /\ First(f, k) \in Int
          /\ First(f, k + 1) \in Int /\ First(f, k + 1) <= Amount
          /\ First(Brings(f, book), k + 1) =
               f[k + 1] * book[k + 1].price + First(Brings(f, book), k)
          /\ First(Brings(f, book), k) \in Int
      BY <1>4, <3>1
    <3>5. e[k].left \in 0..Amount /\ e[k].cost \in Nat /\ Amount \in Nat
      BY <1>6, <3>1, RouterConstants
    <3>6. Ahead(k) >= 0 /\ Gain(k) >= Ahead(k) * book[k + 1].price
      BY <1>8, <3>1
    <3>7. Ahead(k + 1) = Ahead(k) + (sold - f[k + 1]) /\ Ahead(k) \in Int
      BY <3>3, <3>4, <3>5
    <3>8. Ahead(k + 1) >= 0
      <4>1. CASE sold = e[k].left
        <5>1. e[k + 1].left = 0
          BY <3>3, <3>5, <4>1
        <5> QED BY <3>4, <3>5, <5>1
      <4>2. CASE sold = book[k + 1].amount
        <5>1. book[k + 1].amount \in Nat
          BY <3>3 DEF Level
        <5>2. sold - f[k + 1] >= 0
          BY <3>2, <3>3, <4>2, <5>1
        <5> HIDE DEF Ahead
        <5> QED BY <3>2, <3>3, <3>6, <3>7, <5>2
      <4> QED BY <3>3, <4>1, <4>2
    <3>9. ASSUME NEW j \in 1..n, j >= k + 1
          PROVE  Gain(k + 1) >= Ahead(k + 1) * book[j].price
      <4>1. book[k + 1].price \in Nat /\ book[j].price \in Nat
        BY <1>5, <3>1 DEF Level
      <4>2. book[k + 1].price >= book[j].price
        BY <1>1, <3>1, <3>9, RouterConstants
      <4> DEFINE costs == e[k].cost
                 brought == First(Brings(f, book), k)
      <4>3. Gain(k + 1) = (costs + sold * book[k + 1].price)
                            - (brought + f[k + 1] * book[k + 1].price)
        <5>1. sold * book[k + 1].price \in Int /\ f[k + 1] * book[k + 1].price \in Int
          BY <3>2, <3>3, <4>1
        <5> QED BY <3>3, <3>4, <3>5, <5>1
      <4>4. costs \in Int /\ brought \in Int /\ Gain(k) = costs - brought
        BY <3>4, <3>5
      <4>5. Ahead(k) \in Nat
        BY <3>6, <3>7
      <4>6. f[k + 1] \in Int
        BY <3>3
      <4> HIDE DEF costs, brought, Ahead, Gain
      <4>7. PICK ahead, split, price, later :
              /\ ahead = Ahead(k) /\ split = f[k + 1]
              /\ price = book[k + 1].price /\ later = book[j].price
        OBVIOUS
      <4>8. /\ ahead \in Nat /\ split \in Int /\ price \in Nat /\ later \in Nat
            /\ price >= later /\ costs \in Int /\ brought \in Int
        BY <4>1, <4>2, <4>4, <4>5, <4>6, <4>7
      <4>9. costs - brought >= ahead * price /\ ahead + (sold - split) >= 0
        BY <3>6, <3>7, <3>8, <4>4, <4>7
      <4>10. (costs + sold * price) - (brought + split * price)
               >= (ahead + (sold - split)) * later
        BY <3>2, <4>8, <4>9, AheadByOneMore
      <4> QED BY <3>7, <4>3, <4>7, <4>10
    <3> QED BY <3>8, <3>9
  <2> HIDE DEF Ahead, Gain
  <2> QED BY <2>1
<1>9. n \in T
  <2> HIDE DEF T
  <2> QED BY <1>7, <1>8, NumberInduction
<1>10. Gain(n) >= 0
  <2>1. CASE n = 0
    <3>1. e[0].cost = 0
      BY <1>2 DEF Walked
    <3> QED BY <1>4, <2>1, <3>1
  <2>2. CASE n # 0
    <3>1. n \in 1..n
      BY <2>2
    <3>2. Ahead(n) >= 0 /\ Gain(n) >= Ahead(n) * book[n].price
      BY <1>9, <3>1
    <3>3. Ahead(n) \in Int /\ Gain(n) \in Int
      <4>1. n \in 0..n
        OBVIOUS
      <4> QED BY <1>4, <1>6, <4>1, RouterConstants
    <3>4. book[n].price \in Nat
      BY <1>5, <3>1 DEF Level
    <3> HIDE DEF Ahead, Gain
    <3>5. Ahead(n) * book[n].price >= 0
      BY <3>2, <3>3, <3>4
    <3>6. Ahead(n) * book[n].price \in Int
      BY <3>3, <3>4
    <3> QED BY <3>2, <3>3, <3>5, <3>6
  <2> QED BY <2>1, <2>2
<1>11. First(Brings(f, book), n) \in Int /\ e[n].cost \in Int
  <2>1. n \in 0..n
    OBVIOUS
  <2> QED BY <1>4, <1>6, <2>1
<1> QED BY <1>2, <1>3, <1>10, <1>11

---------------------------------------------------------------------------
(* The invariant of the router.                                            *)

(* A quote of the sidecar, and one of Temple: what its book pays, or, with *)
(* no book, the mock's.                                                    *)
CantexShape(q) == q = Router!CantexQuote(q.output) /\ q.output \in Int

TempleShape(q) ==
  /\ q.source = "temple" /\ q.output \in Int /\ q.fee \in Int
  /\ q.book # <<>> => q.book \in Books /\ q.output + q.fee = Router!Walk(q.book).cost

QuotesFit(told) ==
  /\ \A q \in told : CantexShape(q) \/ TempleShape(q)
  /\ \A q, r \in told : q.source = r.source => q = r

BestIsChosen(x) ==
  \E q \in x.quotes :
    q.source = x.venue /\ \A r \in x.quotes : Router!NetOf(q) >= Router!NetOf(r)

Asks(x) ==
  /\ x = [step |-> "quotes", asked |-> x.asked, quotes |-> x.quotes]
  /\ x.asked \subseteq {"cantex", "temple"}
  /\ QuotesFit(x.quotes)
  /\ \A q \in x.quotes : q.source \notin x.asked
  /\ "cantex" \notin x.asked => x.quotes # {}

SendsOrder(x) ==
  /\ x = [step |-> "order", venue |-> x.venue, quotes |-> x.quotes, attempt |-> x.attempt]
  /\ x.venue \in {"cantex", "temple"} /\ x.attempt \in 1..Attempts[x.venue]
  /\ QuotesFit(x.quotes) /\ BestIsChosen(x)

OrderIsTyped(x) ==
  \/ x = Router!Idle
  \/ Asks(x)
  \/ SendsOrder(x)
  \/ x.step = "done" /\ x.venue \in {"cantex", "temple"}
  \/ x.step = "failed"

(* What a swap had the venues do: nothing before it sends its orders, then *)
(* at most one execution for each order, at the venue it chose.            *)
OrderIsBacked(x, did) ==
  /\ did \in [{"cantex", "temple"} -> Seq(Outputs)]
  /\ \A v \in {"cantex", "temple"} : v \notin live => did[v] = <<>>
  /\ x.step \in {"idle", "quotes"} => did["cantex"] = <<>> /\ did["temple"] = <<>>
  /\ x.step = "order" => Len(did[x.venue]) <= x.attempt - 1
  /\ x.step \in {"order", "done"} =>
       \A v \in {"cantex", "temple"} : v # x.venue => did[v] = <<>>
  /\ did["cantex"] = <<>> \/ did["temple"] = <<>>
  /\ \A v \in {"cantex", "temple"} : Len(did[v]) <= Attempts[v]
  /\ x.step = "done" /\ x.venue \in live =>
       \E i \in DOMAIN did[x.venue] : did[x.venue][i] = x.output

OrdersAreKept ==
  /\ DOMAIN orders = Swaps /\ DOMAIN executed = Swaps
  /\ \A s \in Swaps : OrderIsTyped(orders[s]) /\ OrderIsBacked(orders[s], executed[s])

(* What is said of the sidecar was found by a probe as old as it is said.  *)
GaugeIsKept ==
  /\ live \subseteq {"cantex", "temple"}
  /\ routerTime \in Nat
  /\ gauge.up \in {"unknown", "up", "down"}
  /\ gauge.checkedAt \in 0..routerTime
  /\ gauge.up = "up" => gauge.checkedAt \in healthy
  /\ DOMAIN watchers = Watchers
  /\ \A w \in Watchers : watchers[w].step = "probe" => watchers[w].since \in 0..routerTime

RouterIInv == OrdersAreKept /\ GaugeIsKept

LEMMA InitRouter == Router!Init => RouterIInv
<1> SUFFICES ASSUME Router!Init
             PROVE  RouterIInv
  OBVIOUS
<1>1. OrdersAreKept
  <2>1. ASSUME NEW s \in Swaps
        PROVE  OrderIsTyped(orders[s]) /\ OrderIsBacked(orders[s], executed[s])
    <3> PICK did : did = executed[s]
      OBVIOUS
    <3>1. /\ orders[s] = Router!Idle /\ orders[s].step = "idle"
          /\ did = [v \in {"cantex", "temple"} |-> <<>>]
      BY DEF Router!Init, Router!Idle, Router!Venues
    <3>2. <<>> \in Seq(Outputs) /\ Len(<<>>) = 0
      OBVIOUS
    <3>3. /\ did \in [{"cantex", "temple"} -> Seq(Outputs)]
          /\ did["cantex"] = <<>> /\ did["temple"] = <<>>
      BY <3>1, <3>2
    <3>4. \A v \in {"cantex", "temple"} : did[v] = <<>> /\ Len(did[v]) <= Attempts[v]
      <4>1. \A v \in {"cantex", "temple"} : Attempts[v] \in Nat \ {0}
        BY RouterConstants
      <4> QED BY <3>2, <3>3, <4>1
    <3> QED BY <3>1, <3>3, <3>4 DEF OrderIsTyped, OrderIsBacked
  <2> QED BY <2>1 DEF Router!Init, OrdersAreKept
<1>2. GaugeIsKept
  BY DEF Router!Init, Router!Idle, Router!Venues, GaugeIsKept
<1> QED BY <1>1, <1>2 DEF RouterIInv

---------------------------------------------------------------------------
(* The steps of the router.                                                *)

LEMMA OrderShapes ==
  ASSUME RouterIInv, NEW s \in Swaps
  PROVE  /\ orders[s].step = "quotes" => Asks(orders[s])
         /\ orders[s].step = "order" => SendsOrder(orders[s])
         /\ orders[s].step \in {"idle", "quotes", "order", "done", "failed"}
         /\ OrderIsBacked(orders[s], executed[s])
  BY DEF RouterIInv, OrdersAreKept, OrderIsTyped, Router!Idle, Asks, SendsOrder

LEMMA OrderChanged ==
  ASSUME OrdersAreKept, NEW s \in Swaps, NEW x, Router!Goes(s, x), UNCHANGED live,
         DOMAIN executed' = Swaps, \A d \in Swaps : d # s => executed'[d] = executed[d],
         NEW did, executed'[s] = did,
         OrderIsTyped(x), OrderIsBacked(x, did)
  PROVE  OrdersAreKept'
<1>1. /\ DOMAIN orders' = Swaps
      /\ orders'[s] = x
      /\ \A d \in Swaps : d # s => orders'[d] = orders[d]
  BY DEF OrdersAreKept, Router!Goes
<1>2. ASSUME NEW d \in Swaps
      PROVE  OrderIsTyped(orders'[d]) /\ OrderIsBacked(orders[d], executed[d])'
  <2>1. CASE d = s
    BY <1>1, <2>1 DEF OrderIsBacked
  <2>2. CASE d # s
    <3> PICK y, z : y = orders[d] /\ z = executed[d]
      OBVIOUS
    <3>1. OrderIsTyped(y) /\ OrderIsBacked(y, z)
      BY DEF OrdersAreKept
    <3>2. orders'[d] = y /\ executed'[d] = z
      BY <1>1, <2>2
    <3> QED BY <3>1, <3>2 DEF OrderIsBacked
  <2> QED BY <2>1, <2>2
<1> QED BY <1>1, <1>2 DEF OrdersAreKept

LEMMA OrderGoesOn ==
  ASSUME OrdersAreKept, NEW s \in Swaps, NEW x, Router!Goes(s, x), UNCHANGED <<live, executed>>,
         OrderIsTyped(x), OrderIsBacked(x, executed[s])
  PROVE  OrdersAreKept'
<1>1. PICK did : did = executed[s]
  OBVIOUS
<1>2. DOMAIN executed' = Swaps /\ \A d \in Swaps : executed'[d] = executed[d]
  BY DEF OrdersAreKept
<1> QED BY <1>1, <1>2, OrderChanged

LEMMA GaugeStays ==
  ASSUME GaugeIsKept, UNCHANGED <<live, gauge, watchers, healthy, routerTime>>
  PROVE  GaugeIsKept'
  BY DEF GaugeIsKept

LEMMA GaugeGoesDown ==
  ASSUME GaugeIsKept, Router!MarkSidecarDown, UNCHANGED <<live, watchers, healthy, routerTime>>
  PROVE  GaugeIsKept'
  BY DEF GaugeIsKept, Router!MarkSidecarDown

LEMMA NetIsNumber ==
  ASSUME NEW q, CantexShape(q) \/ TempleShape(q)
  PROVE  q.source \in {"cantex", "temple"} /\ Router!NetOf(q) \in Int
<1>1. CASE CantexShape(q)
  BY <1>1, RouterConstants DEF CantexShape, Router!CantexQuote, Router!NetOf
<1>2. CASE TempleShape(q)
  BY <1>2 DEF TempleShape, Router!NetOf
<1> QED BY <1>1, <1>2

(* There is a best quote, and no other promises more.                      *)
LEMMA BestIsThere ==
  ASSUME NEW told, told # {}, QuotesFit(told)
  PROVE  /\ Router!Best(told) \in told
         /\ \A r \in told : Router!NetOf(Router!Best(told)) >= Router!NetOf(r)
<1> DEFINE Wins(q) == \A r \in told \ {q} :
                        \/ Router!NetOf(q) > Router!NetOf(r)
                        \/ Router!NetOf(q) = Router!NetOf(r) /\ q.source = "cantex"
<1>1. \A q \in told : q.source \in {"cantex", "temple"} /\ Router!NetOf(q) \in Int
  BY NetIsNumber DEF QuotesFit
<1>2. \E q \in told : Wins(q)
  <2>1. CASE \E q \in told : told = {q}
    BY <2>1
  <2>2. CASE ~\E q \in told : told = {q}
    <3>1. PICK q \in told, r \in told : q # r
      BY <2>2
    <3>2. \A t \in told : t = q \/ t = r
      BY <1>1, <3>1 DEF QuotesFit
    <3>3. PICK a \in told, b \in told :
            a # b /\ a.source = "cantex" /\ \A t \in told : t = a \/ t = b
      BY <1>1, <3>1, <3>2 DEF QuotesFit
    <3>4. PICK m \in Int, n \in Int : m = Router!NetOf(a) /\ n = Router!NetOf(b)
      BY <1>1
    <3>5. CASE m >= n
      <4>1. m > n \/ m = n
        BY <3>5
      <4>2. Wins(a)
        BY <3>3, <3>4, <4>1
      <4> QED BY <4>2
    <3>6. CASE ~(m >= n)
      <4>1. n > m
        BY <3>6
      <4>2. Wins(b)
        BY <3>3, <3>4, <4>1
      <4> QED BY <4>2
    <3> QED BY <3>5, <3>6
  <2> QED BY <2>1, <2>2
<1>3. PICK q : q = Router!Best(told) /\ q \in told /\ Wins(q)
  BY <1>2 DEF Router!Best
<1>4. ASSUME NEW r \in told
      PROVE  Router!NetOf(q) >= Router!NetOf(r)
  <2>1. CASE r = q
    BY <1>1, <2>1
  <2>2. CASE r # q
    <3>1. Router!NetOf(q) > Router!NetOf(r) \/ Router!NetOf(q) = Router!NetOf(r)
      BY <1>3, <2>2
    <3> QED BY <1>1, <1>3, <3>1
  <2> QED BY <2>1, <2>2
<1> QED BY <1>3, <1>4

LEMMA QuoteArrives ==
  ASSUME RouterIInv, NEW s \in Swaps, orders[s].step = "quotes",
         NEW v \in {"cantex", "temple"}, v \in orders[s].asked,
         NEW more, Router!Receives(s, v, more), UNCHANGED <<live, executed>>,
         \A q \in more : q.source = v /\ (CantexShape(q) \/ TempleShape(q)),
         \A q, r \in more : q = r,
         v = "cantex" => more # {}
  PROVE  OrdersAreKept'
<1>1. PICK y : y = orders[s]
  OBVIOUS
<1>2. Asks(y) /\ OrderIsBacked(y, executed[s])
  BY <1>1, OrderShapes
<1>3. PICK x : x = [step |-> "quotes", asked |-> y.asked \ {v}, quotes |-> y.quotes \union more]
  OBVIOUS
<1>4. x = [y EXCEPT !.asked = y.asked \ {v}, !.quotes = y.quotes \union more]
  <2>1. y = [step |-> "quotes", asked |-> y.asked, quotes |-> y.quotes]
    BY <1>2 DEF Asks
  <2>2. PICK a, b : a = y.asked \ {v} /\ b = y.quotes \union more
    OBVIOUS
  <2>3. [y EXCEPT !.asked = a, !.quotes = b] = [step |-> "quotes", asked |-> a, quotes |-> b]
    <3>1. PICK c, d : c = y.asked /\ d = y.quotes
      OBVIOUS
    <3>2. y = [step |-> "quotes", asked |-> c, quotes |-> d]
      BY <2>1, <3>1
    <3> DEFINE z == [y EXCEPT !.asked = a]
    <3>3. z = [step |-> "quotes", asked |-> a, quotes |-> d]
      BY <3>2
    <3>4. [y EXCEPT !.asked = a, !.quotes = b] = [z EXCEPT !.quotes = b]
      OBVIOUS
    <3> HIDE DEF z
    <3>5. [z EXCEPT !.quotes = b] = [step |-> "quotes", asked |-> a, quotes |-> b]
      BY <3>3
    <3> QED BY <3>4, <3>5
  <2> QED BY <1>3, <2>2, <2>3
<1>5. Router!Goes(s, x)
  BY <1>1, <1>4 DEF Router!Receives
<1>6. /\ x = [step |-> "quotes", asked |-> x.asked, quotes |-> x.quotes]
      /\ x.step = "quotes" /\ y.step = "quotes"
      /\ x.asked = y.asked \ {v} /\ x.quotes = y.quotes \union more
  BY <1>2, <1>3 DEF Asks
<1>7. Asks(x)
  <2>1. x.asked \subseteq {"cantex", "temple"}
    BY <1>2, <1>6 DEF Asks
  <2>2. QuotesFit(x.quotes)
    <3>1. \A q \in x.quotes : CantexShape(q) \/ TempleShape(q)
      BY <1>2, <1>6 DEF Asks, QuotesFit
    <3>2. \A q \in y.quotes : q.source # v
      BY <1>1, <1>2 DEF Asks
    <3>3. \A q, r \in x.quotes : q.source = r.source => q = r
      BY <1>2, <1>6, <3>2 DEF Asks, QuotesFit
    <3> QED BY <3>1, <3>3 DEF QuotesFit
  <2>3. \A q \in x.quotes : q.source \notin x.asked
    BY <1>2, <1>6 DEF Asks
  <2>4. "cantex" \notin x.asked => x.quotes # {}
    BY <1>2, <1>6 DEF Asks
  <2> QED BY <1>6, <2>1, <2>2, <2>3, <2>4 DEF Asks
<1>8. OrderIsTyped(x)
  BY <1>7 DEF OrderIsTyped
<1>9. OrderIsBacked(x, executed[s])
  BY <1>2, <1>6 DEF OrderIsBacked
<1> QED BY <1>5, <1>8, <1>9, OrderGoesOn DEF RouterIInv

LEMMA QuoteSteps ==
  ASSUME RouterIInv, NEW s \in Swaps,
         Router!GetBestQuote(s) \/ Router!CantexQuotes(s) \/ Router!TempleQuotes(s)
           \/ Router!Choose(s)
  PROVE  RouterIInv'
<1>1. CASE Router!GetBestQuote(s)
  <2>1. PICK x : /\ Router!Goes(s, x)
                 /\ x = [step |-> "quotes", asked |-> Router!Venues, quotes |-> {}]
    BY <1>1 DEF Router!GetBestQuote
  <2>2. /\ x = [step |-> "quotes", asked |-> x.asked, quotes |-> x.quotes]
        /\ x.step = "quotes" /\ x.asked = {"cantex", "temple"} /\ x.quotes = {}
    BY <2>1 DEF Router!Venues
  <2>3. OrderIsTyped(x)
    BY <2>2 DEF OrderIsTyped, Asks, QuotesFit
  <2>4. orders[s].step = "idle"
    BY <1>1 DEF Router!GetBestQuote, Router!Idle
  <2>5. OrderIsBacked(x, executed[s])
    <3>1. OrderIsBacked(orders[s], executed[s])
      BY OrderShapes
    <3> QED BY <2>2, <2>4, <3>1 DEF OrderIsBacked
  <2> QED BY <1>1, <2>1, <2>3, <2>5, OrderGoesOn, GaugeStays
          DEF RouterIInv, Router!GetBestQuote
<1>2. CASE Router!CantexQuotes(s)
  <2>1. PICK output \in Int : Router!Receives(s, "cantex", {Router!CantexQuote(output)})
    <3>1. \/ \E output \in Outputs : Router!Receives(s, "cantex", {Router!CantexQuote(output)})
          \/ Router!Receives(s, "cantex", {Router!CantexQuote(Dummy)})
      BY <1>2 DEF Router!CantexQuotes
    <3>2. Outputs \subseteq Int /\ Dummy \in Int
      BY RouterConstants
    <3> QED BY <3>1, <3>2
  <2>2. PICK q : q = Router!CantexQuote(output)
    OBVIOUS
  <2>3. q.source = "cantex" /\ CantexShape(q)
    BY <2>2 DEF CantexShape, Router!CantexQuote
  <2>4. OrdersAreKept'
    <3>1. /\ orders[s].step = "quotes" /\ "cantex" \in orders[s].asked
          /\ UNCHANGED <<live, executed>>
      BY <1>2 DEF Router!CantexQuotes, Router!At
    <3>2. Router!Receives(s, "cantex", {q})
      BY <2>1, <2>2
    <3> QED BY <2>3, <3>1, <3>2, QuoteArrives
  <2>5. GaugeIsKept'
    BY <1>2, GaugeStays, GaugeGoesDown DEF Router!CantexQuotes, RouterIInv
  <2> QED BY <2>4, <2>5 DEF RouterIInv
<1>3. CASE Router!TempleQuotes(s)
  <2>1. PICK told : /\ Router!Receives(s, "temple", told)
                    /\ \/ told = {}
                       \/ \E book \in Books \ {<<>>} : told = {Router!TempleQuote(book)}
                       \/ told = {[Router!TempleQuote(<<>>) EXCEPT !.output = Dummy]}
    <3>1. CASE "temple" \in live
      <4>1. PICK told \in {{Router!TempleQuote(book)} : book \in Books \ {<<>>}} \union {{}} :
               Router!Receives(s, "temple", told)
        BY <1>3, <3>1 DEF Router!TempleQuotes
      <4> QED BY <4>1
    <3>2. CASE "temple" \notin live
      BY <1>3, <3>2 DEF Router!TempleQuotes
    <3> QED BY <3>1, <3>2
  <2>2. ASSUME NEW book \in Seq(Level)
        PROVE  LET q == Router!TempleQuote(book) IN
               /\ q.source = "temple" /\ q.book = book /\ q.output \in Int /\ q.fee \in Int
               /\ q.output + q.fee = Router!Walk(book).cost
    <3>1. PICK cost \in Int : cost = Router!Walk(book).cost
      <4>1. PICK e : Walked(e, book) /\ Router!Walk(book) = e[Len(book)]
        BY WalksInSteps
      <4>2. Len(book) \in 0..Len(book)
        BY LenProperties
      <4> QED BY <4>1, <4>2 DEF Walked, Left
    <3>2. PICK fee \in Int : fee = cost \div TakerRate
      BY RouterConstants
    <3>3. Router!TempleQuote(book) =
            [source |-> "temple", output |-> cost - fee, fee |-> fee, book |-> book]
      BY <3>1, <3>2 DEF Router!TempleQuote
    <3>4. (cost - fee) + fee = cost /\ cost - fee \in Int
      OBVIOUS
    <3> QED BY <3>1, <3>3, <3>4
  <2>3. \A q \in told : q.source = "temple" /\ TempleShape(q)
    <3>1. CASE \E book \in Books \ {<<>>} : told = {Router!TempleQuote(book)}
      <4>1. PICK book \in Books \ {<<>>} : told = {Router!TempleQuote(book)}
        BY <3>1
      <4>2. book \in Seq(Level)
        BY RouterConstants
      <4> QED BY <2>2, <4>1, <4>2 DEF TempleShape
    <3>2. CASE told = {[Router!TempleQuote(<<>>) EXCEPT !.output = Dummy]}
      <4>1. PICK q : q = Router!TempleQuote(<<>>)
        OBVIOUS
      <4>2. /\ q = [source |-> q.source, output |-> q.output, fee |-> q.fee, book |-> q.book]
            /\ q.source = "temple" /\ q.book = <<>> /\ q.fee \in Int
        <5>1. <<>> \in Seq(Level)
          OBVIOUS
        <5> QED BY <2>2, <4>1, <5>1 DEF Router!TempleQuote
      <4>3. PICK m : m = [source |-> q.source, output |-> Dummy, fee |-> q.fee, book |-> q.book]
        OBVIOUS
      <4>4. told = {m}
        BY <3>2, <4>1, <4>2, <4>3
      <4>5. m.source = "temple" /\ m.output \in Int /\ m.fee \in Int /\ m.book = <<>>
        BY <4>2, <4>3, RouterConstants
      <4> QED BY <4>4, <4>5 DEF TempleShape
    <3> QED BY <2>1, <3>1, <3>2
  <2>4. \A q, r \in told : q = r
    BY <2>1
  <2>5. OrdersAreKept'
    <3>1. /\ orders[s].step = "quotes" /\ "temple" \in orders[s].asked
          /\ UNCHANGED <<live, executed>>
      BY <1>3 DEF Router!TempleQuotes, Router!At
    <3> QED BY <2>1, <2>3, <2>4, <3>1, QuoteArrives
  <2>6. GaugeIsKept'
    BY <1>3, GaugeStays DEF Router!TempleQuotes, RouterIInv
  <2> QED BY <2>5, <2>6 DEF RouterIInv
<1>4. CASE Router!Choose(s)
  <2>1. PICK y : y = orders[s]
    OBVIOUS
  <2>2. /\ y.asked = {} /\ y.step = "quotes" /\ Asks(y) /\ OrderIsBacked(y, executed[s])
    BY <1>4, <2>1, OrderShapes DEF Router!Choose, Router!At
  <2>3. y.quotes # {} /\ QuotesFit(y.quotes)
    BY <2>2 DEF Asks
  <2>4. PICK best : /\ best = Router!Best(y.quotes) /\ best \in y.quotes
                    /\ \A r \in y.quotes : Router!NetOf(best) >= Router!NetOf(r)
    BY <2>3, BestIsThere
  <2>5. best.source \in {"cantex", "temple"}
    BY <2>3, <2>4, NetIsNumber DEF QuotesFit
  <2>6. PICK x : x = [step |-> "order", venue |-> best.source, quotes |-> y.quotes, attempt |-> 1]
    OBVIOUS
  <2>7. /\ x = [step |-> "order", venue |-> x.venue, quotes |-> x.quotes, attempt |-> x.attempt]
        /\ x.step = "order" /\ x.venue = best.source /\ x.quotes = y.quotes /\ x.attempt = 1
    BY <2>6
  <2>8. 1 \in 1..Attempts[x.venue]
    <3>1. Attempts[x.venue] \in Nat \ {0}
      BY <2>5, <2>7, RouterConstants
    <3> QED BY <3>1
  <2>9. OrderIsTyped(x)
    BY <2>3, <2>4, <2>5, <2>7, <2>8 DEF OrderIsTyped, SendsOrder, BestIsChosen
  <2>10. OrderIsBacked(x, executed[s])
    <3>1. executed[s]["cantex"] = <<>> /\ executed[s]["temple"] = <<>>
      BY <2>2 DEF OrderIsBacked
    <3>2. Len(executed[s][x.venue]) <= x.attempt - 1
      BY <2>5, <2>7, <3>1
    <3> QED BY <2>2, <2>5, <2>7, <3>1, <3>2 DEF OrderIsBacked
  <2>11. Router!Goes(s, x)
    BY <1>4, <2>1, <2>4, <2>6 DEF Router!Choose
  <2> QED BY <1>4, <2>9, <2>10, <2>11, OrderGoesOn, GaugeStays DEF RouterIInv, Router!Choose
<1> QED BY <1>1, <1>2, <1>3, <1>4

(* An order had the venue do more, or nothing, and the swap goes on.       *)
LEMMA OneMoreDone ==
  ASSUME NEW did \in [{"cantex", "temple"} -> Seq(Outputs)], NEW v \in {"cantex", "temple"},
         NEW output \in Outputs,
         NEW more, more = [did EXCEPT ![v] = Append(did[v], output)]
  PROVE  /\ more \in [{"cantex", "temple"} -> Seq(Outputs)]
         /\ \A u \in {"cantex", "temple"} : u # v => more[u] = did[u]
         /\ Len(more[v]) = Len(did[v]) + 1
         /\ \E i \in DOMAIN more[v] : more[v][i] = output
<1>1. /\ did[v] \in Seq(Outputs) /\ Append(did[v], output) \in Seq(Outputs)
      /\ Len(Append(did[v], output)) = Len(did[v]) + 1
      /\ Append(did[v], output)[Len(did[v]) + 1] = output
      /\ Len(did[v]) \in Nat
  <2>1. did[v] \in Seq(Outputs)
    OBVIOUS
  <2> QED BY <2>1, AppendProperties, LenProperties
<1>2. Len(did[v]) + 1 \in DOMAIN Append(did[v], output)
  BY <1>1, LenProperties
<1> QED BY <1>1, <1>2

(* The venue of a swap whose order is out: what it has done is what the    *)
(* attempts before this one had it do.                                     *)
LEMMA OrderIsOut ==
  ASSUME RouterIInv, NEW s \in Swaps, orders[s].step = "order"
  PROVE  /\ orders[s].venue \in {"cantex", "temple"}
         /\ orders[s].attempt \in 1..Attempts[orders[s].venue]
         /\ executed[s] \in [{"cantex", "temple"} -> Seq(Outputs)]
         /\ \A v \in {"cantex", "temple"} : /\ v \notin live => executed[s][v] = <<>>
                                            /\ v # orders[s].venue => executed[s][v] = <<>>
                                            /\ Attempts[v] \in Nat \ {0}
         /\ Len(executed[s][orders[s].venue]) \in Nat
         /\ Len(executed[s][orders[s].venue]) <= orders[s].attempt - 1
<1>1. SendsOrder(orders[s]) /\ OrderIsBacked(orders[s], executed[s])
  BY OrderShapes
<1>2. /\ executed[s] \in [{"cantex", "temple"} -> Seq(Outputs)]
      /\ orders[s].venue \in {"cantex", "temple"}
      /\ orders[s].attempt \in 1..Attempts[orders[s].venue]
  BY <1>1 DEF SendsOrder, OrderIsBacked
<1>3. executed[s][orders[s].venue] \in Seq(Outputs)
  BY <1>2
<1>4. \A v \in {"cantex", "temple"} : Attempts[v] \in Nat \ {0}
  BY RouterConstants
<1> QED BY <1>1, <1>2, <1>3, <1>4, LenProperties DEF OrderIsBacked

(* A swap that is over, for what the venues did.                           *)
LEMMA OverIsBacked ==
  ASSUME NEW v \in {"cantex", "temple"}, NEW did \in [{"cantex", "temple"} -> Seq(Outputs)],
         \A u \in {"cantex", "temple"} : u \notin live => did[u] = <<>>,
         \A u \in {"cantex", "temple"} : u # v => did[u] = <<>>,
         Len(did[v]) <= Attempts[v],
         NEW x, \/ x.step = "failed"
                \/ /\ x.step = "done" /\ x.venue = v
                   /\ v \in live => \E i \in DOMAIN did[v] : did[v][i] = x.output
  PROVE  OrderIsBacked(x, did)
<1>1. \A u \in {"cantex", "temple"} : Len(did[u]) <= Attempts[u]
  <2> TAKE u \in {"cantex", "temple"}
  <2>1. CASE u # v
    <3>1. did[u] = <<>> /\ Len(<<>>) = 0 /\ Attempts[u] \in Nat \ {0}
      BY <2>1, RouterConstants
    <3> QED BY <3>1
  <2> QED BY <2>1
<1>2. did["cantex"] = <<>> \/ did["temple"] = <<>>
  OBVIOUS
<1> QED BY <1>1, <1>2 DEF OrderIsBacked

LEMMA OrderSteps ==
  ASSUME RouterIInv, NEW s \in Swaps,
         Router!MockSwap(s) \/ Router!OrderAnswered(s) \/ Router!OrderFails(s)
  PROVE  RouterIInv'
<1>1. PICK y : y = orders[s]
  OBVIOUS
<1>2. PICK did : did = executed[s]
  OBVIOUS
<1>3. y.step = "order"
  BY <1>1 DEF Router!MockSwap, Router!OrderAnswered, Router!OrderFails, Router!At
<1>4. /\ y.venue \in {"cantex", "temple"} /\ y.attempt \in 1..Attempts[y.venue]
      /\ did \in [{"cantex", "temple"} -> Seq(Outputs)]
      /\ \A v \in {"cantex", "temple"} : /\ v \notin live => did[v] = <<>>
                                         /\ v # y.venue => did[v] = <<>>
                                         /\ Attempts[v] \in Nat \ {0}
      /\ Len(did[y.venue]) \in Nat /\ Len(did[y.venue]) <= y.attempt - 1
  BY <1>1, <1>2, <1>3, OrderIsOut
<1>5. Len(did[y.venue]) + 1 <= y.attempt /\ y.attempt <= Attempts[y.venue]
  BY <1>4
<1>6. SendsOrder(y)
  BY <1>1, <1>3, OrderShapes
<1>7. DOMAIN executed = Swaps /\ OrdersAreKept /\ GaugeIsKept
  BY DEF RouterIInv, OrdersAreKept
<1>8. PICK v \in {"cantex", "temple"} : v = y.venue
  BY <1>4
<1>9. ASSUME NEW output \in Outputs, Router!Executes(s, v, output)
      PROVE  /\ DOMAIN executed' = Swaps
             /\ \A d \in Swaps : d # s => executed'[d] = executed[d]
             /\ executed'[s] = [did EXCEPT ![v] = Append(did[v], output)]
  <2>1. executed' = [executed EXCEPT ![s] = [did EXCEPT ![v] = Append(did[v], output)]]
    BY <1>2, <1>9 DEF Router!Executes
  <2> QED BY <1>7, <2>1
<1>10. CASE Router!MockSwap(s)
  <2>1. PICK x : /\ Router!Goes(s, x)
                 /\ x = [step |-> "done", venue |-> v, output |-> Dummy]
    BY <1>1, <1>8, <1>10 DEF Router!MockSwap, Router!Report
  <2>2. v \notin live /\ UNCHANGED <<live, executed>>
    BY <1>1, <1>8, <1>10 DEF Router!MockSwap
  <2>3. x.step = "done" /\ x.venue = v
    BY <2>1
  <2>4. OrderIsTyped(x)
    BY <2>3 DEF OrderIsTyped
  <2>5. Len(did[v]) <= Attempts[v]
    BY <1>4, <1>5, <1>8
  <2>6. OrderIsBacked(x, did)
    BY <1>4, <1>8, <2>2, <2>3, <2>5, OverIsBacked
  <2>7. OrdersAreKept'
    BY <1>2, <1>7, <2>1, <2>2, <2>4, <2>6, OrderGoesOn
  <2> QED BY <1>7, <1>10, <2>7, GaugeStays DEF RouterIInv, Router!MockSwap
<1>11. CASE Router!OrderAnswered(s)
  <2>1. PICK output \in Outputs : Router!Executes(s, v, output) /\ Router!Report(s, output)
    BY <1>1, <1>8, <1>11 DEF Router!OrderAnswered
  <2>2. PICK x : /\ Router!Goes(s, x)
                 /\ x = [step |-> "done", venue |-> v, output |-> output]
    BY <1>1, <1>8, <2>1 DEF Router!Report
  <2>3. v \in live /\ UNCHANGED live
    BY <1>1, <1>8, <1>11 DEF Router!OrderAnswered
  <2>4. PICK more : more = [did EXCEPT ![v] = Append(did[v], output)]
    OBVIOUS
  <2>5. /\ more \in [{"cantex", "temple"} -> Seq(Outputs)]
        /\ \A u \in {"cantex", "temple"} : u # v => more[u] = did[u]
        /\ Len(more[v]) = Len(did[v]) + 1
        /\ \E i \in DOMAIN more[v] : more[v][i] = output
    BY <1>4, <2>4, OneMoreDone
  <2>6. x.step = "done" /\ x.venue = v /\ x.output = output
    BY <2>2
  <2>7. OrderIsTyped(x)
    BY <2>6 DEF OrderIsTyped
  <2>8. Len(more[v]) <= Attempts[v]
    <3>1. Attempts[v] \in Nat /\ y.attempt \in Int
      BY <1>4
    <3> QED BY <1>4, <1>5, <1>8, <2>5, <3>1
  <2>9. \A u \in {"cantex", "temple"} : /\ u \notin live => more[u] = <<>>
                                        /\ u # v => more[u] = <<>>
    BY <1>4, <1>8, <2>3, <2>5
  <2>10. OrderIsBacked(x, more)
    BY <2>3, <2>5, <2>6, <2>8, <2>9, OverIsBacked
  <2>11. OrdersAreKept'
    BY <1>7, <1>9, <2>1, <2>2, <2>3, <2>4, <2>7, <2>10, OrderChanged
  <2> QED BY <1>7, <1>11, <2>11, GaugeStays DEF RouterIInv, Router!OrderAnswered
<1>12. CASE Router!OrderFails(s)
  <2>1. v \in live /\ UNCHANGED live
    BY <1>1, <1>8, <1>12 DEF Router!OrderFails
  <2>2. PICK more :
          /\ DOMAIN executed' = Swaps
          /\ \A d \in Swaps : d # s => executed'[d] = executed[d]
          /\ executed'[s] = more
          /\ more \in [{"cantex", "temple"} -> Seq(Outputs)]
          /\ \A u \in {"cantex", "temple"} : u # v => more[u] = did[u]
          /\ Len(more[v]) \in Int /\ Len(more[v]) <= Len(did[v]) + 1
    <3>1. CASE \E output \in Outputs : Router!Executes(s, v, output)
      <4>1. PICK output \in Outputs : Router!Executes(s, v, output)
        BY <3>1
      <4>2. PICK more : more = [did EXCEPT ![v] = Append(did[v], output)]
        OBVIOUS
      <4>3. /\ more \in [{"cantex", "temple"} -> Seq(Outputs)]
            /\ \A u \in {"cantex", "temple"} : u # v => more[u] = did[u]
            /\ Len(more[v]) = Len(did[v]) + 1
        BY <1>4, <4>2, OneMoreDone
      <4>4. Len(more[v]) \in Int /\ Len(more[v]) <= Len(did[v]) + 1
        BY <1>4, <1>8, <4>3
      <4> QED BY <1>9, <4>1, <4>2, <4>3, <4>4
    <3>2. CASE UNCHANGED executed
      <4>1. Len(did[v]) \in Int /\ Len(did[v]) <= Len(did[v]) + 1
        BY <1>4, <1>8
      <4> QED BY <1>2, <1>4, <1>7, <3>2, <4>1
    <3>3. (\E output \in Outputs : Router!Executes(s, v, output)) \/ UNCHANGED executed
      BY <1>1, <1>8, <1>12 DEF Router!OrderFails
    <3> QED BY <3>1, <3>2, <3>3
  <2>3. \A u \in {"cantex", "temple"} : /\ u \notin live => more[u] = <<>>
                                        /\ u # v => more[u] = <<>>
    BY <1>4, <1>8, <2>1, <2>2
  <2>4. /\ Attempts[v] \in Nat /\ y.attempt \in Nat /\ Len(did[v]) \in Nat
        /\ Len(did[v]) + 1 <= y.attempt /\ y.attempt <= Attempts[v]
    BY <1>4, <1>5, <1>8
  <2>5. Len(more[v]) <= y.attempt /\ Len(more[v]) <= Attempts[v]
    BY <2>2, <2>4
  <2>6. PICK x : /\ Router!Goes(s, x)
                 /\ IF y.attempt < Attempts[v]
                    THEN x = [y EXCEPT !.attempt = y.attempt + 1]
                    ELSE x = [step |-> "failed"]
    BY <1>1, <1>8, <1>12 DEF Router!OrderFails
  <2>7. OrderIsTyped(x) /\ OrderIsBacked(x, more)
    <3>1. CASE y.attempt < Attempts[v]
      <4>1. PICK q : q = y.quotes
        OBVIOUS
      <4>2. PICK n \in Nat : n = y.attempt
        BY <2>4
      <4>3. y = [step |-> "order", venue |-> v, quotes |-> q, attempt |-> n]
        BY <1>6, <1>8, <4>1, <4>2 DEF SendsOrder
      <4>4. x = [y EXCEPT !.attempt = n + 1]
        BY <2>6, <3>1, <4>2
      <4>5. x = [step |-> "order", venue |-> v, quotes |-> q, attempt |-> n + 1]
        BY <4>3, <4>4
      <4>6. /\ x = [step |-> "order", venue |-> x.venue, quotes |-> x.quotes,
                    attempt |-> x.attempt]
            /\ x.step = "order" /\ x.venue = v /\ x.quotes = q /\ x.attempt = n + 1
        BY <4>5
      <4>7. n + 1 \in 1..Attempts[v]
        BY <2>4, <3>1, <4>2
      <4>8. SendsOrder(x)
        BY <1>6, <1>8, <4>1, <4>6, <4>7 DEF SendsOrder, BestIsChosen
      <4>9. Len(more[v]) <= x.attempt - 1
        BY <2>2, <2>5, <4>2, <4>6
      <4>10. \A u \in {"cantex", "temple"} : Len(more[u]) <= Attempts[u]
        <5> TAKE u \in {"cantex", "temple"}
        <5>1. CASE u # v
          <6>1. more[u] = <<>> /\ Len(<<>>) = 0 /\ Attempts[u] \in Nat \ {0}
            BY <1>4, <2>3, <5>1
          <6> QED BY <6>1
        <5> QED BY <2>5, <5>1
      <4>11. more["cantex"] = <<>> \/ more["temple"] = <<>>
        BY <2>3
      <4> QED BY <2>2, <2>3, <4>6, <4>8, <4>9, <4>10, <4>11 DEF OrderIsTyped, OrderIsBacked
    <3>2. CASE ~(y.attempt < Attempts[v])
      <4>1. x.step = "failed"
        BY <2>6, <3>2
      <4>2. OrderIsBacked(x, more)
        BY <2>2, <2>3, <2>5, <4>1, OverIsBacked
      <4> QED BY <4>1, <4>2 DEF OrderIsTyped
    <3> QED BY <3>1, <3>2
  <2>8. OrdersAreKept'
    BY <1>7, <2>1, <2>2, <2>6, <2>7, OrderChanged
  <2>9. GaugeIsKept'
    BY <1>7, <1>12, GaugeStays, GaugeGoesDown DEF Router!OrderFails
  <2> QED BY <2>8, <2>9 DEF RouterIInv
<1> QED BY <1>10, <1>11, <1>12

LEMMA ProbeSteps ==
  ASSUME RouterIInv, (\E w \in Watchers : Router!IsAvailable(w) \/ Router!Probed(w)) \/ Router!Clock
  PROVE  RouterIInv'
<1>0. GaugeIsKept /\ OrdersAreKept
  BY DEF RouterIInv
<1>1. OrdersAreKept'
  <2>1. UNCHANGED <<live, orders, executed>>
    BY DEF Router!IsAvailable, Router!Probed, Router!Clock
  <2> QED BY <1>0, <2>1 DEF OrdersAreKept, OrderIsBacked
<1>2. ASSUME NEW w \in Watchers, Router!IsAvailable(w)
      PROVE  GaugeIsKept'
  <2>1. PICK x : /\ watchers' = [watchers EXCEPT ![w] = x]
                 /\ \/ x.step = "told"
                    \/ x.step = "probe" /\ x.since = routerTime
    <3>1. \/ \E up : watchers' = [watchers EXCEPT ![w] =
                                    [step |-> "told", up |-> up, at |-> routerTime]]
          \/ watchers' = [watchers EXCEPT ![w] = [step |-> "probe", since |-> routerTime]]
      BY <1>2 DEF Router!IsAvailable, Router!Told
    <3>2. CASE \E up : watchers' = [watchers EXCEPT ![w] =
                                     [step |-> "told", up |-> up, at |-> routerTime]]
      <4>1. PICK up : watchers' = [watchers EXCEPT ![w] =
                                     [step |-> "told", up |-> up, at |-> routerTime]]
        BY <3>2
      <4>2. PICK x : x = [step |-> "told", up |-> up, at |-> routerTime]
        OBVIOUS
      <4>3. x.step = "told"
        BY <4>2
      <4>4. watchers' = [watchers EXCEPT ![w] = x]
        BY <4>1, <4>2
      <4> QED BY <4>3, <4>4
    <3>3. CASE watchers' = [watchers EXCEPT ![w] = [step |-> "probe", since |-> routerTime]]
      <4>1. PICK x : x = [step |-> "probe", since |-> routerTime]
        OBVIOUS
      <4>2. x.step = "probe" /\ x.since = routerTime
        BY <4>1
      <4>3. watchers' = [watchers EXCEPT ![w] = x]
        BY <3>3, <4>1
      <4> QED BY <4>2, <4>3
    <3> QED BY <3>1, <3>2, <3>3
  <2>2. UNCHANGED <<live, gauge, healthy, routerTime>>
    BY <1>2 DEF Router!IsAvailable
  <2>3. routerTime \in 0..routerTime
    BY <1>0 DEF GaugeIsKept
  <2> QED BY <1>0, <2>1, <2>2, <2>3 DEF GaugeIsKept
<1>3. ASSUME NEW w \in Watchers, Router!Probed(w)
      PROVE  GaugeIsKept'
  <2>1. PICK up \in {"up", "down"} :
          /\ gauge' = [up |-> up, checkedAt |-> watchers[w].since]
          /\ healthy' = healthy \union IF up = "up" THEN {watchers[w].since} ELSE {}
          /\ watchers' = [watchers EXCEPT ![w] =
                            [step |-> "told", up |-> up, at |-> routerTime]]
    BY <1>3 DEF Router!Probed, Router!Told
  <2>2. UNCHANGED <<live, routerTime>> /\ watchers[w].step = "probe"
    BY <1>3 DEF Router!Probed
  <2>3. PICK t \in 0..routerTime : t = watchers[w].since
    BY <1>0, <2>2 DEF GaugeIsKept
  <2>4. gauge'.up = up /\ gauge'.checkedAt = t /\ (up = "up" => t \in healthy')
    BY <2>1, <2>3
  <2>5. /\ DOMAIN watchers' = Watchers
        /\ \A v \in Watchers : v # w => watchers'[v] = watchers[v]
        /\ watchers'[w].step = "told"
    BY <1>0, <2>1 DEF GaugeIsKept
  <2> QED BY <1>0, <2>2, <2>3, <2>4, <2>5 DEF GaugeIsKept
<1>4. ASSUME Router!Clock PROVE GaugeIsKept'
  <2>1. routerTime' = routerTime + 1 /\ UNCHANGED <<live, gauge, healthy, watchers>>
    BY <1>4 DEF Router!Clock
  <2>2. routerTime \in Nat
    BY <1>0 DEF GaugeIsKept
  <2>3. \A t \in 0..routerTime : t \in 0..(routerTime + 1)
    BY <2>2
  <2>4. \A w \in Watchers :
          watchers'[w].step = "probe" => watchers'[w].since \in 0..routerTime'
    BY <1>0, <2>1, <2>3 DEF GaugeIsKept
  <2>5. gauge'.checkedAt \in 0..routerTime' /\ routerTime' \in Nat
    BY <1>0, <2>1, <2>2, <2>3 DEF GaugeIsKept
  <2>6. DOMAIN watchers' = Watchers /\ (gauge'.up = "up" => gauge'.checkedAt \in healthy')
    BY <1>0, <2>1 DEF GaugeIsKept
  <2>7. live' \subseteq {"cantex", "temple"} /\ gauge'.up \in {"unknown", "up", "down"}
    BY <1>0, <2>1 DEF GaugeIsKept
  <2> QED BY <2>4, <2>5, <2>6, <2>7 DEF GaugeIsKept
<1> QED BY <1>1, <1>2, <1>3, <1>4 DEF RouterIInv

LEMMA NextRouter ==
  ASSUME RouterIInv, [ValueNext]_valueVars
  PROVE  RouterIInv'
<1>1. CASE Router!Next
  BY <1>1, QuoteSteps, OrderSteps, ProbeSteps DEF Router!Next
<1>2. CASE UNCHANGED routerVars
  <2>1. UNCHANGED <<live, orders, executed, gauge, watchers, healthy, routerTime>>
    BY <1>2 DEF routerVars
  <2> QED BY <2>1 DEF RouterIInv, OrdersAreKept, OrderIsBacked, GaugeIsKept
<1> QED BY <1>1, <1>2 DEF ValueNext, valueVars

LEMMA RouterInvariance == ValueSpec => []RouterIInv
<1>1. ValueInit => RouterIInv
  BY InitRouter DEF ValueInit
<1>2. RouterIInv /\ [ValueNext]_valueVars => RouterIInv'
  BY NextRouter
<1> QED BY <1>1, <1>2, PTL DEF ValueSpec

LEMMA RouterFollows ==
  ASSUME RouterIInv
  PROVE  Router!VenuesAreReported /\ Router!TypeOK
<1>1. Router!ReportsAreTrue
  <2>1. ASSUME NEW s \in Swaps
        PROVE  /\ executed[s]["cantex"] = <<>> \/ executed[s]["temple"] = <<>>
               /\ \A v \in {"cantex", "temple"} :
                    /\ Len(executed[s][v]) <= Attempts[v]
                    /\ v \notin live => executed[s][v] = <<>>
               /\ orders[s].step = "done" /\ orders[s].venue \in live =>
                    orders[s].output \in Router!Range(executed[s][orders[s].venue])
    <3>1. OrderIsBacked(orders[s], executed[s])
      BY OrderShapes
    <3> QED BY <3>1 DEF OrderIsBacked, Router!Range
  <2> QED BY <2>1 DEF Router!ReportsAreTrue, Router!Venues, Router!At
<1>2. Router!QuotesAreTheBook
  <2>1. ASSUME NEW s \in Swaps, orders[s].step = "order"
        PROVE  /\ \A q \in orders[s].quotes : q.book # <<>> =>
                    /\ \A f \in Router!Fills(q.book) :
                         Router!Proceeds(q.book, f) <= q.output + q.fee
                    /\ \E f \in Router!Fills(q.book) :
                         Router!Proceeds(q.book, f) = q.output + q.fee
               /\ \E q \in orders[s].quotes :
                    /\ q.source = orders[s].venue
                    /\ \A r \in orders[s].quotes : Router!NetOf(q) >= Router!NetOf(r)
    <3>1. SendsOrder(orders[s])
      BY <2>1, OrderShapes
    <3>2. ASSUME NEW q \in orders[s].quotes, q.book # <<>>
          PROVE  /\ \A f \in Router!Fills(q.book) :
                      Router!Proceeds(q.book, f) <= q.output + q.fee
                 /\ \E f \in Router!Fills(q.book) :
                      Router!Proceeds(q.book, f) = q.output + q.fee
      <4>1. CantexShape(q) \/ TempleShape(q)
        BY <3>1 DEF SendsOrder, QuotesFit
      <4>2. ~CantexShape(q)
        BY <3>2 DEF CantexShape, Router!CantexQuote
      <4>3. q.book \in Books /\ q.output + q.fee = Router!Walk(q.book).cost
        BY <3>2, <4>1, <4>2 DEF TempleShape
      <4>4. q.book \in Seq(Level)
        BY <4>3, RouterConstants
      <4> QED BY <4>3, <4>4, WalkIsBest, WalkIsSplit
    <3> QED BY <3>1, <3>2 DEF SendsOrder, BestIsChosen
  <2> QED BY <2>1 DEF Router!QuotesAreTheBook, Router!At
<1>3. Router!AvailabilityIsFresh
  BY DEF Router!AvailabilityIsFresh, Router!IsFresh, RouterIInv, GaugeIsKept
<1>4. Router!TypeOK
  <2>1. ASSUME NEW s \in Swaps
        PROVE  /\ orders[s].step \in {"idle", "quotes", "order", "done", "failed"}
               /\ orders[s].step = "order" =>
                    orders[s].attempt \in 1..Attempts[orders[s].venue]
               /\ executed[s] \in [{"cantex", "temple"} -> Seq(Outputs)]
    BY OrderShapes DEF SendsOrder, OrderIsBacked
  <2> QED BY <2>1 DEF Router!TypeOK, Router!At, Router!Venues, RouterIInv, GaugeIsKept
<1> QED BY <1>1, <1>2, <1>3, <1>4 DEF Router!VenuesAreReported

---------------------------------------------------------------------------
LEMMA ReinvestmentTypes ==
  ASSUME ReinvestmentIInv
  PROVE  Reinvestment!TypeOK
<1> USE DEF ReinvestmentIInv
<1>1. /\ configs \in [Parties -> Configs] /\ onLedger \in [Parties -> Configs]
      /\ runs \in [Parties -> Nat] /\ boot \in {"file", "ledger", "up"}
      /\ file.configs \in [Parties -> Configs] /\ wanted.configs \in [Parties -> Configs]
      /\ saving.queued => saving.lock
  BY DEF SavesIInv, SavesHaveTypes, SaveIsDue, SavedStates
<1>2. lastCompoundTime \in [Parties -> Reinvestment!Never..compoundTime]
  <2>1. ASSUME NEW p \in Parties
        PROVE  lastCompoundTime[p] \in Reinvestment!Never..compoundTime
    <3>1. /\ lastCompoundTime[p] \in Nat \union {Reinvestment!Never}
          /\ lastCompoundTime[p] <= compoundTime /\ compoundTime \in Nat
      BY DEF YieldIInv, ExecutionsHaveTypes
    <3> QED BY <3>1 DEF Reinvestment!Never
  <2> QED BY <2>1 DEF YieldIInv, ExecutionsHaveTypes
<1> QED BY <1>1, <1>2 DEF Reinvestment!TypeOK, Configs

LEMMA MonthlyTypes ==
  ASSUME MonthlyIInv
  PROVE  Monthly!TypeOK
<1> USE DEF MonthlyIInv, LedgerIInv
<1>1. trackers \subseteq Monthly!Tracker
  BY DEF TrackersAreUnique
<1>2. \A p \in payouts : p.amount \in Nat \ {0} /\ p.month < month
  BY DEF PayoutsAreFinal, PayoutRecord
<1>3. \A u \in Traders : acked[u] \in 0..counted[u]
  <2> TAKE u \in Traders
  <2>1. acked[u] \in Nat /\ counted[u] \in Nat /\ acked[u] <= counted[u]
    BY DEF CountsHaveTypes
  <2> QED BY <2>1
<1> QED BY <1>1, <1>2, <1>3 DEF Monthly!TypeOK, CountsHaveTypes

(* What is told of the market is true: the oracle's history is the latest  *)
(* of what it recorded and its answers are true to their labels; no split  *)
(* of an amount between the bids of a book brings more than the quote says,*)
(* a swap goes where the quotes promise most and reports what the venue    *)
(* did, and the sidecar is up only if a recent probe said so.              *)
THEOREM MarketStaysTold == ValueSpec => []TheMarketIsTold
<1>1. OracleIInv /\ RouterIInv => TheMarketIsTold
  BY OracleFollows, RouterFollows DEF TheMarketIsTold
<1> QED BY <1>1, OracleInvariance, RouterInvariance, PTL

PartIsKnown == part \in {"treasury", "oracle", "compound", "rewards", "router"}

(* The state of each part has the types its module declares.               *)
THEOREM ValueTypes == ValueSpec => []TypesOK
<1>1. ValueInit => TreasuryIInv
  BY InitIInv DEF ValueInit
<1>2. TreasuryIInv /\ [ValueNext]_valueVars => TreasuryIInv'
  <2>1. [ValueNext]_valueVars => [Next]_vars
    BY DEF ValueNext, valueVars, vars, engineVars, worldVars
  <2> QED BY <2>1, Inductive
<1>3. ValueSpec => []TreasuryIInv
  BY <1>1, <1>2, PTL DEF ValueSpec
<1>4. ValueInit => PartIsKnown
  BY DEF ValueInit, PartIsKnown
<1>5. PartIsKnown /\ [ValueNext]_valueVars => PartIsKnown'
  BY DEF ValueNext, valueVars, PartIsKnown
<1>6. ValueSpec => []PartIsKnown
  BY <1>4, <1>5, PTL DEF ValueSpec
<1>7. /\ PartIsKnown
      /\ TreasuryIInv /\ OracleIInv /\ ReinvestmentIInv /\ MonthlyIInv /\ RouterIInv
      => TypesOK
  BY OracleFollows, ReinvestmentTypes, MonthlyTypes, RouterFollows DEF TypesOK, TreasuryIInv,
     PartIsKnown
<1> QED BY <1>3, <1>6, <1>7, OracleInvariance, ReinvestmentInvariance, MonthlyInvariance,
           RouterInvariance, PTL
=============================================================================
