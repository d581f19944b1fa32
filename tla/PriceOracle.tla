----------------------------- MODULE PriceOracle -----------------------------
(***************************************************************************)
(* The price oracle (backend/src/services/price-oracle.ts) on top of the   *)
(* prices of cantex.ts: a cache with a time to live, a chain of fallbacks  *)
(* and a ring buffer of past prices per asset.                             *)
(*                                                                         *)
(* getPrice, getAllPrices and the poller are processes that overlap: each  *)
(* awaits the prices, and the volume of an asset between reading its price *)
(* and caching it.  A price is a number, its source a label.               *)
(***************************************************************************)
EXTENDS Integers, Sequences, SequencesExt, FiniteSets

CONSTANTS
  Assets,      \* SUPPORTED_ASSETS
  Quoted,      \* those the venue quotes
  Readers,     \* calls that may overlap
  Prices,      \* what the venue may quote
  Mock,        \* MOCK_PRICES and FALLBACK_PRICES
  CacheTtl, MaxHistory,
  MaxRecords, MaxTime  \* bounds

ConstantsAssumption ==
  /\ Quoted \subseteq Assets
  /\ {CacheTtl, MaxHistory} \subseteq Nat \ {0}
  /\ {MaxRecords, MaxTime} \subseteq Nat

VARIABLES
  cache,     \* of each asset
  buffers,   \* the ring buffer of each asset: data, writeIdx and size
  recorded,  \* every price that was recorded, in order
  calls,     \* the local state of each call
  now

vars == <<cache, buffers, recorded, calls, now>>

NoEntry == [price |-> 0, expires |-> 0]
Idle == [step |-> "idle"]
EmptyBuffer == [data |-> <<>>, writeIdx |-> 0, size |-> 0]
Sources == {"cantex", "cached", "fallback"}

Init ==
  /\ cache = [a \in Assets |-> NoEntry]
  /\ buffers = [a \in Assets |-> EmptyBuffer]
  /\ recorded = [a \in Assets |-> <<>>]
  /\ calls = [r \in Readers |-> Idle]
  /\ now = 0

At(r, step) == calls[r].step = step

Goes(r, call) == calls' = [calls EXCEPT ![r] = call]

Answer(a, price, source) ==
  [step |-> "answered", asset |-> a, price |-> price, source |-> source]

---------------------------------------------------------------------------
(* The ring buffer.                                                        *)

Record(buf, price) ==
  [data |-> [i \in 1..(IF buf.size < MaxHistory THEN buf.size + 1 ELSE MaxHistory) |->
              IF i = buf.writeIdx + 1 THEN price ELSE buf.data[i]],
   writeIdx |-> (buf.writeIdx + 1) % MaxHistory,
   size |-> IF buf.size < MaxHistory THEN buf.size + 1 ELSE buf.size]

ReadHistory(buf) ==
  LET start == IF buf.size < MaxHistory THEN 0 ELSE buf.writeIdx IN
  [i \in 1..buf.size |-> buf.data[((start + i - 1) % MaxHistory) + 1]]

---------------------------------------------------------------------------
(* Calls.                                                                  *)

Hot(a) == cache[a] # NoEntry /\ now < cache[a].expires

(* getPrice reads the cached entry before it awaits the prices.            *)
GetPrice(r, a) ==
  /\ calls[r] = Idle
  /\ Goes(r, IF Hot(a) THEN Answer(a, cache[a].price, "cached")
             ELSE [step |-> "fetch", asset |-> a, cached |-> cache[a].price])
  /\ UNCHANGED <<cache, buffers, recorded, now>>

(* getAllPrices and pollOnce take what the venue quotes.                   *)
PollOnce(r) ==
  /\ calls[r] = Idle
  /\ Goes(r, [step |-> "poll"])
  /\ UNCHANGED <<cache, buffers, recorded, now>>

(* cantex.getPrices never fails: without the sidecar it has mock prices.   *)
(* A quoted asset may be missing, if only its own pool has no quote.       *)
Quotes == {[a \in S |-> p] : S \in SUBSET Quoted, p \in Prices}
            \union {[a \in Quoted |-> Mock[a]]}

Fallback(cached, a) ==
  IF cached # 0 THEN Answer(a, cached, "cached") ELSE Answer(a, Mock[a], "fallback")

Fetched(r) ==
  /\ At(r, "fetch")
  /\ \E quotes \in Quotes :
       LET a == calls[r].asset IN
       Goes(r, IF a \in DOMAIN quotes
               THEN [step |-> "volume", quotes |-> quotes, todo |-> {a}, asset |-> a]
               ELSE Fallback(calls[r].cached, a))
  /\ UNCHANGED <<cache, buffers, recorded, now>>

Polled(r) ==
  /\ At(r, "poll")
  /\ \E quotes \in Quotes :
       Goes(r, [step |-> "volume", quotes |-> quotes, todo |-> DOMAIN quotes,
                asset |-> "none"])
  /\ UNCHANGED <<cache, buffers, recorded, now>>

(* updateCache and recordHistory.                                          *)
Keep(a, price) ==
  /\ cache' = [cache EXCEPT ![a] = [price |-> price, expires |-> now + CacheTtl]]
  /\ buffers' = [buffers EXCEPT ![a] = Record(@, price)]
  /\ recorded' = [recorded EXCEPT ![a] = Append(@, price)]

(* The volume of an asset has arrived.                                     *)
VolumeArrives(r) ==
  /\ At(r, "volume")
  /\ \E a \in calls[r].todo :
       /\ Len(recorded[a]) < MaxRecords
       /\ Keep(a, calls[r].quotes[a])
       /\ Goes(r, IF calls[r].asset = a THEN Answer(a, calls[r].quotes[a], "cantex")
                  ELSE [calls[r] EXCEPT !.todo = @ \ {a}])
  /\ UNCHANGED now

EndPoll(r) ==
  /\ At(r, "volume") /\ calls[r].todo = {}
  /\ Goes(r, Idle)
  /\ UNCHANGED <<cache, buffers, recorded, now>>

Return(r) ==
  /\ At(r, "answered")
  /\ Goes(r, Idle)
  /\ UNCHANGED <<cache, buffers, recorded, now>>

Clock ==
  /\ now < MaxTime
  /\ now' = now + 1
  /\ UNCHANGED <<cache, buffers, recorded, calls>>

Next ==
  \/ \E r \in Readers :
       \/ \E a \in Assets : GetPrice(r, a)
       \/ PollOnce(r) \/ Fetched(r) \/ Polled(r) \/ VolumeArrives(r) \/ EndPoll(r)
       \/ Return(r)
  \/ Clock

Spec == Init /\ [][Next]_vars

---------------------------------------------------------------------------
(* Properties.                                                             *)

TypeOK ==
  /\ \A a \in Assets : /\ cache[a].price \in Prices \union {0, Mock[a]}
                       /\ cache[a].expires \in Nat
                       /\ buffers[a].writeIdx \in 0..(MaxHistory - 1)
                       /\ buffers[a].size = Len(buffers[a].data)
  /\ \A r \in Readers : At(r, "answered") => calls[r].source \in Sources

(* The history a chart or the change of a day is computed from is the      *)
(* latest recorded prices, oldest first, also after the ring has wrapped.  *)
HistoryIsRecent ==
  \A a \in Assets :
    LET n == Len(recorded[a]) IN
    ReadHistory(buffers[a]) =
      SubSeq(recorded[a], IF n > MaxHistory THEN n - MaxHistory + 1 ELSE 1, n)

(* Whatever overlaps, an answer is true to its label: a price said to be   *)
(* the venue's or cached was recorded for this asset, and only one said to *)
(* be a fallback was not looked up.                                        *)
AnswersAreLabelled ==
  \A r \in Readers : At(r, "answered") =>
    IF calls[r].source = "fallback" THEN calls[r].price = Mock[calls[r].asset]
    ELSE \E i \in DOMAIN recorded[calls[r].asset] :
           recorded[calls[r].asset][i] = calls[r].price

(* What the oracle tells of the present and of the past is what it saw     *)
(* (price-oracle.ts, getPrice and getHistory).                             *)
PricesAreHonest == HistoryIsRecent /\ AnswersAreLabelled
===========================================================================
