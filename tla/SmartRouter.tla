----------------------------- MODULE SmartRouter -----------------------------
(***************************************************************************)
(* The smart order router (backend/src/services/smart-router.ts) and its   *)
(* two venues: Cantex through its sidecar (cantex.ts, cantex-sidecar.ts)   *)
(* and the order book of Temple (temple-client.ts).                        *)
(*                                                                         *)
(* A swap asks both for a quote, takes the better one and sends an order to*)
(* that venue, again if an answer fails to come.  A venue that is not      *)
(* configured is mocked.  A request may fail before or after the venue has *)
(* done what it asks, or be rejected by the venue's circuit breaker.       *)
(* Swaps sell Amount of an asset for USDCx.                                *)
(***************************************************************************)
EXTENDS Integers, Sequences, FiniteSets, SequencesExt

CONSTANTS
  Swaps,
  Watchers,         \* calls of isAvailable that may overlap
  Amount,
  Outputs,          \* what a venue may return for it
  Books,            \* bids of Temple, as sequences of [price, amount], best first
  Mock,             \* the output of the mocks
  CantexFee,
  TakerRate,        \* Temple's fee is one part in TakerRate
  Attempts,         \* how often an order is sent, per venue
  AvailabilityTtl,  \* AVAILABILITY_TTL_MS
  MaxTime           \* bound

Venues == {"cantex", "temple"}

ConstantsAssumption ==
  /\ Amount \in Nat \ {0} /\ Outputs \subseteq Nat /\ {Mock, CantexFee} \subseteq Nat
  /\ Books \subseteq Seq([price : Nat, amount : Nat])
  /\ \A book \in Books : \A i, j \in DOMAIN book :
       i <= j => book[i].price >= book[j].price
  /\ TakerRate \in Nat \ {0}
  /\ Attempts \in [Venues -> Nat \ {0}]
  /\ AvailabilityTtl \in Nat \ {0} /\ MaxTime \in Nat

VARIABLES
  live,      \* the venues that are configured
  calls,     \* what each swap is doing
  executed,  \* the outputs of the orders each venue has executed for each swap
  gauge,     \* sidecarAvailable and sidecarAvailableCheckedAt
  watchers,  \* what each call of isAvailable is doing
  healthy,   \* when the probes that succeeded were started
  now

vars == <<live, calls, executed, gauge, watchers, healthy, now>>

Idle == [step |-> "idle"]

Init ==
  /\ live \in SUBSET Venues
  /\ calls = [s \in Swaps |-> Idle]
  /\ executed = [s \in Swaps |-> [v \in Venues |-> <<>>]]
  /\ gauge = [up |-> "unknown", checkedAt |-> 0]
  /\ watchers = [w \in Watchers |-> Idle]
  /\ healthy = {} /\ now = 0

At(s, step) == calls[s].step = step

Goes(s, call) == calls' = [calls EXCEPT ![s] = call]

MarkSidecarDown == gauge' = [up |-> "down", checkedAt |-> now]

---------------------------------------------------------------------------
(* getBestQuote.                                                           *)

GetBestQuote(s) ==
  /\ calls[s] = Idle
  /\ Goes(s, [step |-> "quotes", asked |-> Venues, quotes |-> {}])
  /\ UNCHANGED <<live, executed, gauge, watchers, healthy, now>>

Receives(s, venue, quotes) ==
  Goes(s, [calls[s] EXCEPT !.asked = @ \ {venue}, !.quotes = @ \union quotes])

CantexQuote(output) == [source |-> "cantex", output |-> output, fee |-> CantexFee, book |-> <<>>]

(* A sidecar that fails is marked down, and the mock answers instead.      *)
CantexQuotes(s) ==
  /\ At(s, "quotes") /\ "cantex" \in calls[s].asked
  /\ \/ /\ "cantex" \in live
        /\ \E output \in Outputs : Receives(s, "cantex", {CantexQuote(output)})
        /\ UNCHANGED gauge
     \/ /\ Receives(s, "cantex", {CantexQuote(Mock)})
        /\ IF "cantex" \in live THEN MarkSidecarDown ELSE UNCHANGED gauge
  /\ UNCHANGED <<live, executed, watchers, healthy, now>>

Smaller(a, b) == IF a < b THEN a ELSE b

(* The proceeds of selling Amount to the bids, one after the other.        *)
Walk(book) ==
  FoldLeft(LAMBDA acc, entry :
             LET fill == Smaller(acc.left, entry.amount) IN
             [left |-> acc.left - fill, cost |-> acc.cost + fill * entry.price],
           [left |-> Amount, cost |-> 0], book)

TempleQuote(book) ==
  LET cost == Walk(book).cost
      fee == cost \div TakerRate
  IN [source |-> "temple", output |-> cost - fee, fee |-> fee, book |-> book]

(* Without bids, or if the book cannot be read, there is no quote.         *)
TempleQuotes(s) ==
  /\ At(s, "quotes") /\ "temple" \in calls[s].asked
  /\ IF "temple" \in live
     THEN \E quotes \in {{TempleQuote(book)} : book \in Books \ {<<>>}} \union {{}} :
            Receives(s, "temple", quotes)
     ELSE Receives(s, "temple", {[TempleQuote(<<>>) EXCEPT !.output = Mock]})
  /\ UNCHANGED <<live, executed, gauge, watchers, healthy, now>>

NetOf(quote) == quote.output - quote.fee

(* The sort is stable, and Cantex comes first.                             *)
Best(quotes) ==
  CHOOSE q \in quotes : \A r \in quotes \ {q} :
    NetOf(q) > NetOf(r) \/ (NetOf(q) = NetOf(r) /\ q.source = "cantex")

Choose(s) ==
  /\ At(s, "quotes") /\ calls[s].asked = {}
  /\ Goes(s, [step |-> "order", venue |-> Best(calls[s].quotes).source,
              quotes |-> calls[s].quotes, attempt |-> 1])
  /\ UNCHANGED <<live, executed, gauge, watchers, healthy, now>>

---------------------------------------------------------------------------
(* executeSwap at the venue that was chosen.                               *)

Report(s, output) ==
  Goes(s, [step |-> "done", venue |-> calls[s].venue, output |-> output])

MockSwap(s) ==
  /\ At(s, "order") /\ calls[s].venue \notin live
  /\ Report(s, Mock)
  /\ UNCHANGED <<live, executed, gauge, watchers, healthy, now>>

Executes(s, venue, output) ==
  executed' = [executed EXCEPT ![s][venue] = Append(@, output)]

(* Temple may fill part of an order, or reject it: the output is less.     *)
OrderAnswered(s) ==
  /\ At(s, "order") /\ calls[s].venue \in live
  /\ \E output \in Outputs :
       Executes(s, calls[s].venue, output) /\ Report(s, output)
  /\ UNCHANGED <<live, gauge, watchers, healthy, now>>

(* No answer: the order may have been executed, and is sent again until    *)
(* the attempts are used up.                                               *)
OrderFails(s) ==
  LET venue == calls[s].venue IN
  /\ At(s, "order") /\ venue \in live
  /\ \/ \E output \in Outputs : Executes(s, venue, output)
     \/ UNCHANGED executed
  /\ IF calls[s].attempt < Attempts[venue]
     THEN Goes(s, [calls[s] EXCEPT !.attempt = @ + 1]) /\ UNCHANGED gauge
     ELSE /\ Goes(s, [step |-> "failed"])
          /\ IF venue = "cantex" THEN MarkSidecarDown ELSE UNCHANGED gauge
  /\ UNCHANGED <<live, watchers, healthy, now>>

---------------------------------------------------------------------------
(* isAvailable: a probe is remembered as of the time it was started.       *)

IsFresh == gauge.up # "unknown" /\ now - gauge.checkedAt < AvailabilityTtl

Told(w, up) == watchers' = [watchers EXCEPT ![w] = [step |-> "told", up |-> up, at |-> now]]

IsAvailable(w) ==
  /\ watchers[w].step # "probe"
  /\ IF "cantex" \notin live THEN Told(w, "up")
     ELSE IF IsFresh THEN Told(w, gauge.up)
     ELSE watchers' = [watchers EXCEPT ![w] = [step |-> "probe", since |-> now]]
  /\ UNCHANGED <<live, calls, executed, gauge, healthy, now>>

Probed_StampedLate(w) ==
  /\ watchers[w].step = "probe"
  /\ \E up \in {"up", "down"} :
       /\ gauge' = [up |-> up, checkedAt |-> now]
       /\ healthy' = healthy \union IF up = "up" THEN {watchers[w].since} ELSE {}
       /\ Told(w, up)
  /\ UNCHANGED <<live, calls, executed, now>>

Probed(w) ==
  /\ watchers[w].step = "probe"
  /\ \E up \in {"up", "down"} :
       /\ gauge' = [up |-> up, checkedAt |-> watchers[w].since]
       /\ healthy' = healthy \union IF up = "up" THEN {watchers[w].since} ELSE {}
       /\ Told(w, up)
  /\ UNCHANGED <<live, calls, executed, now>>

Clock ==
  /\ now < MaxTime
  /\ now' = now + 1
  /\ UNCHANGED <<live, calls, executed, gauge, watchers, healthy>>

Next ==
  \/ \E s \in Swaps :
       \/ GetBestQuote(s) \/ CantexQuotes(s) \/ TempleQuotes(s) \/ Choose(s)
       \/ MockSwap(s) \/ OrderAnswered(s) \/ OrderFails(s)
  \/ \E w \in Watchers : IsAvailable(w) \/ Probed(w)
  \/ Clock

Spec == Init /\ [][Next]_vars

---------------------------------------------------------------------------
(* Properties.                                                             *)

TypeOK ==
  /\ live \subseteq Venues
  /\ \A s \in Swaps :
       /\ calls[s].step \in {"idle", "quotes", "order", "done", "failed"}
       /\ At(s, "order") => calls[s].attempt \in 1..Attempts[calls[s].venue]
       /\ executed[s] \in [Venues -> Seq(Outputs)]
  /\ gauge.up \in {"unknown", "up", "down"}
  /\ gauge.checkedAt \in 0..now

(* A swap is executed at one venue and no more often than its orders were  *)
(* sent; what is reported of it is something that venue did, and only a    *)
(* venue that is mocked reports what never happened (executeSwap of        *)
(* smart-router.ts, cantex.ts and temple-client.ts).                       *)
ReportsAreTrue ==
  \A s \in Swaps :
    LET done(v) == executed[s][v] IN
    /\ done("cantex") = <<>> \/ done("temple") = <<>>
    /\ \A v \in Venues : /\ Len(done(v)) <= Attempts[v]
                         /\ v \notin live => done(v) = <<>>
    /\ At(s, "done") /\ calls[s].venue \in live =>
         calls[s].output \in Range(done(calls[s].venue))

(* The most that Amount can bring: no way to split it between the bids     *)
(* brings more.                                                            *)
Fills(book) ==
  {f \in [DOMAIN book -> 0..Amount] :
     /\ \A i \in DOMAIN book : f[i] <= book[i].amount
     /\ FoldFunction(LAMBDA x, y : x + y, 0, f) <= Amount}

Proceeds(book, f) ==
  FoldFunction(LAMBDA x, y : x + y, 0, [i \in DOMAIN book |-> f[i] * book[i].price])

(* What Temple is quoted with is what its book pays at best, and the swap  *)
(* goes where the quotes promise most (getQuote, getBestQuote).            *)
QuotesAreTheBook ==
  \A s \in Swaps : At(s, "order") =>
    /\ \A q \in calls[s].quotes : q.book # <<>> =>
         /\ \A f \in Fills(q.book) : Proceeds(q.book, f) <= q.output + q.fee
         /\ \E f \in Fills(q.book) : Proceeds(q.book, f) = q.output + q.fee
    /\ \E q \in calls[s].quotes :
         q.source = calls[s].venue /\ \A r \in calls[s].quotes : NetOf(q) >= NetOf(r)

(* The sidecar is said to be available only if a probe that was started no *)
(* longer ago than the time to live found it so, however probes overlap    *)
(* with each other and with failures (isAvailable of cantex.ts).           *)
AvailabilityIsFresh ==
  \A w \in Watchers :
    LET answer == watchers[w] IN
    (answer.step = "told" /\ answer.up = "up" /\ "cantex" \in live /\ answer.at = now
       /\ gauge.up = "up" /\ IsFresh)
    => \E t \in healthy : now - t < AvailabilityTtl

(* What the router tells of the venues is what they did (smart-router.ts). *)
VenuesAreReported == ReportsAreTrue /\ QuotesAreTheBook /\ AvailabilityIsFresh
===========================================================================
