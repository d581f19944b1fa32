----------------------------- MODULE DCAProofs -----------------------------
(***************************************************************************)
(* Proofs about DCA, for any number of schedules, overlapping ticks and    *)
(* executions: the locks, the cache, the executions and the venue agree on *)
(* what was bought (ExecutionsAreSound); the types; and the spacing of     *)
(* acknowledged buys when ticks do not overlap and the process does not    *)
(* restart.                                                                *)
(*                                                                         *)
(* The first part leaves the contracts of the schedules, and what a tick   *)
(* has yet to do, untyped: a tick's record is described by its shape.      *)
(***************************************************************************)
EXTENDS DCA, FiniteSetTheorems, SequenceTheorems, WellFoundedInduction, TLAPS

BuyFields(r) ==
  r = [step |-> r.step, todo |-> r.todo, item |-> r.item, execution |-> r.execution]

(* What the record r of a tick says fits the executions ex and the logs lg. *)
TickFits(r, ex, lg) ==
  \/ r = NoTick
  \/ r = [step |-> "scanned", todo |-> r.todo]
  \/ /\ r = [step |-> "hydrate", todo |-> r.todo, unread |-> r.unread]
     /\ r.unread \subseteq lg
  \/ /\ BuyFields(r)
     /\ r.step \in {"execute", "record"}
  \/ /\ BuyFields(r)
     /\ r.step \in {"swap", "complete"}
     /\ r.execution \in DOMAIN ex
     /\ ex[r.execution].status = "Pending"
     /\ ex[r.execution].schedule = r.item.schedule

Trades(r) == r.step \in {"swap", "complete"}

TicksFit ==
  /\ ticks = [t \in Ticks |-> ticks[t]]
  /\ \A t \in Ticks : TickFits(ticks[t], executions, logs)

TradesAreExclusive ==
  \A t, d \in Ticks : t # d /\ Trades(ticks[t]) /\ Trades(ticks[d])
    => ticks[t].execution # ticks[d].execution

LedgerShape ==
  /\ executions \in Seq(Execution)
  /\ buys \in Seq(Nat)
  /\ Len(buys) = Len(executions)

LogsFit ==
  \A l \in logs :
    /\ l.execution \in DOMAIN executions
    /\ executions[l.execution].status = "Archived"

TimesFit ==
  /\ now \in Nat
  /\ \A l \in logs : l.at \in 0..now
  /\ lastExecution \in [Schedules -> Int]
  /\ \A s \in Schedules : lastExecution[s] <= now

(* An execution is Pending or logged, and it is logged once.               *)
ExecutionsAreLogged ==
  /\ \A e \in DOMAIN executions :
       executions[e].status = "Pending" \/ \E l \in logs : l.execution = e
  /\ \A l, k \in logs : l.execution = k.execution => l = k

IInv ==
  /\ TicksFit
  /\ TradesAreExclusive
  /\ LedgerShape
  /\ LogsFit
  /\ TimesFit
  /\ ExecutionsAreLogged
  /\ LocksHaveHolders
  /\ CacheIsBacked

LEMMA IInvIsExclusive == IInv => ExecutionsAreExclusive
<1>1. NoTick.step = "idle"
  BY DEF NoTick
<1> QED
  BY <1>1 DEF IInv, TicksFit, TickFits, TradesAreExclusive, Trades, ExecutionsAreExclusive

LEMMA InitIInv == Init => IInv
<1> SUFFICES ASSUME Init PROVE IInv
  OBVIOUS
<1>1. TicksFit /\ TradesAreExclusive
  BY DEF Init, TicksFit, TickFits, TradesAreExclusive, Trades, NoTick
<1>2. LedgerShape /\ LogsFit
  BY DEF Init, LedgerShape, LogsFit
<1>3. TimesFit
  BY DEF Init, TimesFit, ColdCache, Never
<1>4. ExecutionsAreLogged /\ LocksHaveHolders /\ CacheIsBacked
  BY DEF Init, ExecutionsAreLogged, LocksHaveHolders, CacheIsBacked, ColdCache
<1> QED BY <1>1, <1>2, <1>3, <1>4 DEF IInv

---------------------------------------------------------------------------
(* The greatest of the times of a batch.                                   *)

LEMMA LeastOfOrder ==
  ASSUME NEW R, IsWellFoundedOn(R, Nat),
         \A x, y \in Nat : y < x => <<y, x>> \in R,
         NEW S \in SUBSET Nat, S # {}
  PROVE  \E x \in S : \A y \in S : x <= y
<1>1. PICK x \in S : \A y \in S : ~ (<<y, x>> \in R)
  BY WFMin, Zenon
<1>2. ASSUME NEW y \in S PROVE x <= y
  <2>1. x \in Nat /\ y \in Nat
    OBVIOUS
  <2>2. ~(y < x)
    BY <1>1, <2>1
  <2> QED BY <2>1, <2>2
<1> QED BY <1>2

LEMMA LeastNatural ==
  ASSUME NEW S \in SUBSET Nat, S # {}
  PROVE  \E x \in S : \A y \in S : x <= y
<1>1. \A x, y \in Nat : y < x => <<y, x>> \in OpToRel(<, Nat)
  BY DEF OpToRel
<1> QED BY <1>1, NatLessThanWellFounded, LeastOfOrder, Zenon

LEMMA MaxIn ==
  ASSUME NEW S \in SUBSET Int, S # {}, NEW n \in Int, \A x \in S : x <= n
  PROVE  Max(S) \in S /\ \A y \in S : Max(S) >= y
<1> DEFINE T == {n - x : x \in S}
<1>1. T \in SUBSET Nat /\ T # {}
  <2>1. ASSUME NEW t \in T PROVE t \in Nat
    <3>1. PICK x \in S : t = n - x
      OBVIOUS
    <3>2. x \in Int /\ x <= n
      OBVIOUS
    <3> QED BY <3>1, <3>2
  <2>2. PICK x \in S : TRUE
    OBVIOUS
  <2>3. n - x \in T
    OBVIOUS
  <2> QED BY <2>1, <2>3
<1> HIDE DEF T
<1>2. PICK t \in T : \A y \in T : t <= y
  BY <1>1, LeastNatural
<1>3. PICK x \in S : t = n - x
  BY <1>2 DEF T
<1>4. ASSUME NEW y \in S PROVE x >= y
  <2>1. n - y \in T
    BY DEF T
  <2>2. t <= n - y
    BY <1>2, <2>1
  <2> QED BY <1>3, <2>2
<1> QED BY <1>4 DEF Max

---------------------------------------------------------------------------
(* Steps of one tick.                                                      *)

(* At most the execution e of the ledger changes, or a new one appears.    *)
LedgerGrows(e) ==
  /\ DOMAIN executions \subseteq DOMAIN executions'
  /\ \A x \in DOMAIN executions \ {e} : executions'[x] = executions[x]
  /\ \A x \in DOMAIN executions : buys'[x] >= buys[x]
  /\ logs \subseteq logs'

(* What fitted still fits if it is about another execution.                *)
LEMMA FitsStill ==
  ASSUME LedgerShape, LedgerShape', NEW e, LedgerGrows(e),
         NEW r, TickFits(r, executions, logs),
         Trades(r) => r.execution # e
  PROVE  TickFits(r, executions', logs')
BY DEF TickFits, LedgerGrows, Trades

(* Tick t goes on with the record r, while the ledger changes at most the  *)
(* execution t works on.                                                   *)
LEMMA TickGoesOn ==
  ASSUME TicksFit, TradesAreExclusive, LedgerShape, LedgerShape',
         NEW t \in Ticks, NEW r, ticks' = [ticks EXCEPT ![t] = r],
         TickFits(r, executions', logs'),
         NEW e, LedgerGrows(e),
         e \in DOMAIN executions => Trades(ticks[t]) /\ e = ticks[t].execution,
         Trades(r) => \/ r.execution \notin DOMAIN executions
                      \/ Trades(ticks[t]) /\ r.execution = ticks[t].execution
  PROVE  TicksFit' /\ TradesAreExclusive'
<1>1. ticks'[t] = r /\ \A d \in Ticks \ {t} : ticks'[d] = ticks[d]
  BY DEF TicksFit
<1>2. \A d \in Ticks : Trades(ticks[d]) => ticks[d].execution \in DOMAIN executions
  BY DEF TicksFit, TickFits, Trades, NoTick
<1>3. ASSUME NEW d \in Ticks \ {t}
      PROVE  TickFits(ticks[d], executions', logs')
  <2>1. Trades(ticks[d]) => ticks[d].execution # e
    BY <1>2 DEF TradesAreExclusive
  <2> QED BY <2>1, FitsStill DEF TicksFit
<1>4. TicksFit'
  <2>1. \A d \in Ticks : TickFits(ticks'[d], executions', logs')
    BY <1>1, <1>3
  <2>2. ticks' = [d \in Ticks |-> ticks'[d]]
    BY DEF TicksFit
  <2> QED BY <2>1, <2>2 DEF TicksFit
<1>5. TradesAreExclusive'
  BY <1>1, <1>2 DEF TradesAreExclusive
<1> QED BY <1>4, <1>5

(* The loop of t ends or goes on with a next schedule, held being the      *)
(* locks it leaves alone.                                                  *)
GoesOn(t, held) ==
  \/ ticks' = [ticks EXCEPT ![t] = NoTick] /\ locks' = held
  \/ \E x, rest :
       /\ ticks' = [ticks EXCEPT ![t] = [step |-> "execute", item |-> x,
                                         execution |-> 0, todo |-> rest]]
       /\ locks' = Locking(held, x)

LEMMA ProceedGoesOn ==
  ASSUME NEW t, NEW todo, NEW held, NEW last, Proceed(t, todo, held, last)
  PROVE  GoesOn(t, held)
BY DEF Proceed, GoesOn

(* If the locks held are those of the other ticks, every lock has a holder *)
(* again.                                                                  *)
LEMMA GoesOnKeepsLocks ==
  ASSUME TicksFit, NEW t \in Ticks, NEW held, GoesOn(t, held),
         \A l \in held : \E d \in Ticks \ {t} :
           Processes(d) /\ SameContract(ticks[d].item, l)
  PROVE  LocksHaveHolders'
<1>1. \A d \in Ticks \ {t} : ticks'[d] = ticks[d]
  BY DEF GoesOn, TicksFit
<1>2. \A l \in held : \E d \in Ticks :
        Processes(d)' /\ SameContract(ticks'[d].item, l)
  BY <1>1 DEF Processes
<1>3. CASE locks' = held
  BY <1>2, <1>3 DEF LocksHaveHolders, SameContract
<1>4. ASSUME NEW x, NEW rest,
             ticks' = [ticks EXCEPT ![t] = [step |-> "execute", item |-> x,
                                            execution |-> 0, todo |-> rest]],
             locks' = Locking(held, x)
      PROVE  LocksHaveHolders'
  <2>1. ticks'[t] = [step |-> "execute", item |-> x, execution |-> 0, todo |-> rest]
    BY <1>4 DEF TicksFit
  <2>2. ASSUME NEW l \in locks'
        PROVE  \E d \in Ticks : Processes(d)' /\ SameContract(ticks'[d].item, l)
    <3>1. CASE l \in held
      BY <1>2, <3>1
    <3>2. CASE l = [schedule |-> x.schedule, cid |-> x.cid, at |-> now]
      <4>1. SameContract(ticks'[t].item, l)
        BY <2>1, <3>2 DEF SameContract
      <4>2. Processes(t)'
        BY <2>1 DEF Processes
      <4> QED BY <4>1, <4>2
    <3> QED BY <1>4, <2>2, <3>1, <3>2 DEF Locking
  <2> QED BY <2>2 DEF LocksHaveHolders, SameContract
<1> QED BY <1>3, <1>4 DEF GoesOn

(* Of the locks, a tick at work holds its own: the others have others.     *)
LEMMA UnlockingLeavesOthers ==
  ASSUME LocksHaveHolders, NEW t \in Ticks
  PROVE  \A l \in Unlocking(locks, ticks[t].item) : \E d \in Ticks \ {t} :
           Processes(d) /\ SameContract(ticks[d].item, l)
BY DEF LocksHaveHolders, Unlocking, SameContract

LEMMA IdleHoldsNothing ==
  ASSUME LocksHaveHolders, NEW t \in Ticks, ~Processes(t)
  PROVE  \A l \in locks : \E d \in Ticks \ {t} :
           Processes(d) /\ SameContract(ticks[d].item, l)
BY DEF LocksHaveHolders

(* A step after which the loop goes on.                                    *)
LEMMA LoopGoesOn ==
  ASSUME IInv, NEW t \in Ticks, NEW held, GoesOn(t, held),
         \A l \in held : \E d \in Ticks \ {t} :
           Processes(d) /\ SameContract(ticks[d].item, l),
         LedgerShape', NEW e, LedgerGrows(e),
         e \in DOMAIN executions => Trades(ticks[t]) /\ e = ticks[t].execution
  PROVE  TicksFit' /\ TradesAreExclusive' /\ LocksHaveHolders'
<1>1. PICK r : /\ ticks' = [ticks EXCEPT ![t] = r]
               /\ \/ r = NoTick
                  \/ BuyFields(r) /\ r.step = "execute"
  BY DEF GoesOn, BuyFields
<1>2. TickFits(r, executions', logs') /\ ~Trades(r)
  BY <1>1 DEF TickFits, Trades, NoTick
<1>3. TicksFit' /\ TradesAreExclusive'
  BY <1>1, <1>2, TickGoesOn DEF IInv
<1>4. LocksHaveHolders'
  BY GoesOnKeepsLocks DEF IInv
<1> QED BY <1>3, <1>4

(* The locks stay where they are.                                          *)
LEMMA LocksStay ==
  ASSUME TicksFit, LocksHaveHolders, NEW t \in Ticks, NEW r,
         ticks' = [ticks EXCEPT ![t] = r], locks' = locks,
         Processes(t) =>
           /\ r.step \in {"execute", "swap", "complete", "record"}
           /\ r.item = ticks[t].item
  PROVE  LocksHaveHolders'
<1>1. ticks'[t] = r /\ \A d \in Ticks \ {t} : ticks'[d] = ticks[d]
  BY DEF TicksFit
<1>2. \A d \in Ticks : Processes(d) => Processes(d)' /\ ticks'[d].item = ticks[d].item
  BY <1>1 DEF Processes
<1> QED BY <1>2 DEF LocksHaveHolders, SameContract

LEMMA NothingGrows ==
  ASSUME LedgerShape, UNCHANGED <<executions, buys, logs>>
  PROVE  LedgerShape' /\ LedgerGrows(0) /\ 0 \notin DOMAIN executions
<1>1. \A x \in DOMAIN executions : buys[x] >= buys[x]
  BY DEF LedgerShape
<1> QED BY <1>1 DEF LedgerShape, LedgerGrows

(* A step that leaves ledger, venue, cache and clock alone.                *)
LEMMA QuietStep ==
  ASSUME IInv, UNCHANGED <<now, executions, buys, logs, lastExecution>>,
         TicksFit', TradesAreExclusive', LocksHaveHolders'
  PROVE  IInv'
<1>1. LedgerShape' /\ LogsFit' /\ TimesFit'
  BY DEF IInv, LedgerShape, LogsFit, TimesFit
<1>2. ExecutionsAreLogged' /\ CacheIsBacked'
  BY DEF IInv, ExecutionsAreLogged, CacheIsBacked
<1> QED BY <1>1, <1>2 DEF IInv

LEMMA QuietLoop ==
  ASSUME IInv, UNCHANGED <<now, executions, buys, logs, lastExecution>>,
         NEW t \in Ticks, NEW held, GoesOn(t, held),
         \A l \in held : \E d \in Ticks \ {t} :
           Processes(d) /\ SameContract(ticks[d].item, l)
  PROVE  IInv'
<1>1. LedgerShape' /\ LedgerGrows(0) /\ 0 \notin DOMAIN executions
  BY NothingGrows DEF IInv
<1>2. TicksFit' /\ TradesAreExclusive' /\ LocksHaveHolders'
  BY <1>1, LoopGoesOn
<1> QED BY <1>2, QuietStep

(* A tick goes on with a record that does not trade; nothing else changes. *)
LEMMA QuietTick ==
  ASSUME IInv, UNCHANGED <<now, executions, buys, logs, lastExecution, locks>>,
         NEW t \in Ticks, NEW r, ticks' = [ticks EXCEPT ![t] = r],
         ~Processes(t), TickFits(r, executions, logs), ~Trades(r)
  PROVE  IInv'
<1>1. LedgerShape' /\ LedgerGrows(0) /\ 0 \notin DOMAIN executions
  BY NothingGrows DEF IInv
<1>2. TickFits(r, executions', logs')
  OBVIOUS
<1>3. TicksFit' /\ TradesAreExclusive'
  BY <1>1, <1>2, TickGoesOn DEF IInv
<1>4. LocksHaveHolders'
  BY LocksStay DEF IInv
<1> QED BY <1>3, <1>4, QuietStep

LEMMA IdleIsNotAtWork == NoTick.step = "idle"
  BY DEF NoTick

LEMMA ScanIInv ==
  ASSUME IInv, NEW t \in Ticks, Scan(t)
  PROVE  IInv'
<1>1. PICK todo : ticks' = [ticks EXCEPT ![t] = [step |-> "scanned", todo |-> todo]]
  BY DEF Scan
<1> DEFINE r == [step |-> "scanned", todo |-> todo]
<1>2. TickFits(r, executions, logs) /\ ~Trades(r)
  BY DEF TickFits, Trades
<1>3. ~Processes(t)
  BY IdleIsNotAtWork DEF Scan, Idle, Processes
<1> QED BY <1>1, <1>2, <1>3, QuietTick DEF Scan, ledgerVars, memoryVars

LEMMA StartLoopIInv ==
  ASSUME IInv, NEW t \in Ticks, StartLoop(t)
  PROVE  IInv'
<1>1. ~Processes(t)
  BY DEF StartLoop, At, Processes
<1> DEFINE r == [step |-> "hydrate", todo |-> ticks[t].todo, unread |-> logs]
<1>2. CASE ticks' = [ticks EXCEPT ![t] = r] /\ UNCHANGED locks
  <2>1. TickFits(r, executions, logs) /\ ~Trades(r)
    BY DEF TickFits, Trades
  <2> QED BY <1>1, <1>2, <2>1, QuietTick DEF StartLoop, ledgerVars
<1>3. CASE Proceed(t, ticks[t].todo, locks, lastExecution)
  <2>1. GoesOn(t, locks)
    BY <1>3, ProceedGoesOn
  <2> QED BY <1>1, <2>1, IdleHoldsNothing, QuietLoop DEF StartLoop, ledgerVars, IInv
<1> QED BY <1>2, <1>3 DEF StartLoop

LEMMA HydrateBatchIInv ==
  ASSUME IInv, NEW t \in Ticks, HydrateBatch(t)
  PROVE  IInv'
<1>1. UNCHANGED <<now, executions, buys, logs, locks>> /\ ~Processes(t)
  BY DEF HydrateBatch, At, Processes, ledgerVars
<1>2. /\ ticks[t] = [step |-> "hydrate", todo |-> ticks[t].todo, unread |-> ticks[t].unread]
      /\ ticks[t].unread \subseteq logs
  BY IdleIsNotAtWork DEF IInv, TicksFit, TickFits, HydrateBatch, At, BuyFields
<1>3. PICK batch \in SUBSET ticks[t].unread :
        /\ lastExecution' = [s \in Schedules |->
             Max({lastExecution[s]} \union {l.at : l \in {k \in batch : k.schedule = s}})]
        /\ ticks' = [ticks EXCEPT ![t].unread = @ \ batch]
  BY DEF HydrateBatch
<1> DEFINE r == [step |-> "hydrate", todo |-> ticks[t].todo,
                 unread |-> ticks[t].unread \ batch]
           Seen(s) == {lastExecution[s]}
                        \union {l.at : l \in {k \in batch : k.schedule = s}}
<1>4. [ticks[t] EXCEPT !.unread = ticks[t].unread \ batch] = r
  BY <1>2
<1>5. ticks' = [ticks EXCEPT ![t] = r]
  BY <1>3, <1>4
<1>6. TicksFit' /\ TradesAreExclusive' /\ LocksHaveHolders'
  <2>1. TickFits(r, executions', logs') /\ ~Trades(r)
    BY <1>1, <1>2 DEF TickFits, Trades
  <2>2. LedgerShape' /\ LedgerGrows(0) /\ 0 \notin DOMAIN executions
    BY <1>1, NothingGrows DEF IInv
  <2> HIDE DEF r
  <2>3. TicksFit' /\ TradesAreExclusive'
    BY <1>5, <2>1, <2>2, TickGoesOn DEF IInv
  <2> QED BY <1>1, <1>5, <2>3, LocksStay DEF IInv
<1> HIDE DEF r
<1>7. ASSUME NEW s \in Schedules
      PROVE  /\ lastExecution'[s] \in Seen(s)
             /\ lastExecution'[s] \in Int
             /\ lastExecution'[s] <= now
  <2>1. Seen(s) \in SUBSET Int /\ Seen(s) # {} /\ \A y \in Seen(s) : y <= now
    BY <1>2 DEF IInv, TimesFit
  <2>2. now \in Int
    BY DEF IInv, TimesFit
  <2>3. lastExecution'[s] = Max(Seen(s))
    BY <1>3
  <2> HIDE DEF Seen
  <2>4. Max(Seen(s)) \in Seen(s)
    BY <2>1, <2>2, MaxIn
  <2> QED BY <2>1, <2>3, <2>4
<1>8. TimesFit'
  <2>1. lastExecution' \in [Schedules -> Int]
    BY <1>3, <1>7
  <2> QED BY <1>1, <1>7, <2>1 DEF IInv, TimesFit
<1>9. CacheIsBacked'
  <2>1. ASSUME NEW s \in Schedules, lastExecution'[s] # Never
        PROVE  \E l \in logs : l.schedule = s /\ l.at <= lastExecution'[s]
    <3>1. CASE lastExecution'[s] = lastExecution[s]
      BY <2>1, <3>1 DEF IInv, CacheIsBacked
    <3>2. CASE \E l \in batch : l.schedule = s /\ lastExecution'[s] = l.at
      <4>1. PICK l \in batch : l.schedule = s /\ lastExecution'[s] = l.at
        BY <3>2
      <4>2. l \in logs /\ l.at <= l.at
        BY <1>2 DEF IInv, TimesFit
      <4> QED BY <4>1, <4>2
    <3> QED BY <1>7, <3>1, <3>2
  <2> QED BY <1>1, <2>1 DEF CacheIsBacked
<1>10. LedgerShape' /\ LogsFit' /\ ExecutionsAreLogged'
  BY <1>1 DEF IInv, LedgerShape, LogsFit, ExecutionsAreLogged
<1> QED BY <1>6, <1>8, <1>9, <1>10 DEF IInv

LEMMA EndHydrationIInv ==
  ASSUME IInv, NEW t \in Ticks, EndHydration(t)
  PROVE  IInv'
<1>1. ~Processes(t)
  BY DEF EndHydration, At, Processes
<1>2. GoesOn(t, locks)
  <2>1. CASE Proceed(t, ticks[t].todo, locks, lastExecution)
    BY <2>1, ProceedGoesOn
  <2>2. CASE ticks' = [ticks EXCEPT ![t] = NoTick] /\ UNCHANGED locks
    BY <2>2 DEF GoesOn
  <2> QED BY <2>1, <2>2 DEF EndHydration
<1> QED BY <1>1, <1>2, IdleHoldsNothing, QuietLoop DEF EndHydration, ledgerVars, IInv

LEMMA NextScheduleGoesOn ==
  ASSUME NEW t, NextSchedule(t)
  PROVE  GoesOn(t, Unlocking(locks, ticks[t].item))
BY ProceedGoesOn DEF NextSchedule

LEMMA RecordIInv ==
  ASSUME IInv, NEW t \in Ticks, Record(t)
  PROVE  IInv'
<1>1. GoesOn(t, Unlocking(locks, ticks[t].item))
  BY NextScheduleGoesOn DEF Record
<1> QED BY <1>1, UnlockingLeavesOthers, QuietLoop DEF Record, ledgerVars, IInv

---------------------------------------------------------------------------
(* Steps that change the ledger or use the venue.                          *)

(* The record of a tick that buys, with another step and execution.        *)
LEMMA BuyUpdate ==
  ASSUME NEW r, BuyFields(r), NEW step, NEW execution
  PROVE  /\ [r EXCEPT !.step = step, !.execution = execution]
              = [step |-> step, todo |-> r.todo, item |-> r.item, execution |-> execution]
         /\ [r EXCEPT !.step = step]
              = [step |-> step, todo |-> r.todo, item |-> r.item, execution |-> r.execution]
<1> DEFINE r1 == [r EXCEPT !.step = step]
<1>1. r1 = [step |-> step, todo |-> r.todo, item |-> r.item, execution |-> r.execution]
  BY DEF BuyFields
<1> HIDE DEF r1
<1>2. [r1 EXCEPT !.execution = execution]
        = [step |-> step, todo |-> r.todo, item |-> r.item, execution |-> execution]
  BY <1>1
<1> QED BY <1>1, <1>2 DEF r1

LEMMA TickUpdate ==
  ASSUME TicksFit, NEW t \in Ticks, BuyFields(ticks[t]), NEW step, NEW execution
  PROVE  [ticks EXCEPT ![t].step = step, ![t].execution = execution]
           = [ticks EXCEPT ![t] = [step |-> step, todo |-> ticks[t].todo,
                                   item |-> ticks[t].item, execution |-> execution]]
<1> DEFINE r1 == [step |-> step, todo |-> ticks[t].todo, item |-> ticks[t].item,
                  execution |-> ticks[t].execution]
           r2 == [step |-> step, todo |-> ticks[t].todo, item |-> ticks[t].item,
                  execution |-> execution]
           T1 == [ticks EXCEPT ![t].step = step]
<1>1. T1 = [ticks EXCEPT ![t] = r1]
  BY BuyUpdate
<1>2. [r1 EXCEPT !.execution = execution] = r2
  OBVIOUS
<1> HIDE DEF T1, r1, r2
<1>3. T1[t] = r1
  BY <1>1 DEF TicksFit
<1>4. [T1 EXCEPT ![t].execution = execution] = [T1 EXCEPT ![t] = r2]
  BY <1>2, <1>3
<1>5. [T1 EXCEPT ![t] = r2] = [ticks EXCEPT ![t] = r2]
  BY <1>1 DEF TicksFit
<1> QED BY <1>4, <1>5 DEF T1, r2

LEMMA BuyingTick ==
  ASSUME IInv, NEW t \in Ticks, Processes(t)
  PROVE  BuyFields(ticks[t])
BY IdleIsNotAtWork DEF IInv, TicksFit, TickFits, Processes

LEMMA TradingTick ==
  ASSUME IInv, NEW t \in Ticks, Trades(ticks[t])
  PROVE  /\ BuyFields(ticks[t])
         /\ ticks[t].execution \in DOMAIN executions
         /\ executions[ticks[t].execution].status = "Pending"
         /\ executions[ticks[t].execution].schedule = ticks[t].item.schedule
BY IdleIsNotAtWork DEF IInv, TicksFit, TickFits, Trades

(* ExecuteDCA commits.                                                     *)
Executes(t) ==
  /\ ticks[t].item.schedule \in Schedules
  /\ executions' = Append(executions, [schedule |-> ticks[t].item.schedule,
                                       status |-> "Pending", at |-> now])
  /\ buys' = Append(buys, 0)
  /\ UNCHANGED <<now, logs, lastExecution>>

LEMMA ExecutesKeepsBooks ==
  ASSUME IInv, NEW t, Executes(t)
  PROVE  /\ LedgerShape' /\ LogsFit' /\ TimesFit' /\ ExecutionsAreLogged' /\ CacheIsBacked'
         /\ LedgerGrows(0) /\ 0 \notin DOMAIN executions
         /\ Len(executions) + 1 \in DOMAIN executions' \ DOMAIN executions
         /\ executions'[Len(executions) + 1]
              = [schedule |-> ticks[t].item.schedule, status |-> "Pending", at |-> now]
<1> DEFINE new == [schedule |-> ticks[t].item.schedule, status |-> "Pending", at |-> now]
<1>1. new \in Execution
  BY DEF IInv, TimesFit, Execution, Executes
<1>2. executions' = Append(executions, new)
  BY DEF Executes
<1>a. new.status = "Pending"
  OBVIOUS
<1> HIDE DEF new
<1>3. /\ executions' \in Seq(Execution)
      /\ Len(executions') = Len(executions) + 1
      /\ executions'[Len(executions) + 1] = new
      /\ \A x \in DOMAIN executions : executions'[x] = executions[x]
  BY <1>1, <1>2 DEF IInv, LedgerShape
<1>4. /\ buys' \in Seq(Nat)
      /\ Len(buys') = Len(buys) + 1
      /\ \A x \in DOMAIN executions : buys'[x] = buys[x] /\ buys[x] \in Nat
  BY DEF IInv, LedgerShape, Executes
<1>5. /\ DOMAIN executions = 1..Len(executions)
      /\ DOMAIN executions' = 1..(Len(executions) + 1)
      /\ Len(executions) \in Nat
  BY <1>3 DEF IInv, LedgerShape
<1>6. LedgerShape'
  BY <1>3, <1>4 DEF IInv, LedgerShape
<1>7. LogsFit' /\ TimesFit' /\ CacheIsBacked'
  BY <1>3, <1>5 DEF IInv, LogsFit, TimesFit, CacheIsBacked, Executes
<1>8. LedgerGrows(0) /\ 0 \notin DOMAIN executions
  <2>1. DOMAIN executions \subseteq DOMAIN executions' /\ 0 \notin DOMAIN executions
    BY <1>5
  <2>2. \A x \in DOMAIN executions : buys'[x] >= buys[x]
    BY <1>4
  <2>3. logs' = logs
    BY DEF Executes
  <2> QED BY <1>3, <2>1, <2>2, <2>3 DEF LedgerGrows
<1>9. ExecutionsAreLogged'
  <2>1. ASSUME NEW x \in DOMAIN executions'
        PROVE  executions'[x].status = "Pending" \/ \E l \in logs : l.execution = x
    <3>1. CASE x \in DOMAIN executions
      BY <1>3, <3>1 DEF IInv, ExecutionsAreLogged
    <3>2. CASE x = Len(executions) + 1
      BY <1>3, <1>a, <3>2
    <3> QED BY <1>5, <3>1, <3>2
  <2>2. logs' = logs
    BY DEF Executes
  <2>3. \A l, k \in logs : l.execution = k.execution => l = k
    BY DEF IInv, ExecutionsAreLogged
  <2> QED BY <2>1, <2>2, <2>3 DEF ExecutionsAreLogged
<1> QED BY <1>3, <1>5, <1>6, <1>7, <1>8, <1>9 DEF new

LEMMA ExecuteDCAIInv ==
  ASSUME IInv, NEW t \in Ticks, ExecuteDCA(t)
  PROVE  IInv'
<1>1. ticks[t].step = "execute" /\ BuyFields(ticks[t])
  BY BuyingTick DEF ExecuteDCA, At, Processes
<1> DEFINE e == Len(executions) + 1
           r == [step |-> "swap", todo |-> ticks[t].todo, item |-> ticks[t].item,
                 execution |-> e]
<1>2. CASE /\ Executes(t)
           /\ ticks' = [ticks EXCEPT ![t].step = "swap", ![t].execution = e]
           /\ UNCHANGED locks
  <2>1. ticks' = [ticks EXCEPT ![t] = r]
    <3>1. [ticks EXCEPT ![t].step = "swap", ![t].execution = e]
            = [ticks EXCEPT ![t] = r]
      BY <1>1, TickUpdate, ZenonT(40) DEF IInv
    <3> QED BY <1>2, <3>1, Zenon
  <2>2. TickFits(r, executions', logs')
    <3>1. /\ e \in DOMAIN executions'
          /\ executions'[e].status = "Pending"
          /\ executions'[e].schedule = ticks[t].item.schedule
      <4>1. /\ e \in DOMAIN executions'
            /\ executions'[e] = [schedule |-> ticks[t].item.schedule,
                                 status |-> "Pending", at |-> now]
        BY <1>2, ExecutesKeepsBooks
      <4> HIDE DEF e
      <4> QED BY <4>1
    <3> HIDE DEF e
    <3> QED BY <3>1 DEF TickFits, BuyFields
  <2>3. r.execution \notin DOMAIN executions /\ r.step = "swap" /\ r.item = ticks[t].item
    BY <1>2, ExecutesKeepsBooks
  <2> HIDE DEF r
  <2>4. TicksFit' /\ TradesAreExclusive'
    BY <1>2, <2>1, <2>2, <2>3, ExecutesKeepsBooks, TickGoesOn DEF IInv
  <2>5. LocksHaveHolders'
    BY <1>2, <2>1, <2>3, LocksStay DEF IInv
  <2> QED BY <1>2, <2>4, <2>5, ExecutesKeepsBooks DEF IInv
<1>3. CASE Executes(t) /\ NextSchedule(t)
  <2>1. GoesOn(t, Unlocking(locks, ticks[t].item))
    BY <1>3, NextScheduleGoesOn
  <2>2. TicksFit' /\ TradesAreExclusive' /\ LocksHaveHolders'
    BY <1>3, <2>1, UnlockingLeavesOthers, ExecutesKeepsBooks, LoopGoesOn DEF IInv
  <2> QED BY <1>3, <2>2, ExecutesKeepsBooks DEF IInv
<1>4. CASE UNCHANGED <<ledgerVars, buys>> /\ NextSchedule(t)
  <2>1. GoesOn(t, Unlocking(locks, ticks[t].item))
    BY <1>4, NextScheduleGoesOn
  <2> QED
    BY <1>4, <2>1, UnlockingLeavesOthers, QuietLoop DEF ExecuteDCA, ledgerVars, IInv
<1> QED BY <1>2, <1>3, <1>4 DEF ExecuteDCA, Executes, Active

(* The venues execute a buy any number of times; it is answered, or the    *)
(* tick goes on to the next schedule.                                      *)
LEMMA SwapParts ==
  ASSUME IInv, NEW t \in Ticks, Swap(t)
  PROVE  \E n : /\ n \in Nat /\ buys' = [buys EXCEPT ![ticks[t].execution] = @ + n]
                /\ \/ /\ ticks' = [ticks EXCEPT ![t].step = "complete"]
                      /\ UNCHANGED locks
                   \/ NextSchedule(t)
<1>1. PICK venue \in Venues :
        \/ venue \in mocked /\ UNCHANGED buys /\ Answered(t, "mocked")
        \/ venue \notin mocked /\ VenueSwap(t, venue)
  BY DEF Swap
<1>2. CASE UNCHANGED buys /\ Answered(t, "mocked")
  <2>1. ticks[t].execution \in DOMAIN buys /\ buys \in Seq(Nat)
    BY TradingTick DEF Swap, At, Trades, IInv, LedgerShape
  <2>2. buys[ticks[t].execution] + 0 = buys[ticks[t].execution]
    BY <2>1
  <2>3. buys' = [buys EXCEPT ![ticks[t].execution] = @ + 0]
    BY <1>2, <2>1, <2>2
  <2> QED BY <1>2, <2>3 DEF Answered
<1>3. CASE VenueSwap(t, venue)
  <2>1. SwapAttempts[venue] \in Nat
    BY <1>1, ConstantsAssumption
  <2>2. \A n \in 0..SwapAttempts[venue] : n \in Nat
    BY <2>1
  <2> QED BY <1>3, <2>2 DEF VenueSwap, Answered
<1> QED BY <1>1, <1>2, <1>3

LEMMA SwapIInv ==
  ASSUME IInv, NEW t \in Ticks, Swap(t)
  PROVE  IInv'
<1> DEFINE e == ticks[t].execution
           r == [step |-> "complete", todo |-> ticks[t].todo, item |-> ticks[t].item,
                 execution |-> e]
<1>1. /\ Trades(ticks[t]) /\ BuyFields(ticks[t])
      /\ e \in DOMAIN executions
      /\ executions[e].status = "Pending"
      /\ executions[e].schedule = ticks[t].item.schedule
  BY TradingTick DEF Swap, At, Trades
<1>2. UNCHANGED <<now, executions, logs, lastExecution>>
  BY DEF Swap, ledgerVars
<1>3. PICK n : /\ n \in Nat /\ buys' = [buys EXCEPT ![e] = @ + n]
               /\ \/ ticks' = [ticks EXCEPT ![t].step = "complete"] /\ UNCHANGED locks
                  \/ NextSchedule(t)
  BY SwapParts, Zenon
<1>4. n \in Nat
  BY <1>3
<1>5. DOMAIN buys = DOMAIN executions /\ \A x \in DOMAIN executions : buys[x] \in Nat
  BY DEF IInv, LedgerShape
<1>6. /\ LedgerShape'
      /\ \A x \in DOMAIN executions : buys'[x] >= buys[x]
      /\ buys'[e] = buys[e] + n
  <2>1. buys \in Seq(Nat) /\ e \in DOMAIN buys
    BY <1>1, <1>5 DEF IInv, LedgerShape
  <2>2. buys[e] \in Nat /\ buys[e] + n \in Nat
    BY <1>1, <1>4, <1>5
  <2> HIDE DEF e
  <2>3. buys' = [buys EXCEPT ![e] = buys[e] + n]
    BY <1>3
  <2>4. buys' \in Seq(Nat) /\ Len(buys') = Len(buys)
    BY <2>1, <2>2, <2>3
  <2>5. LedgerShape'
    BY <1>2, <2>4 DEF IInv, LedgerShape
  <2>6. buys'[e] = buys[e] + n
    BY <2>1, <2>3
  <2>7. ASSUME NEW x \in DOMAIN executions PROVE buys'[x] >= buys[x]
    <3>1. CASE x = e
      BY <1>4, <2>2, <2>6, <3>1
    <3>2. CASE x # e
      BY <1>5, <2>1, <2>3, <3>2
    <3> QED BY <3>1, <3>2
  <2> QED BY <2>5, <2>6, <2>7
<1>7. LedgerGrows(e)
  BY <1>2, <1>6 DEF LedgerGrows
<1>8. LogsFit' /\ TimesFit' /\ CacheIsBacked'
  <2>1. LogsFit' /\ TimesFit'
    BY <1>2 DEF IInv, LogsFit, TimesFit
  <2> QED BY <1>2, <2>1 DEF IInv, CacheIsBacked
<1>9. ExecutionsAreLogged'
  BY <1>2 DEF IInv, ExecutionsAreLogged
<1>10. TicksFit' /\ TradesAreExclusive' /\ LocksHaveHolders'
  <2>1. CASE ticks' = [ticks EXCEPT ![t].step = "complete"] /\ UNCHANGED locks
    <3>1. ticks' = [ticks EXCEPT ![t] = r]
      BY <1>1, <2>1, BuyUpdate
    <3>3. TickFits(r, executions', logs')
      BY <1>1, <1>2 DEF TickFits, BuyFields
    <3>4. r.step = "complete" /\ r.item = ticks[t].item /\ r.execution = e
      OBVIOUS
    <3> HIDE DEF r
    <3>5. TicksFit' /\ TradesAreExclusive'
      BY <1>1, <1>6, <1>7, <3>1, <3>3, <3>4, TickGoesOn DEF IInv
    <3>6. LocksHaveHolders'
      BY <2>1, <3>1, <3>4, LocksStay DEF IInv
    <3> QED BY <3>5, <3>6
  <2>2. CASE NextSchedule(t)
    <3>1. GoesOn(t, Unlocking(locks, ticks[t].item))
      BY <2>2, NextScheduleGoesOn
    <3> QED BY <1>1, <1>6, <1>7, <3>1, UnlockingLeavesOthers, LoopGoesOn DEF IInv
  <2> QED BY <1>3, <2>1, <2>2
<1> QED BY <1>6, <1>8, <1>9, <1>10 DEF IInv

(* CompleteDCAExecution commits.                                           *)
Completes(e, s) ==
  /\ executions' = [executions EXCEPT ![e].status = "Archived"]
  /\ logs' = logs \union {[schedule |-> s, execution |-> e, at |-> now]}
  /\ UNCHANGED <<now, buys>>
  /\ lastExecution' = lastExecution \/ lastExecution' = [lastExecution EXCEPT ![s] = now]

LEMMA CompletesKeepsBooks ==
  ASSUME IInv, NEW e \in DOMAIN executions, executions[e].status = "Pending",
         NEW s, Completes(e, s)
  PROVE  /\ LedgerShape' /\ LogsFit' /\ TimesFit' /\ ExecutionsAreLogged' /\ CacheIsBacked'
         /\ LedgerGrows(e)
<1> DEFINE new == [schedule |-> executions[e].schedule, status |-> "Archived",
                   at |-> executions[e].at]
           log == [schedule |-> s, execution |-> e, at |-> now]
<1>1. executions[e] \in Execution
  BY DEF IInv, LedgerShape
<1>2. [executions[e] EXCEPT !.status = "Archived"] = new /\ new \in Execution
  BY <1>1 DEF Execution
<1>3. executions' = [executions EXCEPT ![e] = new]
  BY <1>2 DEF Completes
<1>4. new.status = "Archived"
  OBVIOUS
<1> HIDE DEF new
<1>5. /\ executions' \in Seq(Execution)
      /\ Len(executions') = Len(executions)
      /\ DOMAIN executions' = DOMAIN executions
      /\ executions'[e] = new
      /\ \A x \in DOMAIN executions \ {e} : executions'[x] = executions[x]
  BY <1>2, <1>3 DEF IInv, LedgerShape
<1>6. logs' = logs \union {log} /\ log.execution = e /\ log.at = now /\ log.schedule = s
  BY DEF Completes
<1> HIDE DEF log
<1>7. \A l \in logs : l.execution \in DOMAIN executions \ {e}
  BY DEF IInv, LogsFit
<1>8. LedgerShape' /\ LogsFit'
  BY <1>4, <1>5, <1>6, <1>7 DEF IInv, LedgerShape, LogsFit, Completes
<1>9. \A x \in DOMAIN executions : buys[x] >= buys[x]
  BY DEF IInv, LedgerShape
<1>10. LedgerGrows(e)
  BY <1>5, <1>6, <1>9 DEF LedgerGrows, Completes
<1>11. ExecutionsAreLogged'
  <2>1. \A x \in DOMAIN executions :
          executions'[x].status = "Pending" \/ \E l \in logs' : l.execution = x
    BY <1>5, <1>6 DEF IInv, ExecutionsAreLogged
  <2>2. \A l, k \in logs' : l.execution = k.execution => l = k
    BY <1>6, <1>7 DEF IInv, ExecutionsAreLogged
  <2> QED BY <1>5, <2>1, <2>2 DEF ExecutionsAreLogged
<1>12. now \in Nat /\ now <= now
  BY DEF IInv, TimesFit
<1>13. TimesFit'
  BY <1>6, <1>12 DEF IInv, TimesFit, Completes
<1>14. CacheIsBacked'
  <2>1. ASSUME NEW x \in Schedules, lastExecution'[x] # Never
        PROVE  \E l \in logs' : l.schedule = x /\ l.at <= lastExecution'[x]
    <3>1. CASE lastExecution'[x] = lastExecution[x]
      BY <1>6, <2>1, <3>1 DEF IInv, CacheIsBacked
    <3>2. CASE x = s /\ lastExecution'[x] = now
      BY <1>6, <1>12, <3>2
    <3> QED BY <3>1, <3>2 DEF IInv, TimesFit, Completes
  <2> QED BY <2>1 DEF CacheIsBacked
<1> QED BY <1>8, <1>10, <1>11, <1>13, <1>14

LEMMA CompleteDCAExecutionIInv ==
  ASSUME IInv, NEW t \in Ticks, CompleteDCAExecution(t)
  PROVE  IInv'
<1> DEFINE e == ticks[t].execution
           s == ticks[t].item.schedule
           r == [step |-> "record", todo |-> ticks[t].todo, item |-> ticks[t].item,
                 execution |-> e]
<1>1. /\ Trades(ticks[t]) /\ BuyFields(ticks[t])
      /\ e \in DOMAIN executions
      /\ executions[e].status = "Pending"
  BY TradingTick DEF CompleteDCAExecution, At, Trades
<1>2. CASE /\ Completes(e, s)
           /\ ticks' = [ticks EXCEPT ![t].step = "record"]
           /\ UNCHANGED locks
  <2>1. ticks' = [ticks EXCEPT ![t] = r]
    BY <1>1, <1>2, BuyUpdate
  <2>2. /\ TickFits(r, executions', logs')
        /\ ~Trades(r) /\ r.step = "record" /\ r.item = ticks[t].item
    BY DEF TickFits, BuyFields, Trades
  <2> HIDE DEF r
  <2>3. TicksFit' /\ TradesAreExclusive'
    BY <1>1, <1>2, <2>1, <2>2, CompletesKeepsBooks, TickGoesOn DEF IInv
  <2>4. LocksHaveHolders'
    BY <1>2, <2>1, <2>2, LocksStay DEF IInv
  <2> QED BY <1>1, <1>2, <2>3, <2>4, CompletesKeepsBooks DEF IInv
<1>3. CASE Completes(e, s) /\ NextSchedule(t)
  <2>1. GoesOn(t, Unlocking(locks, ticks[t].item))
    BY <1>3, NextScheduleGoesOn
  <2>2. TicksFit' /\ TradesAreExclusive' /\ LocksHaveHolders'
    BY <1>1, <1>3, <2>1, UnlockingLeavesOthers, CompletesKeepsBooks, LoopGoesOn DEF IInv
  <2> QED BY <1>1, <1>3, <2>2, CompletesKeepsBooks DEF IInv
<1>4. CASE UNCHANGED <<now, ledgerVars, buys, lastExecution>> /\ NextSchedule(t)
  <2>1. GoesOn(t, Unlocking(locks, ticks[t].item))
    BY <1>4, NextScheduleGoesOn
  <2> QED BY <1>4, <2>1, UnlockingLeavesOthers, QuietLoop DEF ledgerVars, IInv
<1> QED BY <1>2, <1>3, <1>4 DEF CompleteDCAExecution, Completes

---------------------------------------------------------------------------
(* The environment.                                                        *)

LEMMA ClockIInv ==
  ASSUME IInv, Clock
  PROVE  IInv'
<1>1. UNCHANGED <<executions, buys, logs, lastExecution, locks, ticks>> /\ now' = now + 1
  BY DEF Clock, ledgerVars, memoryVars
<1>2. TicksFit' /\ TradesAreExclusive' /\ LocksHaveHolders'
  BY <1>1 DEF IInv, TicksFit, TradesAreExclusive, LocksHaveHolders, Processes
<1>3. LedgerShape' /\ LogsFit' /\ ExecutionsAreLogged' /\ CacheIsBacked'
  BY <1>1 DEF IInv, LedgerShape, LogsFit, ExecutionsAreLogged, CacheIsBacked
<1>4. TimesFit'
  BY <1>1 DEF IInv, TimesFit
<1> QED BY <1>2, <1>3, <1>4 DEF IInv

(* What a user does to a schedule leaves the rest alone.                   *)
LEMMA UntouchedIInv ==
  ASSUME IInv, UNCHANGED <<now, executions, buys, logs, lastExecution, locks, ticks>>
  PROVE  IInv'
<1>1. TicksFit' /\ TradesAreExclusive' /\ LocksHaveHolders'
  BY DEF IInv, TicksFit, TradesAreExclusive, LocksHaveHolders, Processes
<1> QED BY <1>1, QuietStep

LEMMA CrashIInv ==
  ASSUME IInv, Crash
  PROVE  IInv'
<1>1. /\ UNCHANGED <<now, executions, buys, logs>>
      /\ lastExecution' = ColdCache
      /\ locks' = {}
      /\ ticks' = [t \in Ticks |-> NoTick]
  BY DEF Crash, ledgerVars
<1>2. TicksFit' /\ TradesAreExclusive'
  BY <1>1, IdleIsNotAtWork DEF TicksFit, TickFits, TradesAreExclusive, Trades
<1>3. LocksHaveHolders' /\ CacheIsBacked'
  BY <1>1 DEF LocksHaveHolders, CacheIsBacked, ColdCache
<1>4. LedgerShape' /\ LogsFit' /\ ExecutionsAreLogged'
  BY <1>1 DEF IInv, LedgerShape, LogsFit, ExecutionsAreLogged
<1>5. TimesFit'
  BY <1>1 DEF IInv, TimesFit, ColdCache, Never
<1> QED BY <1>2, <1>3, <1>4, <1>5 DEF IInv

LEMMA EnvironmentIInv ==
  ASSUME IInv, Environment
  PROVE  IInv'
<1>1. CASE Clock
  BY <1>1, ClockIInv
<1>2. CASE Crash
  BY <1>2, CrashIInv
<1>3. ASSUME NEW s, NEW changed, UserChoice(s, changed) PROVE IInv'
  BY <1>3, UntouchedIInv DEF UserChoice, memoryVars
<1> QED
  BY <1>1, <1>2, <1>3
  DEF Environment, UpdateDCAAmount, CancelDCA, UpdateDCAFrequency, PauseOrResumeDCA

LEMMA NextIInv == IInv /\ [Next]_vars => IInv'
<1> SUFFICES ASSUME IInv, [Next]_vars PROVE IInv'
  OBVIOUS
<1>1. ASSUME NEW t \in Ticks, Step(t) PROVE IInv'
  BY <1>1, StartLoopIInv, HydrateBatchIInv, EndHydrationIInv, ExecuteDCAIInv,
     SwapIInv, CompleteDCAExecutionIInv, RecordIInv DEF Step
<1>2. ASSUME NEW t \in Ticks, Scan(t) PROVE IInv'
  BY <1>2, ScanIInv
<1>3. CASE Environment
  BY <1>3, EnvironmentIInv
<1>4. CASE UNCHANGED vars
  BY <1>4, UntouchedIInv DEF vars
<1> QED BY <1>1, <1>2, <1>3, <1>4 DEF Next

---------------------------------------------------------------------------
(* The answers of the venues.                                              *)

AnswersFit ==
  /\ \A l \in logs : \E a \in answers : a.execution = l.execution
  /\ AnswersAreBacked
  /\ \A t \in Ticks : At(t, "complete") => \E a \in answers : a.execution = ticks[t].execution
  /\ \A t \in Ticks : At(t, "swap") => \A a \in answers : a.execution # ticks[t].execution

BuysGrow ==
  \A x \in DOMAIN buys : x \in DOMAIN buys' /\ buys'[x] >= buys[x]

OthersStay(t) == \A d \in Ticks \ {t} : ticks'[d] = ticks[d]

(* A step that asks no venue: a tick is at most given a new execution, and *)
(* a log is at most that of an execution a tick completes.                 *)
AsksNobody(t) ==
  /\ UNCHANGED clientVars
  /\ BuysGrow
  /\ \A l \in logs' : l \in logs \/ (At(t, "complete") /\ l.execution = ticks[t].execution)
  /\ OthersStay(t)
  /\ \/ ~Trades(ticks'[t])
     \/ ticks'[t].step = "swap" /\ ticks'[t].execution \notin DOMAIN buys

LEMMA StillBacked ==
  ASSUME LedgerShape, LedgerShape', AnswersAreBacked, BuysGrow, NEW a \in answers
  PROVE  /\ a.execution \in DOMAIN buys'
         /\ a.outcome \in {"filled", "partial"} => buys'[a.execution] > 0
         /\ a.outcome = "mocked" => mocked # {}
<1>1. PICK x \in DOMAIN buys : x = a.execution
  BY DEF AnswersAreBacked
<1>2. x \in DOMAIN buys' /\ buys'[x] >= buys[x]
  BY DEF BuysGrow
<1>3. buys[x] \in Nat /\ buys'[x] \in Nat
  BY <1>2 DEF LedgerShape
<1>4. a.outcome \in {"filled", "partial"} => buys[x] > 0
  BY <1>1 DEF AnswersAreBacked
<1> QED BY <1>1, <1>2, <1>3, <1>4 DEF AnswersAreBacked

LEMMA NobodyAnswers ==
  ASSUME LedgerShape, LedgerShape', AnswersFit, NEW t \in Ticks, AsksNobody(t)
  PROVE  AnswersFit'
<1>1. UNCHANGED <<mocked, answers>>
  BY DEF AsksNobody, clientVars
<1>2. AnswersAreBacked'
  BY <1>1, StillBacked DEF AnswersFit, AsksNobody, AnswersAreBacked
<1>3. \A l \in logs' : \E a \in answers' : a.execution = l.execution
  BY <1>1 DEF AnswersFit, AsksNobody
<1>4. ASSUME NEW d \in Ticks, ticks'[d].step = "complete"
      PROVE  \E a \in answers' : a.execution = ticks'[d].execution
  BY <1>1, <1>4 DEF AnswersFit, AsksNobody, OthersStay, Trades, At
<1>5. ASSUME NEW d \in Ticks, ticks'[d].step = "swap", NEW a \in answers'
      PROVE  a.execution # ticks'[d].execution
  <2>1. a.execution \in DOMAIN buys
    BY <1>1 DEF AnswersFit, AnswersAreBacked
  <2> QED BY <1>1, <1>5, <2>1 DEF AnswersFit, AsksNobody, OthersStay, Trades, At
<1> QED BY <1>2, <1>3, <1>4, <1>5 DEF AnswersFit, At

LEMMA NoMoreBuys ==
  ASSUME LedgerShape, UNCHANGED buys
  PROVE  BuysGrow
BY DEF LedgerShape, BuysGrow

(* A tick that goes on to the next schedule gives up its execution.        *)
LEMMA LeavesExecution ==
  ASSUME IInv, NEW t \in Ticks, NEW held, GoesOn(t, held)
  PROVE  OthersStay(t) /\ ~Trades(ticks'[t])
BY IdleIsNotAtWork DEF GoesOn, OthersStay, Trades, IInv, TicksFit

LEMMA StepAsksNobody ==
  ASSUME IInv, NEW t \in Ticks, Step(t), ~Swap(t)
  PROVE  AsksNobody(t)
<1>1. UNCHANGED clientVars
  BY DEF Step, StartLoop, HydrateBatch, EndHydration, ExecuteDCA, CompleteDCAExecution,
         Record
<1>2. UNCHANGED buys => BuysGrow
  BY NoMoreBuys DEF IInv
<1>3. ASSUME UNCHANGED <<buys, logs>>, OthersStay(t), ~Trades(ticks'[t])
      PROVE  AsksNobody(t)
  BY <1>1, <1>2, <1>3 DEF AsksNobody
<1>4. ASSUME NEW r, ticks' = [ticks EXCEPT ![t] = r]
      PROVE  OthersStay(t) /\ ticks'[t] = r
  BY <1>4 DEF OthersStay, IInv, TicksFit
<1>5. CASE StartLoop(t) \/ EndHydration(t)
  <2>1. UNCHANGED <<buys, logs>>
    BY <1>5 DEF StartLoop, EndHydration, ledgerVars
  <2>2. ASSUME NEW todo, NEW held, NEW last, Proceed(t, todo, held, last)
        PROVE  AsksNobody(t)
    BY <1>3, <2>1, <2>2, ProceedGoesOn, LeavesExecution
  <2>3. ASSUME NEW r, ticks' = [ticks EXCEPT ![t] = r], ~Trades(r)
        PROVE  AsksNobody(t)
    BY <1>3, <1>4, <2>1, <2>3
  <2>4. ~Trades([step |-> "hydrate", todo |-> ticks[t].todo, unread |-> logs])
    BY DEF Trades
  <2>5. ~Trades(NoTick)
    BY IdleIsNotAtWork DEF Trades
  <2> QED BY <1>5, <2>2, <2>3, <2>4, <2>5 DEF StartLoop, EndHydration
<1>6. CASE HydrateBatch(t)
  <2>1. OthersStay(t) /\ ticks'[t].step = "hydrate"
    <3>1. PICK batch : ticks' = [ticks EXCEPT ![t].unread = @ \ batch]
      BY <1>6 DEF HydrateBatch
    <3>2. ticks[t] = [step |-> "hydrate", todo |-> ticks[t].todo, unread |-> ticks[t].unread]
      BY <1>6, IdleIsNotAtWork DEF HydrateBatch, At, IInv, TicksFit, TickFits, BuyFields
    <3> DEFINE unread == ticks[t].unread \ batch
               r == [step |-> "hydrate", todo |-> ticks[t].todo, unread |-> unread]
    <3>3. ticks' = [ticks EXCEPT ![t] = [ticks[t] EXCEPT !.unread = unread]]
      BY <3>1
    <3>4. [ticks[t] EXCEPT !.unread = unread] = r
      BY <3>2
    <3>5. r.step = "hydrate"
      OBVIOUS
    <3> HIDE DEF r, unread
    <3> QED BY <1>4, <3>3, <3>4, <3>5
  <2> QED BY <1>3, <1>6, <2>1 DEF HydrateBatch, ledgerVars, Trades
<1>7. CASE ExecuteDCA(t)
  <2>1. ASSUME NextSchedule(t)
        PROVE  OthersStay(t) /\ ~Trades(ticks'[t])
    BY <2>1, NextScheduleGoesOn, LeavesExecution
  <2>2. UNCHANGED logs
    BY <1>7 DEF ExecuteDCA, ledgerVars
  <2>3. BuysGrow
    <3>1. CASE buys' = Append(buys, 0)
      <4>1. \A x \in DOMAIN buys : x \in DOMAIN buys' /\ buys'[x] = buys[x] /\ buys[x] \in Nat
        BY <3>1 DEF IInv, LedgerShape
      <4> QED BY <4>1 DEF BuysGrow
    <3> QED BY <1>2, <1>7, <3>1 DEF ExecuteDCA
  <2>4. ASSUME ticks' = [ticks EXCEPT ![t].step = "swap", ![t].execution = Len(executions) + 1]
        PROVE  /\ OthersStay(t)
               /\ ticks'[t].step = "swap" /\ ticks'[t].execution \notin DOMAIN buys
    <3> DEFINE e == Len(executions) + 1
               r == [step |-> "swap", todo |-> ticks[t].todo, item |-> ticks[t].item,
                     execution |-> e]
    <3>1. BuyFields(ticks[t])
      BY <1>7, BuyingTick DEF ExecuteDCA, At, Processes
    <3>2. [ticks EXCEPT ![t].step = "swap", ![t].execution = e] = [ticks EXCEPT ![t] = r]
      BY <3>1, TickUpdate, ZenonT(40) DEF IInv
    <3>3. e \notin DOMAIN buys
      BY DEF IInv, LedgerShape
    <3> HIDE DEF e
    <3>4. r.step = "swap" /\ r.execution = e
      OBVIOUS
    <3> HIDE DEF r
    <3>5. ticks' = [ticks EXCEPT ![t] = r]
      BY <2>4, <3>2 DEF e
    <3> QED BY <1>4, <3>3, <3>4, <3>5
  <2>5. \/ OthersStay(t) /\ ~Trades(ticks'[t])
        \/ /\ OthersStay(t)
           /\ ticks'[t].step = "swap" /\ ticks'[t].execution \notin DOMAIN buys
    BY <1>7, <2>1, <2>4 DEF ExecuteDCA
  <2> QED BY <1>1, <2>2, <2>3, <2>5 DEF AsksNobody
<1>8. CASE CompleteDCAExecution(t)
  <2>1. UNCHANGED buys /\ At(t, "complete")
    BY <1>8 DEF CompleteDCAExecution
  <2>2. \A l \in logs' : l \in logs \/ l.execution = ticks[t].execution
    BY <1>8 DEF CompleteDCAExecution, ledgerVars
  <2>3. ASSUME NextSchedule(t)
        PROVE  OthersStay(t) /\ ~Trades(ticks'[t])
    BY <2>3, NextScheduleGoesOn, LeavesExecution
  <2>4. ASSUME ticks' = [ticks EXCEPT ![t].step = "record"]
        PROVE  OthersStay(t) /\ ~Trades(ticks'[t])
    <3>1. BuyFields(ticks[t])
      BY <2>1, BuyingTick DEF At, Processes
    <3> DEFINE r == [step |-> "record", todo |-> ticks[t].todo, item |-> ticks[t].item,
                     execution |-> ticks[t].execution]
    <3>2. ticks' = [ticks EXCEPT ![t] = r]
      BY <2>4, <3>1, BuyUpdate
    <3>3. ~Trades(r)
      BY DEF Trades
    <3> HIDE DEF r
    <3> QED BY <1>4, <3>2, <3>3
  <2>5. OthersStay(t) /\ ~Trades(ticks'[t])
    BY <1>8, <2>3, <2>4 DEF CompleteDCAExecution
  <2> QED BY <1>1, <1>2, <2>1, <2>2, <2>5 DEF AsksNobody
<1>9. CASE Record(t)
  BY <1>3, <1>9, NextScheduleGoesOn, LeavesExecution DEF Record, ledgerVars
<1> QED BY <1>5, <1>6, <1>7, <1>8, <1>9 DEF Step

(* A venue answers the execution the tick buys for, or the tick goes on.   *)
LEMMA SwapAnswers ==
  ASSUME IInv, IInv', AnswersFit, NEW t \in Ticks, Swap(t)
  PROVE  AnswersFit'
<1> DEFINE e == ticks[t].execution
           r == [step |-> "complete", todo |-> ticks[t].todo, item |-> ticks[t].item,
                 execution |-> e]
<1>1. /\ Trades(ticks[t]) /\ BuyFields(ticks[t]) /\ ticks[t].step = "swap"
      /\ e \in DOMAIN buys
  BY TradingTick DEF Swap, At, Trades, IInv, LedgerShape
<1>2. UNCHANGED <<mocked, logs>>
  BY DEF Swap, ledgerVars
<1>3. \A x \in DOMAIN buys : buys[x] \in Nat
  BY DEF IInv, LedgerShape
<1>4. ASSUME NEW n \in Nat, buys' = [buys EXCEPT ![e] = @ + n]
      PROVE  BuysGrow /\ buys'[e] = buys[e] + n
  <2>1. buys'[e] = buys[e] + n /\ DOMAIN buys' = DOMAIN buys
    BY <1>1, <1>4 DEF IInv, LedgerShape
  <2>2. \A x \in DOMAIN buys : x # e => buys'[x] = buys[x]
    BY <1>1, <1>4 DEF IInv, LedgerShape
  <2> HIDE DEF e
  <2> QED BY <1>1, <1>3, <2>1, <2>2 DEF BuysGrow
<1>5. ASSUME BuysGrow, UNCHANGED answers, NextSchedule(t)
      PROVE  AnswersFit'
  <2>1. OthersStay(t) /\ ~Trades(ticks'[t])
    BY <1>5, NextScheduleGoesOn, LeavesExecution
  <2> QED BY <1>2, <1>5, <2>1, NobodyAnswers DEF AsksNobody, clientVars, IInv
<1>6. ASSUME NEW o, Answered(t, o), BuysGrow,
             o \in {"filled", "partial"} => buys'[e] > 0,
             o = "mocked" => mocked # {}
      PROVE  AnswersFit'
  <2> DEFINE new == [execution |-> e, outcome |-> o]
  <2>1. answers' = answers \union {new}
    BY <1>6, Zenon DEF Answered
  <2>2. OthersStay(t) /\ ticks'[t] = r
    <3>1. ticks' = [ticks EXCEPT ![t] = r]
      BY <1>1, <1>6, BuyUpdate DEF Answered
    <3> HIDE DEF r
    <3> QED BY <3>1 DEF OthersStay, IInv, TicksFit
  <2>3. r.step = "complete" /\ r.execution = e /\ new.execution = e /\ new.outcome = o
    OBVIOUS
  <2>4. \A a \in answers : a.execution # e
    BY <1>1 DEF AnswersFit, At
  <2>5. \A d \in Ticks \ {t} : Trades(ticks[d]) => ticks[d].execution # e
    BY <1>1 DEF IInv, TradesAreExclusive
  <2> HIDE DEF new, r
  <2>6. AnswersAreBacked'
    <3>1. \A a \in answers : /\ a.execution \in DOMAIN buys'
                             /\ a.outcome \in {"filled", "partial"} => buys'[a.execution] > 0
                             /\ a.outcome = "mocked" => mocked # {}
      BY <1>6, StillBacked DEF AnswersFit, IInv
    <3>2. e \in DOMAIN buys'
      BY <1>1, <1>6 DEF BuysGrow
    <3>3. /\ new.execution \in DOMAIN buys'
          /\ new.outcome \in {"filled", "partial"} => buys'[new.execution] > 0
          /\ new.outcome = "mocked" => mocked # {}
      BY <1>6, <2>3, <3>2
    <3>4. \A a, b \in answers' : a.execution = b.execution => a = b
      BY <2>1, <2>3, <2>4 DEF AnswersFit, AnswersAreBacked
    <3> HIDE DEF e
    <3> QED BY <1>2, <2>1, <3>1, <3>3, <3>4 DEF AnswersAreBacked
  <2>7. ASSUME NEW d \in Ticks, ticks'[d].step = "complete"
        PROVE  \E a \in answers' : a.execution = ticks'[d].execution
    BY <2>1, <2>2, <2>3, <2>7 DEF AnswersFit, OthersStay, At
  <2>8. ASSUME NEW d \in Ticks, ticks'[d].step = "swap", NEW a \in answers'
        PROVE  a.execution # ticks'[d].execution
    <3>1. d # t /\ ticks'[d] = ticks[d]
      BY <2>2, <2>3, <2>8 DEF OthersStay
    <3> QED BY <2>1, <2>3, <2>5, <2>8, <3>1 DEF AnswersFit, At, Trades
  <2>9. \A l \in logs' : \E a \in answers' : a.execution = l.execution
    BY <1>2, <2>1 DEF AnswersFit
  <2> QED BY <2>6, <2>7, <2>8, <2>9 DEF AnswersFit, At
<1>7. PICK venue \in Venues :
        \/ venue \in mocked /\ UNCHANGED buys /\ Answered(t, "mocked")
        \/ venue \notin mocked /\ VenueSwap(t, venue)
  BY DEF Swap
<1>8. CASE venue \in mocked /\ UNCHANGED buys /\ Answered(t, "mocked")
  <2>1. BuysGrow
    BY <1>8, NoMoreBuys DEF IInv
  <2> QED BY <1>6, <1>8, <2>1
<1>9. CASE VenueSwap(t, venue)
  <2>1. SwapAttempts[venue] \in Nat
    BY <1>7, ConstantsAssumption
  <2>2. PICK n \in 0..SwapAttempts[venue] :
          /\ buys' = [buys EXCEPT ![e] = @ + n]
          /\ \/ \E o \in MayAnswer(venue, n) : Answered(t, o)
             \/ NextSchedule(t) /\ UNCHANGED <<answers, envSteps>>
    BY <1>9, Zenon DEF VenueSwap
  <2>3. n \in Nat
    BY <2>1, <2>2
  <2>4. BuysGrow /\ buys'[e] = buys[e] + n /\ buys[e] \in Nat
    BY <1>1, <1>3, <1>4, <2>2, <2>3
  <2>5. ASSUME NEW o \in MayAnswer(venue, n), Answered(t, o)
        PROVE  AnswersFit'
    <3>1. o \in {"filled", "partial"} => n > 0
      BY DEF MayAnswer
    <3>2. o # "mocked"
      BY DEF MayAnswer
    <3> HIDE DEF e
    <3>3. o \in {"filled", "partial"} => buys'[e] > 0
      BY <2>3, <2>4, <3>1
    <3> QED BY <1>6, <2>4, <2>5, <3>2, <3>3
  <2> QED BY <1>5, <2>2, <2>4, <2>5
<1> QED BY <1>7, <1>8, <1>9

LEMMA InitAnswersFit == Init => AnswersFit
BY IdleIsNotAtWork DEF Init, AnswersFit, AnswersAreBacked, At

LEMMA NextAnswersFit == IInv /\ AnswersFit /\ [Next]_vars => AnswersFit'
<1> SUFFICES ASSUME IInv, AnswersFit, [Next]_vars PROVE AnswersFit'
  OBVIOUS
<1>1. IInv'
  BY NextIInv
<1>2. ASSUME NEW t \in Ticks, Step(t) PROVE AnswersFit'
  BY <1>1, <1>2, StepAsksNobody, NobodyAnswers, SwapAnswers DEF IInv
<1>3. ASSUME NEW t \in Ticks, Scan(t) PROVE AnswersFit'
  <2>1. PICK r : ticks' = [ticks EXCEPT ![t] = r] /\ ~Trades(r)
    <3>1. PICK todo : ticks' = [ticks EXCEPT ![t] = [step |-> "scanned", todo |-> todo]]
      BY <1>3 DEF Scan
    <3> DEFINE r == [step |-> "scanned", todo |-> todo]
    <3>2. ~Trades(r)
      BY DEF Trades
    <3> HIDE DEF r
    <3> QED BY <3>1, <3>2 DEF r
  <2>2. OthersStay(t) /\ ~Trades(ticks'[t])
    BY <2>1 DEF OthersStay, IInv, TicksFit
  <2>3. UNCHANGED <<clientVars, buys, logs>>
    BY <1>3 DEF Scan, ledgerVars
  <2> QED BY <1>1, <2>2, <2>3, NoMoreBuys, NobodyAnswers DEF AsksNobody, IInv
<1>4. ASSUME UNCHANGED <<mocked, answers, buys, logs>>,
             \A d \in Ticks : ticks'[d] = ticks[d] \/ ticks'[d] = NoTick
      PROVE  AnswersFit'
  BY <1>4, IdleIsNotAtWork DEF AnswersFit, AnswersAreBacked, At
<1>5. CASE Environment
  BY <1>4, <1>5
  DEF Environment, Clock, Crash, UserChoice, UpdateDCAAmount, CancelDCA,
      UpdateDCAFrequency, PauseOrResumeDCA, clientVars, ledgerVars
<1>6. CASE UNCHANGED vars
  BY <1>4, <1>6 DEF vars
<1> QED BY <1>2, <1>3, <1>5, <1>6 DEF Next

(* Whatever overlapping ticks, failures, restarts and changes of the       *)
(* schedules do: two ticks never work on one execution, every execution is *)
(* Pending or logged once, and only if a venue answered it; an answer has  *)
(* a buy behind it unless it is a rejection or a mocked client's; no lock  *)
(* survives its holder, and the cache never holds a schedule back for a    *)
(* buy that is not on the ledger (executeDueSchedules).                    *)
THEOREM ExecutionsStaySound == Spec => []ExecutionsAreSound
<1>1. Init => IInv /\ AnswersFit
  BY InitIInv, InitAnswersFit
<1>2. IInv /\ AnswersFit /\ [Next]_vars => IInv' /\ AnswersFit'
  BY NextIInv, NextAnswersFit
<1>3. IInv /\ AnswersFit => ExecutionsAreSound
  BY IInvIsExclusive
  DEF IInv, ExecutionsAreLogged, AnswersFit, BuysAreAccountedFor, ExecutionsAreSound
<1> QED BY <1>1, <1>2, <1>3, PTL DEF Spec

---------------------------------------------------------------------------
(* Types, and the spacing of buys: what needs the contracts of the         *)
(* schedules and what a tick has yet to do.                                *)

Lock == [schedule : Schedules, cid : Nat, at : 0..now]

Tick == {NoTick} \union Reading \union Hydrating \union Buying

(* The loop of t ends, or goes on with the schedule at a place next that   *)
(* is due.                                                                 *)
LEMMA ProceedPicks ==
  ASSUME NEW t, NEW todo \in Seq(Item), NEW held, NEW last,
         Proceed(t, todo, held, last)
  PROVE  \/ ticks' = [ticks EXCEPT ![t] = NoTick] /\ locks' = held
         \/ \E next \in 1..Len(todo) :
              /\ IsDue(last, todo[next])
              /\ locks' = Locking(held, todo[next])
              /\ ticks' = [ticks EXCEPT ![t] =
                             [step |-> "execute", item |-> todo[next], execution |-> 0,
                              todo |-> SubSeq(todo, next + 1, Len(todo))]]
<1> DEFINE ready == {i \in DOMAIN todo : ~LockedBy(held, todo[i]) /\ IsDue(last, todo[i])}
           next  == Min(ready)
<1>1. CASE ready = {}
  BY <1>1 DEF Proceed
<1>2. CASE ready # {}
  <2>1. ready \in SUBSET Nat
    OBVIOUS
  <2>2. next \in ready
    <3> HIDE DEF ready
    <3> QED BY <1>2, <2>1, LeastNatural DEF Min
  <2>3. /\ next \in 1..Len(todo)
        /\ IsDue(last, todo[next])
    BY <2>2
  <2>4. /\ locks' = Locking(held, todo[next])
        /\ ticks' = [ticks EXCEPT ![t] =
                       [step |-> "execute", item |-> todo[next], execution |-> 0,
                        todo |-> SubSeq(todo, next + 1, Len(todo))]]
    BY <1>2 DEF Proceed
  <2> QED BY <2>3, <2>4
<1> QED BY <1>1, <1>2

(* What is left of a list of items.                                        *)
LEMMA RestOfTodo ==
  ASSUME NEW S, NEW todo \in Seq(S), NEW next \in 1..Len(todo)
  PROVE  /\ todo[next] \in S
         /\ SubSeq(todo, next + 1, Len(todo)) \in Seq(S)
<1>1. /\ next + 1 \in Int /\ Len(todo) \in Int
      /\ \A i \in (next + 1)..Len(todo) : todo[i] \in S
  OBVIOUS
<1> QED BY <1>1, SubSeqProperties

(* The items a scan may read: those of the contracts.                      *)
ItemOf(s) ==
  [schedule |-> s, cid |-> schedules[s].cid, interval |-> schedules[s].interval,
   created |-> schedules[s].created]

LEMMA ScanReads ==
  ASSUME NEW t, Scan(t)
  PROVE  \E todo \in Seq({ItemOf(s) : s \in Active}) :
           ticks' = [ticks EXCEPT ![t] = [step |-> "scanned", todo |-> todo]]
<1>1. IsFiniteSet(Active)
  BY ConstantsAssumption, FS_Subset DEF Active
<1>2. Cardinality(Active) \in Nat
  BY <1>1, FS_CardinalityType
<1>3. PICK order \in SetToSeqs(Active) :
        ticks' = [ticks EXCEPT ![t] =
         [step |-> "scanned",
          todo |-> [i \in DOMAIN order |->
                      [schedule |-> order[i], cid |-> schedules[order[i]].cid,
                       interval |-> schedules[order[i]].interval,
                       created  |-> schedules[order[i]].created]]]]
  BY DEF Scan
<1>4. order \in [1..Cardinality(Active) -> Active]
  BY <1>3 DEF SetToSeqs
<1> DEFINE todo == [i \in 1..Cardinality(Active) |-> ItemOf(order[i])]
<1>5. todo \in Seq({ItemOf(s) : s \in Active})
  <2>1. \A i \in 1..Cardinality(Active) : ItemOf(order[i]) \in {ItemOf(s) : s \in Active}
    BY <1>4
  <2> QED BY <1>2, <2>1
<1>6. ticks' = [ticks EXCEPT ![t] = [step |-> "scanned", todo |-> todo]]
  BY <1>3, <1>4 DEF ItemOf
<1> QED BY <1>5, <1>6

---------------------------------------------------------------------------
(* Type correctness.                                                       *)

LEMMA LoopTypes ==
  ASSUME TypeOK, now' = now, NEW t \in Ticks, NEW todo \in Seq(Item),
         NEW held \in SUBSET Lock, NEW last, Proceed(t, todo, held, last)
  PROVE  ticks' \in [Ticks -> Tick] /\ locks' \subseteq Lock
<1>1. ticks \in [Ticks -> Tick]
  BY DEF TypeOK, Tick
<1>2. CASE ticks' = [ticks EXCEPT ![t] = NoTick] /\ locks' = held
  BY <1>1, <1>2 DEF Tick
<1>3. CASE ~(ticks' = [ticks EXCEPT ![t] = NoTick] /\ locks' = held)
  <2>0. PICK next \in 1..Len(todo) :
          /\ locks' = Locking(held, todo[next])
          /\ ticks' = [ticks EXCEPT ![t] =
                         [step |-> "execute", item |-> todo[next], execution |-> 0,
                          todo |-> SubSeq(todo, next + 1, Len(todo))]]
    BY <1>3, ProceedPicks
  <2> DEFINE rest == SubSeq(todo, next + 1, Len(todo))
             r    == [step |-> "execute", item |-> todo[next], execution |-> 0,
                      todo |-> rest]
  <2>1. todo[next] \in Item /\ rest \in Seq(Item)
    BY RestOfTodo
  <2>2. ticks' = [ticks EXCEPT ![t] = r]
    BY <2>0
  <2>3. r \in Tick
    <3> HIDE DEF rest
    <3> QED BY <2>1 DEF Tick, Buying
  <2>4. [schedule |-> todo[next].schedule, cid |-> todo[next].cid, at |-> now] \in Lock
    BY <2>1 DEF Item, Lock, TypeOK
  <2> HIDE DEF r, rest
  <2>5. ticks' \in [Ticks -> Tick]
    BY <1>1, <2>2, <2>3
  <2>6. locks' \subseteq Lock
    BY <2>0, <2>4 DEF Locking
  <2> QED BY <2>5, <2>6
<1> QED BY <1>2, <1>3

LEMMA UnlockedTypes ==
  ASSUME TypeOK, NEW x
  PROVE  Unlocking(locks, x) \in SUBSET Lock
BY DEF TypeOK, Unlocking, Lock

(* A tick has its list of items; one that buys has an item as well.        *)
LEMMA TickTypes ==
  ASSUME TypeOK, NEW t \in Ticks
  PROVE  /\ ~Idle(t) => ticks[t].todo \in Seq(Item)
         /\ At(t, "hydrate") => ticks[t] \in Hydrating
         /\ Processes(t) => ticks[t] \in Buying
<1>1. ticks[t] \in Tick
  BY DEF TypeOK, Tick
<1> QED
  BY <1>1, IdleIsNotAtWork
  DEF Tick, Reading, Hydrating, Buying, Idle, At, Processes

LEMMA NextScheduleTypes ==
  ASSUME TypeOK, now' = now, NEW t \in Ticks, Processes(t), NextSchedule(t)
  PROVE  ticks' \in [Ticks -> Tick] /\ locks' \subseteq Lock
<1>1. ticks[t].todo \in Seq(Item)
  BY TickTypes, IdleIsNotAtWork DEF Processes, Idle
<1> QED BY <1>1, UnlockedTypes, LoopTypes DEF NextSchedule

LEMMA TypesOfTick ==
  ASSUME TypeOK, NEW t \in Ticks, NEW r \in Tick, ticks' = [ticks EXCEPT ![t] = r]
  PROVE  ticks' \in [Ticks -> Tick]
BY DEF TypeOK, Tick

(* The parts of TypeOK, for a step of a tick: what it leaves alone, what   *)
(* the loop gives, and the ledger.                                         *)
LedgerTypes ==
  /\ schedules \in [Schedules -> ScheduleContract]
  /\ executions \in Seq(Execution)
  /\ buys \in Seq(Nat)
  /\ Len(buys) = Len(executions)
  /\ logs \subseteq Log
  /\ mocked \subseteq Venues
  /\ answers \subseteq Answer
  /\ lastExecution \in [Schedules -> Nat \union {Never}]
  /\ acknowledged \subseteq DOMAIN executions

LEMMA TypeOKIsParts ==
  TypeOK <=> /\ now \in 0..MaxTime
             /\ LedgerTypes
             /\ locks \subseteq Lock
             /\ ticks \in [Ticks -> Tick]
             /\ calm \in BOOLEAN
             /\ envSteps \in 0..MaxEnvSteps
BY DEF TypeOK, LedgerTypes, Lock, Tick

LEMMA TypePartsStep ==
  ASSUME TypeOK, UNCHANGED <<now, calm>>, envSteps' \in 0..MaxEnvSteps,
         ticks' \in [Ticks -> Tick], locks' \subseteq Lock, LedgerTypes'
  PROVE  TypeOK'
<1>1. Tick' = Tick /\ Lock' = Lock
  BY DEF Tick, Lock, Reading, Hydrating, Buying, Item, Log, NoTick
<1>2. ticks' \in [Ticks -> Tick'] /\ locks' \subseteq Lock'
  BY <1>1
<1>3. now' \in 0..MaxTime /\ calm' \in BOOLEAN /\ envSteps' \in 0..MaxEnvSteps
  BY DEF TypeOK
<1> QED BY <1>2, <1>3 DEF TypeOK, LedgerTypes, Lock, Tick

LEMMA TickTypeStep ==
  ASSUME TypeOK, UNCHANGED <<now, calm, envSteps>>,
         ticks' \in [Ticks -> Tick], locks' \subseteq Lock, LedgerTypes'
  PROVE  TypeOK'
BY TypePartsStep DEF TypeOK

LEMMA InitTypeOK == Init => TypeOK
<1> SUFFICES ASSUME Init PROVE TypeOK
  OBVIOUS
<1>1. schedules \in [Schedules -> ScheduleContract]
  <2> DEFINE New == [cid : {0}, active : {TRUE}, archived : {FALSE},
                     interval : Intervals, created : {0}, total : {0}]
  <2>1. ASSUME NEW x \in New PROVE x \in ScheduleContract
    <3>1. /\ x = [cid |-> x.cid, active |-> x.active, archived |-> x.archived,
                  interval |-> x.interval, created |-> x.created, total |-> x.total]
          /\ x.cid = 0 /\ x.active = TRUE /\ x.archived = FALSE
          /\ x.interval \in Intervals /\ x.created = 0 /\ x.total = 0
      BY <2>1
    <3>2. x.cid \in Nat /\ x.created \in Nat /\ x.total \in Nat
      BY <3>1
    <3>3. x.active \in BOOLEAN /\ x.archived \in BOOLEAN
      BY <3>1, Zenon
    <3> QED BY <3>1, <3>2, <3>3 DEF ScheduleContract
  <2>2. schedules \in [Schedules -> New]
    BY DEF Init
  <2> HIDE DEF New
  <2> QED BY <2>1, <2>2
<1>2. lastExecution \in [Schedules -> Nat \union {Never}]
  BY DEF Init, ColdCache
<1>3. now \in 0..MaxTime /\ envSteps \in 0..MaxEnvSteps /\ calm \in BOOLEAN
  BY ConstantsAssumption DEF Init
<1>4. /\ executions \in Seq(Execution) /\ buys \in Seq(Nat)
      /\ Len(buys) = Len(executions) /\ logs \subseteq Log /\ locks \subseteq Lock
      /\ acknowledged \subseteq DOMAIN executions
      /\ mocked \subseteq Venues /\ answers \subseteq Answer
  BY ConstantsAssumption DEF Init
<1>5. ticks \in [Ticks -> Tick]
  BY DEF Init, Tick
<1> QED BY <1>1, <1>2, <1>3, <1>4, <1>5 DEF TypeOK, Lock, Tick

LEMMA ScanTypes ==
  ASSUME TypeOK, NEW t \in Ticks, Scan(t)
  PROVE  TypeOK'
<1>1. PICK todo \in Seq({ItemOf(s) : s \in Active}) :
        ticks' = [ticks EXCEPT ![t] = [step |-> "scanned", todo |-> todo]]
  BY ScanReads
<1> DEFINE r == [step |-> "scanned", todo |-> todo]
<1>2. {ItemOf(s) : s \in Active} \subseteq Item
  BY DEF Active, ItemOf, TypeOK, ScheduleContract, Item
<1>3. todo \in Seq(Item)
  <2> DEFINE I == {ItemOf(s) : s \in Active}
  <2>1. I \subseteq Item /\ todo \in Seq(I)
    BY <1>2
  <2> HIDE DEF I
  <2> QED BY <2>1
<1>4. r \in Tick
  BY <1>3 DEF Tick, Reading
<1> HIDE DEF r
<1>5. ticks' \in [Ticks -> Tick]
  BY <1>1, <1>4, TypesOfTick DEF r
<1>6. locks' \subseteq Lock /\ LedgerTypes'
  BY DEF Scan, ledgerVars, clientVars, memoryVars, TypeOK, LedgerTypes, Lock
<1> QED BY <1>5, <1>6, TickTypeStep DEF Scan

LEMMA SameLedgerTypes ==
  ASSUME TypeOK,
         UNCHANGED <<schedules, executions, buys, logs, lastExecution, acknowledged>>,
         UNCHANGED clientVars
  PROVE  LedgerTypes'
BY DEF TypeOK, LedgerTypes, clientVars

LEMMA StartLoopTypes ==
  ASSUME TypeOK, NEW t \in Ticks, StartLoop(t)
  PROVE  TypeOK'
<1>1. ticks[t].todo \in Seq(Item)
  BY TickTypes, IdleIsNotAtWork DEF StartLoop, At, Idle
<1>2. LedgerTypes'
  BY SameLedgerTypes DEF StartLoop, ledgerVars
<1> DEFINE r == [step |-> "hydrate", todo |-> ticks[t].todo, unread |-> logs]
<1>3. CASE ticks' = [ticks EXCEPT ![t] = r] /\ UNCHANGED locks
  <2>1. r \in Tick
    BY <1>1 DEF Tick, Hydrating, TypeOK
  <2> HIDE DEF r
  <2>2. ticks' \in [Ticks -> Tick]
    BY <1>3, <2>1, TypesOfTick
  <2>3. locks' \subseteq Lock
    BY <1>3 DEF TypeOK, Lock
  <2> QED BY <1>2, <2>2, <2>3, TickTypeStep DEF StartLoop
<1>4. CASE Proceed(t, ticks[t].todo, locks, lastExecution)
  <2>1. locks \in SUBSET Lock
    BY DEF TypeOK, Lock
  <2> QED BY <1>1, <1>2, <1>4, <2>1, LoopTypes, TickTypeStep DEF StartLoop
<1> QED BY <1>3, <1>4 DEF StartLoop

(* What reading a batch makes of the cache.                                *)
LEMMA HydrateRaises ==
  ASSUME IInv, NEW t \in Ticks, HydrateBatch(t), NEW s \in Schedules
  PROVE  /\ lastExecution'[s] >= lastExecution[s]
         /\ lastExecution'[s] = lastExecution[s] \/ lastExecution'[s] \in 0..now
<1>1. ticks[t].unread \subseteq logs
  BY IdleIsNotAtWork DEF IInv, TicksFit, TickFits, HydrateBatch, At, BuyFields
<1>2. PICK batch \in SUBSET ticks[t].unread :
        lastExecution' = [x \in Schedules |->
             Max({lastExecution[x]} \union {l.at : l \in {k \in batch : k.schedule = x}})]
  BY DEF HydrateBatch
<1> DEFINE Seen == {lastExecution[s]}
                     \union {l.at : l \in {k \in batch : k.schedule = s}}
<1>3. Seen \in SUBSET Int /\ Seen # {} /\ \A y \in Seen : y <= now
  BY <1>1 DEF IInv, TimesFit
<1>4. now \in Int
  BY DEF IInv, TimesFit
<1>5. lastExecution'[s] = Max(Seen) /\ lastExecution[s] \in Seen
  BY <1>2
<1>6. \A y \in Seen : y = lastExecution[s] \/ y \in 0..now
  BY <1>1 DEF IInv, TimesFit
<1> HIDE DEF Seen
<1>7. Max(Seen) \in Seen /\ \A y \in Seen : Max(Seen) >= y
  BY <1>3, <1>4, MaxIn
<1> QED BY <1>5, <1>6, <1>7

LEMMA UnreadUpdate ==
  ASSUME NEW r, r = [step |-> "hydrate", todo |-> r.todo, unread |-> r.unread],
         NEW unread
  PROVE  [r EXCEPT !.unread = unread]
           = [step |-> "hydrate", todo |-> r.todo, unread |-> unread]
OBVIOUS

(* A cached time is a number, also when there is none.                     *)
LEMMA CachedTime ==
  ASSUME NEW cache \in [Schedules -> Nat \union {Never}], NEW s \in Schedules
  PROVE  cache[s] \in Int
BY DEF Never

LEMMA HydrateBatchTypes ==
  ASSUME IInv, TypeOK, NEW t \in Ticks, HydrateBatch(t)
  PROVE  TypeOK'
<1>1. PICK batch : ticks' = [ticks EXCEPT ![t].unread = @ \ batch]
  BY DEF HydrateBatch
<1>2. ticks[t] \in Hydrating
  BY TickTypes DEF HydrateBatch
<1> DEFINE r == [step |-> "hydrate", todo |-> ticks[t].todo,
                 unread |-> ticks[t].unread \ batch]
<1>3. [ticks[t] EXCEPT !.unread = ticks[t].unread \ batch] = r /\ r \in Hydrating
  <2>1. /\ ticks[t] = [step |-> "hydrate", todo |-> ticks[t].todo,
                       unread |-> ticks[t].unread]
        /\ ticks[t].todo \in Seq(Item) /\ ticks[t].unread \subseteq Log
    BY <1>2 DEF Hydrating
  <2>2. [ticks[t] EXCEPT !.unread = ticks[t].unread \ batch] = r
    BY <2>1, UnreadUpdate
  <2>3. r \in Hydrating
    BY <2>1 DEF Hydrating
  <2> QED BY <2>2, <2>3
<1>4. ticks' = [ticks EXCEPT ![t] = r] /\ r \in Tick
  BY <1>1, <1>3 DEF Tick
<1> HIDE DEF r
<1>5. ticks' \in [Ticks -> Tick]
  BY <1>4, TypesOfTick
<1>6. lastExecution' \in [Schedules -> Nat \union {Never}]
  <2>1. \A s \in Schedules : lastExecution'[s] \in Nat \union {Never}
    BY HydrateRaises DEF TypeOK
  <2>2. lastExecution' = [s \in Schedules |-> lastExecution'[s]]
    BY DEF HydrateBatch
  <2> QED BY <2>1, <2>2
<1>7. LedgerTypes' /\ locks' \subseteq Lock
  BY <1>6 DEF TypeOK, LedgerTypes, HydrateBatch, ledgerVars, clientVars, Lock
<1> QED BY <1>5, <1>7, TickTypeStep DEF HydrateBatch

LEMMA EndHydrationTypes ==
  ASSUME TypeOK, NEW t \in Ticks, EndHydration(t)
  PROVE  TypeOK'
<1>1. ticks[t].todo \in Seq(Item)
  BY TickTypes, IdleIsNotAtWork DEF EndHydration, At, Idle
<1>2. LedgerTypes'
  BY SameLedgerTypes DEF EndHydration, ledgerVars
<1>3. locks \in SUBSET Lock
  BY DEF TypeOK, Lock
<1>4. CASE Proceed(t, ticks[t].todo, locks, lastExecution)
  BY <1>1, <1>2, <1>3, <1>4, LoopTypes, TickTypeStep DEF EndHydration
<1>5. CASE ticks' = [ticks EXCEPT ![t] = NoTick] /\ UNCHANGED locks
  <2>1. ticks' \in [Ticks -> Tick]
    BY <1>5, TypesOfTick DEF Tick
  <2> QED BY <1>2, <1>3, <1>5, <2>1, TickTypeStep DEF EndHydration
<1> QED BY <1>4, <1>5 DEF EndHydration

(* The changes of a contract: all but one keep its interval.               *)
LEMMA ContractUpdates ==
  ASSUME NEW c \in ScheduleContract
  PROVE  /\ [c EXCEPT !.cid = @ + 1] \in ScheduleContract
         /\ [c EXCEPT !.cid = @ + 1].interval = c.interval
         /\ [c EXCEPT !.archived = TRUE] \in ScheduleContract
         /\ [c EXCEPT !.archived = TRUE].interval = c.interval
         /\ \A i \in Intervals :
              [c EXCEPT !.cid = @ + 1, !.interval = i] \in ScheduleContract
         /\ \A a \in BOOLEAN :
              /\ [c EXCEPT !.cid = @ + 1, !.active = a] \in ScheduleContract
              /\ [c EXCEPT !.cid = @ + 1, !.active = a].interval = c.interval
         /\ [[c EXCEPT !.cid = @ + 1] EXCEPT !.total = @ + 1] \in ScheduleContract
         /\ [[c EXCEPT !.cid = @ + 1] EXCEPT !.total = @ + 1].interval = c.interval
<1> DEFINE d == [c EXCEPT !.cid = @ + 1]
<1>1. d \in ScheduleContract /\ d.interval = c.interval
  BY DEF ScheduleContract
<1>2. /\ [c EXCEPT !.archived = TRUE] \in ScheduleContract
      /\ [c EXCEPT !.archived = TRUE].interval = c.interval
  BY DEF ScheduleContract
<1>3. ASSUME NEW i \in Intervals
      PROVE  [c EXCEPT !.cid = @ + 1, !.interval = i] \in ScheduleContract
  <2>1. [d EXCEPT !.interval = i] \in ScheduleContract
    <3> HIDE DEF d
    <3> QED BY <1>1 DEF ScheduleContract
  <2> QED BY <2>1
<1>4. ASSUME NEW a \in BOOLEAN
      PROVE  /\ [c EXCEPT !.cid = @ + 1, !.active = a] \in ScheduleContract
             /\ [c EXCEPT !.cid = @ + 1, !.active = a].interval = c.interval
  <2>1. /\ [d EXCEPT !.active = a] \in ScheduleContract
        /\ [d EXCEPT !.active = a].interval = d.interval
    <3> HIDE DEF d
    <3> QED BY <1>1 DEF ScheduleContract
  <2> QED BY <1>1, <2>1
<1>5. /\ [d EXCEPT !.total = @ + 1] \in ScheduleContract
      /\ [d EXCEPT !.total = @ + 1].interval = d.interval
  <2> HIDE DEF d
  <2> QED BY <1>1 DEF ScheduleContract
<1> QED BY <1>1, <1>2, <1>3, <1>4, <1>5

(* The schedules when ExecuteDCA commits.                                  *)
LEMMA ExecuteDCAContracts ==
  ASSUME TypeOK, NEW x \in Schedules,
         schedules' = [schedules EXCEPT ![x].cid = @ + 1, ![x].total = @ + 1]
  PROVE  /\ schedules' \in [Schedules -> ScheduleContract]
         /\ \A s \in Schedules : schedules'[s].interval = schedules[s].interval
<1> DEFINE c == schedules[x]
           d == [c EXCEPT !.cid = @ + 1]
           f == [d EXCEPT !.total = @ + 1]
           S1 == [schedules EXCEPT ![x].cid = @ + 1]
           S2 == [S1 EXCEPT ![x].total = @ + 1]
<1>1. /\ schedules \in [Schedules -> ScheduleContract]
      /\ c \in ScheduleContract
  BY DEF TypeOK
<1>2. f \in ScheduleContract /\ f.interval = c.interval
  <2> HIDE DEF c
  <2> QED BY <1>1, ContractUpdates
<1>3. S1 = [schedules EXCEPT ![x] = d]
  OBVIOUS
<1>4. schedules' = S2
  OBVIOUS
<1> HIDE DEF S1, d
<1>5. S1[x] = d
  BY <1>1, <1>3
<1>6. S2 = [S1 EXCEPT ![x] = f]
  BY <1>5
<1> HIDE DEF S2, f, c
<1>7. S2 = [schedules EXCEPT ![x] = f]
  BY <1>1, <1>3, <1>6
<1>8. schedules' = [schedules EXCEPT ![x] = f]
  BY <1>4, <1>7
<1>9. schedules' \in [Schedules -> ScheduleContract]
  BY <1>1, <1>2, <1>8
<1>10. \A s \in Schedules : schedules'[s].interval = schedules[s].interval
  BY <1>1, <1>2, <1>8 DEF c
<1> QED BY <1>9, <1>10

LEMMA ExecuteDCATypes ==
  ASSUME IInv, TypeOK, NEW t \in Ticks, ExecuteDCA(t)
  PROVE  TypeOK'
<1>1. Processes(t) /\ ticks[t] \in Buying /\ BuyFields(ticks[t])
  BY TickTypes, BuyingTick DEF ExecuteDCA, At, Processes
<1> DEFINE e == Len(executions) + 1
           r == [step |-> "swap", todo |-> ticks[t].todo, item |-> ticks[t].item,
                 execution |-> e]
           commits ==
             /\ Executes(t)
             /\ schedules' = [schedules EXCEPT ![ticks[t].item.schedule].cid = @ + 1,
                                              ![ticks[t].item.schedule].total = @ + 1]
<1>2. ASSUME commits PROVE LedgerTypes'
  <2>1. schedules' \in [Schedules -> ScheduleContract]
    BY <1>2, ExecuteDCAContracts DEF Executes
  <2>2. LedgerShape' /\ LedgerGrows(0)
    BY <1>2, ExecutesKeepsBooks
  <2>3. UNCHANGED <<acknowledged, mocked, answers>>
    BY DEF ExecuteDCA, clientVars
  <2> QED
    BY <1>2, <2>1, <2>2, <2>3 DEF LedgerShape, LedgerGrows, LedgerTypes, TypeOK, Executes
<1>3. CASE /\ commits
           /\ ticks' = [ticks EXCEPT ![t].step = "swap", ![t].execution = e]
           /\ UNCHANGED locks
  <2>1. ticks' = [ticks EXCEPT ![t] = r]
    BY <1>1, <1>3, TickUpdate DEF IInv
  <2>2. r \in Tick
    <3>1. e \in Nat
      BY DEF IInv, LedgerShape
    <3> HIDE DEF e
    <3> QED BY <1>1, <3>1 DEF Tick, Buying
  <2> HIDE DEF r
  <2>3. ticks' \in [Ticks -> Tick] /\ locks' \subseteq Lock
    BY <1>3, <2>1, <2>2, TypesOfTick DEF TypeOK, Lock
  <2> QED BY <1>2, <1>3, <2>3, TickTypeStep DEF ExecuteDCA
<1>4. CASE commits /\ NextSchedule(t)
  <2>1. ticks' \in [Ticks -> Tick] /\ locks' \subseteq Lock
    BY <1>1, <1>4, NextScheduleTypes DEF ExecuteDCA
  <2> QED BY <1>2, <1>4, <2>1, TickTypeStep DEF ExecuteDCA
<1>5. CASE UNCHANGED <<ledgerVars, buys>> /\ NextSchedule(t)
  <2>1. ticks' \in [Ticks -> Tick] /\ locks' \subseteq Lock
    BY <1>1, <1>5, NextScheduleTypes DEF ExecuteDCA
  <2>2. LedgerTypes'
    BY <1>5, SameLedgerTypes DEF ExecuteDCA, ledgerVars
  <2> QED BY <2>1, <2>2, TickTypeStep DEF ExecuteDCA
<1> QED BY <1>3, <1>4, <1>5 DEF ExecuteDCA, Executes, Active

LEMMA AnswerTypes ==
  ASSUME IInv, TypeOK, NEW t \in Ticks, Swap(t)
  PROVE  /\ mocked' \subseteq Venues
         /\ answers' \subseteq Answer
         /\ envSteps' \in 0..MaxEnvSteps
<1>1. ticks[t].execution \in Nat
  BY TradingTick DEF Swap, At, Trades, IInv, LedgerShape
<1>2. ASSUME NEW o \in Outcomes, Answered(t, o)
      PROVE  answers' \subseteq Answer /\ envSteps' \in 0..MaxEnvSteps
  <2>1. [execution |-> ticks[t].execution, outcome |-> o] \in Answer
    BY <1>1 DEF Answer
  <2>2. answers' = answers \union {[execution |-> ticks[t].execution, outcome |-> o]}
    BY <1>2, Zenon DEF Answered
  <2>3. envSteps' = envSteps \/ (envSteps < MaxEnvSteps /\ envSteps' = envSteps + 1)
    BY <1>2 DEF Answered
  <2> QED BY <2>1, <2>2, <2>3, ConstantsAssumption DEF TypeOK
<1>3. ASSUME NEW venue, VenueSwap(t, venue)
      PROVE  answers' \subseteq Answer /\ envSteps' \in 0..MaxEnvSteps
  BY <1>2, <1>3 DEF VenueSwap, MayAnswer, TypeOK
<1>4. \E venue : Answered(t, "mocked") \/ VenueSwap(t, venue)
  BY DEF Swap
<1> QED BY <1>2, <1>3, <1>4 DEF Swap, TypeOK, Outcomes

LEMMA SwapTypes ==
  ASSUME IInv, TypeOK, NEW t \in Ticks, Swap(t)
  PROVE  TypeOK'
<1>1. Processes(t) /\ ticks[t] \in Buying /\ BuyFields(ticks[t])
  BY TickTypes, BuyingTick DEF Swap, At, Processes
<1> DEFINE r == [step |-> "complete", todo |-> ticks[t].todo, item |-> ticks[t].item,
                 execution |-> ticks[t].execution]
<1>2. LedgerTypes' /\ envSteps' \in 0..MaxEnvSteps
  <2>1. IInv'
    BY SwapIInv
  <2> QED
    BY <2>1, AnswerTypes DEF IInv, LedgerShape, LedgerTypes, TypeOK, Swap, ledgerVars
<1>3. CASE ticks' = [ticks EXCEPT ![t].step = "complete"] /\ UNCHANGED locks
  <2>1. ticks' = [ticks EXCEPT ![t] = r]
    BY <1>1, <1>3, BuyUpdate
  <2>2. r \in Tick
    BY <1>1 DEF Tick, Buying
  <2> HIDE DEF r
  <2>3. ticks' \in [Ticks -> Tick] /\ locks' \subseteq Lock
    BY <1>3, <2>1, <2>2, TypesOfTick DEF TypeOK, Lock
  <2> QED BY <1>2, <2>3, TypePartsStep DEF Swap
<1>4. CASE NextSchedule(t)
  <2>1. ticks' \in [Ticks -> Tick] /\ locks' \subseteq Lock
    BY <1>1, <1>4, NextScheduleTypes DEF Swap
  <2> QED BY <1>2, <2>1, TypePartsStep DEF Swap
<1> QED BY <1>3, <1>4, SwapParts

LEMMA CompleteDCAExecutionTypes ==
  ASSUME IInv, TypeOK, NEW t \in Ticks, CompleteDCAExecution(t)
  PROVE  TypeOK'
<1>1. Processes(t) /\ ticks[t] \in Buying /\ BuyFields(ticks[t])
  BY TickTypes, BuyingTick DEF CompleteDCAExecution, At, Processes
<1> DEFINE e == ticks[t].execution
           s == ticks[t].item.schedule
           r == [step |-> "record", todo |-> ticks[t].todo, item |-> ticks[t].item,
                 execution |-> e]
<1>2. s \in Schedules /\ e \in DOMAIN executions /\ e \in Nat /\ now \in Nat
  <2>1. e \in DOMAIN executions
    BY TradingTick DEF CompleteDCAExecution, At, Trades
  <2> QED BY <1>1, <2>1 DEF Buying, Item, IInv, TimesFit
<1>3. LedgerTypes'
  <2>1. IInv'
    BY CompleteDCAExecutionIInv
  <2>2. [schedule |-> s, execution |-> e, at |-> now] \in Log
    BY <1>2 DEF Log
  <2>3. logs' \subseteq Log
    BY <2>2 DEF CompleteDCAExecution, ledgerVars, TypeOK
  <2>4. lastExecution' \in [Schedules -> Nat \union {Never}]
    BY <1>2 DEF CompleteDCAExecution, TypeOK
  <2>5. DOMAIN executions' = DOMAIN executions
    BY DEF CompleteDCAExecution, ledgerVars
  <2>6. acknowledged' \subseteq DOMAIN executions'
    BY <1>2, <2>5 DEF CompleteDCAExecution, TypeOK
  <2>7. UNCHANGED <<schedules, mocked, answers>>
    BY DEF CompleteDCAExecution, ledgerVars, clientVars
  <2> QED BY <2>1, <2>3, <2>4, <2>6, <2>7 DEF IInv, LedgerShape, LedgerTypes, TypeOK
<1>4. CASE ticks' = [ticks EXCEPT ![t].step = "record"] /\ UNCHANGED locks
  <2>1. ticks' = [ticks EXCEPT ![t] = r]
    BY <1>1, <1>4, BuyUpdate
  <2>2. r \in Tick
    BY <1>1 DEF Tick, Buying
  <2> HIDE DEF r
  <2>3. ticks' \in [Ticks -> Tick] /\ locks' \subseteq Lock
    BY <1>4, <2>1, <2>2, TypesOfTick DEF TypeOK, Lock
  <2> QED BY <1>3, <2>3, TickTypeStep DEF CompleteDCAExecution
<1>5. CASE NextSchedule(t)
  <2>1. ticks' \in [Ticks -> Tick] /\ locks' \subseteq Lock
    BY <1>1, <1>5, NextScheduleTypes DEF CompleteDCAExecution
  <2> QED BY <1>3, <2>1, TickTypeStep DEF CompleteDCAExecution
<1> QED BY <1>4, <1>5 DEF CompleteDCAExecution

LEMMA RecordTypes ==
  ASSUME TypeOK, NEW t \in Ticks, Record(t)
  PROVE  TypeOK'
<1>1. Processes(t)
  BY DEF Record, At, Processes
<1>2. ticks' \in [Ticks -> Tick] /\ locks' \subseteq Lock
  BY <1>1, NextScheduleTypes DEF Record
<1>3. LedgerTypes'
  BY SameLedgerTypes DEF Record, ledgerVars
<1> QED BY <1>2, <1>3, TickTypeStep DEF Record

LEMMA UserChoiceTypes ==
  ASSUME TypeOK, NEW s \in Schedules, NEW changed \in ScheduleContract,
         UserChoice(s, changed)
  PROVE  TypeOK'
<1>1. schedules' \in [Schedules -> ScheduleContract]
  BY DEF UserChoice, TypeOK
<1>2. envSteps' \in 0..MaxEnvSteps
  BY ConstantsAssumption DEF UserChoice, TypeOK
<1>3. LedgerTypes' /\ locks' \subseteq Lock /\ ticks' \in [Ticks -> Tick]
  BY <1>1 DEF UserChoice, memoryVars, clientVars, TypeOK, LedgerTypes, Lock, Tick
<1>4. Tick' = Tick /\ Lock' = Lock /\ now' = now /\ calm' = calm
  BY DEF Tick, Lock, Reading, Hydrating, Buying, Item, Log, NoTick, UserChoice
<1>5. ticks' \in [Ticks -> Tick'] /\ locks' \subseteq Lock'
  BY <1>3, <1>4
<1> QED BY <1>2, <1>3, <1>4, <1>5 DEF TypeOK, LedgerTypes, Lock, Tick

LEMMA EnvironmentTypes ==
  ASSUME TypeOK, Environment
  PROVE  TypeOK'
<1>1. \A s \in Schedules : schedules[s] \in ScheduleContract
  BY DEF TypeOK
<1>2. CASE Clock
  <2>1. now' \in 0..MaxTime
    BY <1>2, ConstantsAssumption DEF Clock, TypeOK
  <2>2. \A l \in locks : l \in [schedule : Schedules, cid : Nat, at : 0..now']
    BY <1>2, <2>1 DEF Clock, TypeOK
  <2>3. LedgerTypes' /\ UNCHANGED <<calm, envSteps>> /\ locks' = locks
    BY <1>2, SameLedgerTypes DEF Clock, ledgerVars, memoryVars
  <2>4. ticks' \in [Ticks -> Tick] /\ Tick' = Tick
    BY <1>2 DEF Clock, TypeOK, Tick, Reading, Hydrating, Buying, Item, Log, NoTick
  <2>5. ticks' \in [Ticks -> Tick']
    BY <2>4
  <2> QED BY <2>1, <2>2, <2>3, <2>5 DEF TypeOK, LedgerTypes, Tick
<1>3. CASE \E s \in Schedules : UpdateDCAAmount(s) \/ CancelDCA(s)
  BY <1>1, <1>3, ContractUpdates, UserChoiceTypes DEF UpdateDCAAmount, CancelDCA
<1>4. CASE \E s \in Schedules, i \in Intervals : UpdateDCAFrequency(s, i)
  BY <1>1, <1>4, ContractUpdates, UserChoiceTypes DEF UpdateDCAFrequency
<1>5. CASE \E s \in Schedules, a \in BOOLEAN : PauseOrResumeDCA(s, a)
  BY <1>1, <1>5, ContractUpdates, UserChoiceTypes DEF PauseOrResumeDCA
<1>6. CASE Crash
  <2>1. envSteps' \in 0..MaxEnvSteps
    BY <1>6, ConstantsAssumption DEF Crash, TypeOK
  <2>2. /\ schedules' = schedules /\ executions' = executions /\ buys' = buys
        /\ mocked' = mocked /\ answers' = answers
        /\ logs' = logs /\ acknowledged' = acknowledged /\ now' = now /\ calm' = calm
        /\ lastExecution' = ColdCache /\ locks' = {}
        /\ ticks' = [t \in Ticks |-> NoTick]
    BY <1>6 DEF Crash, ledgerVars, clientVars
  <2>3. lastExecution' \in [Schedules -> Nat \union {Never}]
    BY <2>2 DEF ColdCache
  <2>4. LedgerTypes' /\ locks' = {}
    BY <2>2, <2>3 DEF TypeOK, LedgerTypes
  <2>5. ticks' \in [Ticks -> Tick']
    BY <2>2 DEF Tick, NoTick
  <2>6. now' \in 0..MaxTime /\ calm' \in BOOLEAN
    BY <2>2 DEF TypeOK
  <2> QED BY <2>1, <2>4, <2>5, <2>6 DEF TypeOK, LedgerTypes, Tick
<1> QED BY <1>2, <1>3, <1>4, <1>5, <1>6 DEF Environment

LEMMA NextTypeOK == IInv /\ TypeOK /\ [Next]_vars => TypeOK'
<1> SUFFICES ASSUME IInv, TypeOK, [Next]_vars PROVE TypeOK'
  OBVIOUS
<1>1. ASSUME NEW t \in Ticks, Step(t) PROVE TypeOK'
  BY <1>1, StartLoopTypes, HydrateBatchTypes, EndHydrationTypes, ExecuteDCATypes,
     SwapTypes, CompleteDCAExecutionTypes, RecordTypes DEF Step
<1>2. ASSUME NEW t \in Ticks, Scan(t) PROVE TypeOK'
  BY <1>2, ScanTypes
<1>3. CASE Environment
  BY <1>3, EnvironmentTypes
<1>4. CASE UNCHANGED vars
  <2>1. locks' \subseteq Lock /\ ticks' \in [Ticks -> Tick] /\ LedgerTypes'
    BY <1>4, SameLedgerTypes DEF vars, clientVars, TypeOK, Lock, Tick
  <2> QED BY <1>4, <2>1, TickTypeStep DEF vars
<1> QED BY <1>1, <1>2, <1>3, <1>4 DEF Next

(* The state of the engine has its types: a tick only ever works on        *)
(* schedules it read, a lock never lies in the future, a cached time is    *)
(* that of the past or missing (executeDueSchedules).                      *)
THEOREM TypesAreKept == Spec => []TypeOK
<1>1. Init => IInv /\ TypeOK
  BY InitIInv, InitTypeOK
<1>2. IInv /\ TypeOK /\ [Next]_vars => (IInv /\ TypeOK)'
  BY NextIInv, NextTypeOK
<1> QED BY <1>1, <1>2, PTL DEF Spec

---------------------------------------------------------------------------
(* Spacing.  Without overlap, restarts and new frequencies at most one     *)
(* tick is under way, and what it knows of the intervals is true.          *)

Known(contracts) ==
  {x \in Item : x.interval = contracts[x.schedule].interval}

(* No acknowledged buy of the schedule of x is closer than its interval.   *)
Spaced(x, ex, acks, time) ==
  \A d \in acks : ex[d].schedule = x.schedule => time - ex[d].at >= x.interval

(* What the record r of a tick that runs alone says.                       *)
RunFits(r, contracts, ex, acks, time) ==
  /\ r # NoTick => r.todo \in Seq(Known(contracts))
  /\ r.step \in {"execute", "swap", "complete", "record"}
       => r.item \in Known(contracts)
  /\ r.step = "execute" => Spaced(r.item, ex, acks, time)
  /\ Trades(r) => r.execution = Len(ex)

AcknowledgedAreCached ==
  \A d \in acknowledged :
    executions[d].at <= lastExecution[executions[d].schedule]

PastExecutions == \A d \in DOMAIN executions : executions[d].at <= now

BuysAreSpaced ==
  \A d, e \in DOMAIN executions :
    (/\ d < e
     /\ d \in acknowledged
     /\ executions[d].schedule = executions[e].schedule)
      => executions[e].at - executions[d].at >= schedules[executions[e].schedule].interval

Alone(t) == \A d \in Ticks \ {t} : Idle(d)

SpacingInv ==
  /\ \A t \in Ticks : Idle(t) \/ Alone(t)
  /\ \A t \in Ticks : RunFits(ticks[t], schedules, executions, acknowledged, now)
  /\ AcknowledgedAreCached
  /\ PastExecutions
  /\ BuysAreSpaced

(* A tick that runs alone goes on with the record r.                       *)
LEMMA RunGoesOn ==
  ASSUME TypeOK, SpacingInv, NEW t \in Ticks, Alone(t),
         NEW r, ticks' = [ticks EXCEPT ![t] = r],
         RunFits(r, schedules', executions', acknowledged', now'),
         AcknowledgedAreCached', PastExecutions', BuysAreSpaced'
  PROVE  SpacingInv'
<1>1. ticks'[t] = r /\ \A d \in Ticks \ {t} : ticks'[d] = NoTick
  BY DEF TypeOK, Alone, Idle
<1>2. \A d \in Ticks : Idle(d)' \/ Alone(d)'
  BY <1>1 DEF Idle, Alone
<1>3. RunFits(NoTick, schedules', executions', acknowledged', now')
  BY IdleIsNotAtWork DEF RunFits, Trades
<1>4. \A d \in Ticks :
        RunFits(ticks'[d], schedules', executions', acknowledged', now')
  BY <1>1, <1>3
<1> QED BY <1>2, <1>4 DEF SpacingInv

(* The loop, if it goes on, goes on with a schedule whose acknowledged     *)
(* buys are far enough in the past.                                        *)
LEMMA LoopSpaces ==
  ASSUME TypeOK, AcknowledgedAreCached, NEW t \in Ticks,
         NEW todo \in Seq(Known(schedules)), NEW held,
         Proceed(t, todo, held, lastExecution)
  PROVE  \E r : /\ ticks' = [ticks EXCEPT ![t] = r]
                /\ RunFits(r, schedules, executions, acknowledged, now)
                /\ r = NoTick \/ r.step = "execute"
<1>1. todo \in Seq(Item)
  <2>1. Known(schedules) \subseteq Item
    BY DEF Known
  <2> QED BY <2>1
<1>2. CASE ticks' = [ticks EXCEPT ![t] = NoTick]
  <2>1. RunFits(NoTick, schedules, executions, acknowledged, now)
    BY IdleIsNotAtWork DEF RunFits, Trades
  <2> QED BY <1>2, <2>1
<1>3. CASE ~(ticks' = [ticks EXCEPT ![t] = NoTick])
  <2>1. PICK next \in 1..Len(todo) :
          /\ IsDue(lastExecution, todo[next])
          /\ ticks' = [ticks EXCEPT ![t] =
                         [step |-> "execute", item |-> todo[next], execution |-> 0,
                          todo |-> SubSeq(todo, next + 1, Len(todo))]]
    <3>1. \/ ticks' = [ticks EXCEPT ![t] = NoTick] /\ locks' = held
          \/ \E next \in 1..Len(todo) :
               /\ IsDue(lastExecution, todo[next])
               /\ locks' = Locking(held, todo[next])
               /\ ticks' = [ticks EXCEPT ![t] =
                              [step |-> "execute", item |-> todo[next], execution |-> 0,
                               todo |-> SubSeq(todo, next + 1, Len(todo))]]
      BY <1>1, ProceedPicks, Zenon
    <3> QED BY <1>3, <3>1, Zenon
  <2> DEFINE x    == todo[next]
             rest == SubSeq(todo, next + 1, Len(todo))
             r    == [step |-> "execute", item |-> x, execution |-> 0, todo |-> rest]
  <2> DEFINE K == Known(schedules)
  <2>2. x \in K /\ rest \in Seq(K)
    <3>1. todo \in Seq(K)
      OBVIOUS
    <3> HIDE DEF K
    <3> QED BY <3>1, RestOfTodo
  <2>3. Spaced(x, executions, acknowledged, now)
    <3>1. SUFFICES ASSUME NEW d \in acknowledged, executions[d].schedule = x.schedule
                   PROVE  now - executions[d].at >= x.interval
      BY DEF Spaced
    <3>2. /\ executions[d] \in Execution
          /\ x \in Item
          /\ lastExecution \in [Schedules -> Nat \union {Never}]
          /\ now \in Nat
      BY <2>2 DEF TypeOK, Known
    <3>3. /\ executions[d].at \in Nat /\ x.schedule \in Schedules /\ x.interval \in Nat
      BY <3>2, ConstantsAssumption DEF Execution, Item
    <3>4. executions[d].at <= lastExecution[x.schedule]
      BY <3>1 DEF AcknowledgedAreCached
    <3>5. lastExecution[x.schedule] \in Nat /\ lastExecution[x.schedule] # Never
      BY <3>2, <3>3, <3>4 DEF Never
    <3>6. now - lastExecution[x.schedule] >= x.interval
      BY <2>1, <3>5 DEF IsDue
    <3> QED BY <3>2, <3>3, <3>4, <3>5, <3>6
  <2>4. ticks' = [ticks EXCEPT ![t] = r] /\ r.step = "execute"
    BY <2>1
  <2>5. RunFits(r, schedules, executions, acknowledged, now)
    <3>1. r.todo = rest /\ r.item = x /\ r.step = "execute"
      OBVIOUS
    <3> HIDE DEF r, rest, x
    <3> QED BY <2>2, <2>3, <3>1 DEF RunFits, Trades
  <2> HIDE DEF r
  <2> QED BY <2>4, <2>5
<1> QED BY <1>2, <1>3

(* A tick under way is alone, and what it knows is true.                   *)
LEMMA RunningTick ==
  ASSUME SpacingInv, NEW t \in Ticks, ticks[t].step # "idle"
  PROVE  /\ Alone(t)
         /\ ticks[t] # NoTick
         /\ ticks[t].todo \in Seq(Known(schedules))
         /\ RunFits(ticks[t], schedules, executions, acknowledged, now)
BY IdleIsNotAtWork DEF SpacingInv, Idle, RunFits

(* A step after which the loop goes on, if it keeps the books.             *)
LEMMA SpacedLoop ==
  ASSUME TypeOK, SpacingInv, NEW t \in Ticks, ticks[t].step # "idle",
         NEW held, Proceed(t, ticks[t].todo, held, lastExecution),
         UNCHANGED <<now, schedules, executions, acknowledged>>,
         lastExecution' = lastExecution
  PROVE  SpacingInv'
<1>1. PICK r : /\ ticks' = [ticks EXCEPT ![t] = r]
               /\ RunFits(r, schedules, executions, acknowledged, now)
  BY RunningTick, LoopSpaces DEF SpacingInv
<1>2. RunFits(r, schedules', executions', acknowledged', now')
  BY <1>1
<1>3. AcknowledgedAreCached' /\ PastExecutions' /\ BuysAreSpaced'
  BY DEF SpacingInv, AcknowledgedAreCached, PastExecutions, BuysAreSpaced
<1> QED BY <1>1, <1>2, <1>3, RunningTick, RunGoesOn

LEMMA InitSpacing == Init => SpacingInv
<1> SUFFICES ASSUME Init PROVE SpacingInv
  OBVIOUS
<1>1. \A t \in Ticks : ticks[t] = NoTick
  BY DEF Init
<1>2. RunFits(NoTick, schedules, executions, acknowledged, now)
  BY IdleIsNotAtWork DEF RunFits, Trades
<1>3. AcknowledgedAreCached /\ PastExecutions /\ BuysAreSpaced
  BY DEF Init, AcknowledgedAreCached, PastExecutions, BuysAreSpaced
<1> QED BY <1>1, <1>2, <1>3 DEF SpacingInv, Idle

LEMMA SameBooksSpaced ==
  ASSUME SpacingInv,
         UNCHANGED <<now, schedules, executions, acknowledged, lastExecution>>
  PROVE  AcknowledgedAreCached' /\ PastExecutions' /\ BuysAreSpaced'
BY DEF SpacingInv, AcknowledgedAreCached, PastExecutions, BuysAreSpaced

LEMMA ScanSpaced ==
  ASSUME TypeOK, calm, SpacingInv, NEW t \in Ticks, Scan(t)
  PROVE  SpacingInv'
<1>1. Alone(t)
  BY DEF Scan, Alone
<1>2. PICK todo \in Seq({ItemOf(s) : s \in Active}) :
        ticks' = [ticks EXCEPT ![t] = [step |-> "scanned", todo |-> todo]]
  BY ScanReads
<1> DEFINE r == [step |-> "scanned", todo |-> todo]
<1>3. {ItemOf(s) : s \in Active} \subseteq Known(schedules)
  BY DEF Active, ItemOf, TypeOK, ScheduleContract, Item, Known
<1>4. todo \in Seq(Known(schedules))
  <2> DEFINE I == {ItemOf(s) : s \in Active}
             K == Known(schedules)
  <2>1. I \subseteq K /\ todo \in Seq(I)
    BY <1>3
  <2> HIDE DEF I, K
  <2>2. todo \in Seq(K)
    BY <2>1
  <2> QED BY <2>2 DEF K
<1>5. r.step = "scanned" /\ r.todo = todo
  OBVIOUS
<1> HIDE DEF r
<1>6. RunFits(r, schedules, executions, acknowledged, now)
  BY <1>4, <1>5 DEF RunFits, Trades
<1>7. UNCHANGED <<now, schedules, executions, acknowledged, lastExecution>>
  BY DEF Scan, ledgerVars, memoryVars
<1>8. RunFits(r, schedules', executions', acknowledged', now')
  BY <1>6, <1>7
<1>9. ticks' = [ticks EXCEPT ![t] = r]
  BY <1>2 DEF r
<1> QED BY <1>1, <1>7, <1>8, <1>9, SameBooksSpaced, RunGoesOn

LEMMA StartLoopSpaced ==
  ASSUME TypeOK, SpacingInv, NEW t \in Ticks, StartLoop(t)
  PROVE  SpacingInv'
<1>1. ticks[t].step # "idle"
  BY DEF StartLoop, At
<1>2. UNCHANGED <<now, schedules, executions, acknowledged, lastExecution>>
  BY DEF StartLoop, ledgerVars
<1> DEFINE r == [step |-> "hydrate", todo |-> ticks[t].todo, unread |-> logs]
<1>3. CASE ticks' = [ticks EXCEPT ![t] = r]
  <2>1. r.step = "hydrate" /\ r.todo = ticks[t].todo
    OBVIOUS
  <2> HIDE DEF r
  <2>2. RunFits(r, schedules, executions, acknowledged, now)
    BY <1>1, <2>1, RunningTick DEF RunFits, Trades
  <2>3. RunFits(r, schedules', executions', acknowledged', now')
    BY <1>2, <2>2
  <2> QED BY <1>1, <1>2, <1>3, <2>3, RunningTick, SameBooksSpaced, RunGoesOn
<1>4. CASE Proceed(t, ticks[t].todo, locks, lastExecution)
  BY <1>1, <1>2, <1>4, SpacedLoop
<1> QED BY <1>3, <1>4 DEF StartLoop

LEMMA HydrateBatchSpaced ==
  ASSUME IInv, TypeOK, SpacingInv, NEW t \in Ticks, HydrateBatch(t)
  PROVE  SpacingInv'
<1>1. ticks[t].step = "hydrate"
  BY DEF HydrateBatch, At
<1>2. UNCHANGED <<now, schedules, executions, acknowledged>>
  BY DEF HydrateBatch, ledgerVars
<1>3. PICK batch : ticks' = [ticks EXCEPT ![t].unread = @ \ batch]
  BY DEF HydrateBatch
<1> DEFINE r == [step |-> "hydrate", todo |-> ticks[t].todo,
                 unread |-> ticks[t].unread \ batch]
<1>4. ticks' = [ticks EXCEPT ![t] = r]
  <2>1. ticks[t] = [step |-> "hydrate", todo |-> ticks[t].todo,
                    unread |-> ticks[t].unread]
    BY <1>1, TickTypes DEF At, Hydrating
  <2>2. [ticks[t] EXCEPT !.unread = ticks[t].unread \ batch] = r
    BY <2>1, UnreadUpdate
  <2> QED BY <1>3, <2>2
<1>5. r.step = "hydrate" /\ r.todo = ticks[t].todo
  OBVIOUS
<1> HIDE DEF r
<1>6. RunFits(r, schedules, executions, acknowledged, now)
  BY <1>1, <1>5, RunningTick DEF RunFits, Trades
<1>7. RunFits(r, schedules', executions', acknowledged', now')
  BY <1>2, <1>6
<1>8. AcknowledgedAreCached'
  <2>1. ASSUME NEW d \in acknowledged
        PROVE  executions[d].at <= lastExecution'[executions[d].schedule]
    <3>1. executions[d] \in Execution
      BY DEF TypeOK
    <3>2. executions[d].schedule \in Schedules /\ executions[d].at \in Nat
      BY <3>1 DEF Execution
    <3>3. executions[d].at <= lastExecution[executions[d].schedule]
      BY DEF SpacingInv, AcknowledgedAreCached
    <3>4. lastExecution'[executions[d].schedule] >= lastExecution[executions[d].schedule]
      BY <3>2, HydrateRaises
    <3>5. lastExecution[executions[d].schedule] \in Int
      BY <3>2, CachedTime DEF TypeOK
    <3>6. TypeOK'
      BY HydrateBatchTypes
    <3>7. lastExecution'[executions[d].schedule] \in Int
      <4>1. lastExecution' \in [Schedules -> Nat \union {Never}]
        BY <3>6 DEF TypeOK
      <4> QED BY <3>2, <4>1, CachedTime
    <3> QED BY <3>2, <3>3, <3>4, <3>5, <3>7
  <2> QED BY <1>2, <2>1 DEF AcknowledgedAreCached
<1>9. PastExecutions' /\ BuysAreSpaced'
  BY <1>2 DEF SpacingInv, PastExecutions, BuysAreSpaced
<1> QED BY <1>1, <1>4, <1>7, <1>8, <1>9, RunningTick, RunGoesOn

LEMMA EndHydrationSpaced ==
  ASSUME TypeOK, SpacingInv, NEW t \in Ticks, EndHydration(t)
  PROVE  SpacingInv'
<1>1. ticks[t].step # "idle"
  BY DEF EndHydration, At
<1>2. UNCHANGED <<now, schedules, executions, acknowledged, lastExecution>>
  BY DEF EndHydration, ledgerVars
<1>3. CASE Proceed(t, ticks[t].todo, locks, lastExecution)
  BY <1>1, <1>2, <1>3, SpacedLoop
<1>4. CASE ticks' = [ticks EXCEPT ![t] = NoTick]
  <2>1. RunFits(NoTick, schedules', executions', acknowledged', now')
    BY IdleIsNotAtWork DEF RunFits, Trades
  <2> QED BY <1>1, <1>2, <1>4, <2>1, RunningTick, SameBooksSpaced, RunGoesOn
<1> QED BY <1>3, <1>4 DEF EndHydration

LEMMA RecordSpaced ==
  ASSUME TypeOK, SpacingInv, NEW t \in Ticks, Record(t)
  PROVE  SpacingInv'
BY SpacedLoop DEF Record, At, NextSchedule, ledgerVars

LEMMA SameIntervals ==
  ASSUME TypeOK, NEW contracts,
         \A s \in Schedules : contracts[s].interval = schedules[s].interval
  PROVE  Known(contracts) = Known(schedules)
BY DEF Known, Item

(* ExecuteDCA commits: the new buy is as far from the acknowledged ones as *)
(* the item says, and the item says what the contract says.                *)
LEMMA ExecutesSpaced ==
  ASSUME IInv, TypeOK, SpacingInv, NEW t \in Ticks, ticks[t].step = "execute",
         Executes(t),
         schedules' = [schedules EXCEPT ![ticks[t].item.schedule].cid = @ + 1,
                                        ![ticks[t].item.schedule].total = @ + 1],
         acknowledged' = acknowledged
  PROVE  /\ AcknowledgedAreCached' /\ PastExecutions' /\ BuysAreSpaced'
         /\ Known(schedules') = Known(schedules)
         /\ \A d \in acknowledged : d \in DOMAIN executions
                                    /\ executions'[d] = executions[d]
         /\ Len(executions') = Len(executions) + 1
<1> DEFINE x == ticks[t].item
           e == Len(executions) + 1
<1>1. x \in Known(schedules) /\ Spaced(x, executions, acknowledged, now)
  BY RunningTick DEF RunFits
<1>2. \A s \in Schedules : schedules'[s].interval = schedules[s].interval
  BY ExecuteDCAContracts DEF Executes
<1>3. /\ executions'[e].schedule = x.schedule
      /\ executions'[e].at = now
      /\ \A d \in DOMAIN executions : executions'[d] = executions[d]
      /\ DOMAIN executions' = 1..e /\ DOMAIN executions = 1..(e - 1) /\ e \in Nat
      /\ Len(executions') = e
  <2> DEFINE new == [schedule |-> x.schedule, status |-> "Pending", at |-> now]
  <2>1. executions'[e] = new
    BY ExecutesKeepsBooks
  <2>2. new.schedule = x.schedule /\ new.at = now
    OBVIOUS
  <2>3. \A d \in DOMAIN executions : executions'[d] = executions[d]
    BY ExecutesKeepsBooks DEF LedgerGrows
  <2>4. executions' = Append(executions, new)
    BY DEF Executes
  <2> HIDE DEF new
  <2>5. /\ DOMAIN executions' = 1..e /\ DOMAIN executions = 1..(e - 1) /\ e \in Nat
        /\ Len(executions') = e
    BY <2>4 DEF IInv, LedgerShape
  <2> QED BY <2>1, <2>2, <2>3, <2>5
<1>4. acknowledged \subseteq DOMAIN executions
  BY DEF TypeOK
<1>5. AcknowledgedAreCached'
  BY <1>3, <1>4 DEF SpacingInv, AcknowledgedAreCached, Executes
<1>6. PastExecutions'
  <2>1. now \in Nat /\ now' = now
    BY DEF IInv, TimesFit, Executes
  <2>2. ASSUME NEW d \in DOMAIN executions' PROVE executions'[d].at <= now
    <3>1. CASE d \in DOMAIN executions
      BY <1>3, <3>1 DEF SpacingInv, PastExecutions
    <3>2. CASE d = e
      BY <1>3, <2>1, <3>2
    <3> QED BY <1>3, <2>2, <3>1, <3>2
  <2> QED BY <2>1, <2>2 DEF PastExecutions
<1>7. BuysAreSpaced'
  <2>1. SUFFICES ASSUME NEW d \in acknowledged, NEW f \in DOMAIN executions', d < f,
                        executions'[d].schedule = executions'[f].schedule
                 PROVE  executions'[f].at - executions'[d].at
                          >= schedules'[executions'[f].schedule].interval
    BY DEF BuysAreSpaced
  <2>2. d \in DOMAIN executions /\ executions'[d] = executions[d]
    BY <1>3, <1>4
  <2>3. CASE f \in DOMAIN executions
    <3>1. executions'[f] = executions[f] /\ executions[f].schedule \in Schedules
      <4>1. executions[f] \in Execution
        BY <2>3 DEF TypeOK
      <4> QED BY <1>3, <2>3, <4>1 DEF Execution
    <3> QED BY <1>2, <2>1, <2>2, <2>3, <3>1 DEF SpacingInv, BuysAreSpaced
  <2>4. CASE f = e
    <3>1. executions[d].schedule = x.schedule
      BY <1>3, <2>1, <2>2, <2>4
    <3>2. now - executions[d].at >= x.interval
      BY <1>1, <3>1 DEF Spaced
    <3>3. x.interval = schedules[x.schedule].interval /\ x.schedule \in Schedules
      BY <1>1 DEF Known, Item
    <3>4. executions'[f].at = now /\ executions'[f].schedule = x.schedule
      BY <1>3, <2>4
    <3>5. schedules'[x.schedule].interval = x.interval
      BY <1>2, <3>3
    <3> HIDE DEF x, e
    <3>6. /\ executions'[f].at - executions'[d].at = now - executions[d].at
          /\ schedules'[executions'[f].schedule].interval = x.interval
      BY <2>2, <3>4, <3>5
    <3> QED BY <3>2, <3>6
  <2>5. f \in DOMAIN executions \/ f = e
    BY <1>3
  <2> QED BY <2>3, <2>4, <2>5, Zenon
<1>8. Known(schedules') = Known(schedules)
  BY <1>2, SameIntervals
<1> QED BY <1>3, <1>4, <1>5, <1>6, <1>7, <1>8

LEMMA ExecuteDCASpaced ==
  ASSUME IInv, TypeOK, SpacingInv, NEW t \in Ticks, ExecuteDCA(t)
  PROVE  SpacingInv'
<1>1. ticks[t].step = "execute" /\ BuyFields(ticks[t])
  BY BuyingTick DEF ExecuteDCA, At, Processes
<1>2. UNCHANGED <<now, lastExecution, acknowledged>>
  BY DEF ExecuteDCA
<1> DEFINE e == Len(executions) + 1
           r == [step |-> "swap", todo |-> ticks[t].todo, item |-> ticks[t].item,
                 execution |-> e]
           commits ==
             /\ Executes(t)
             /\ schedules' = [schedules EXCEPT ![ticks[t].item.schedule].cid = @ + 1,
                                              ![ticks[t].item.schedule].total = @ + 1]
<1>3. ASSUME commits
      PROVE  /\ AcknowledgedAreCached' /\ PastExecutions' /\ BuysAreSpaced'
             /\ Known(schedules') = Known(schedules)
             /\ \A d \in acknowledged : executions'[d] = executions[d]
             /\ Len(executions') = e
  BY <1>1, <1>2, <1>3, ExecutesSpaced
<1>4. CASE /\ commits
           /\ ticks' = [ticks EXCEPT ![t].step = "swap", ![t].execution = e]
  <2>1. ticks' = [ticks EXCEPT ![t] = r]
    BY <1>1, <1>4, TickUpdate DEF IInv
  <2>2. /\ r.step = "swap" /\ r.todo = ticks[t].todo /\ r.item = ticks[t].item
        /\ r.execution = e
    OBVIOUS
  <2>3. ticks[t].todo \in Seq(Known(schedules)) /\ ticks[t].item \in Known(schedules)
    BY <1>1, RunningTick DEF RunFits
  <2>4. r.execution = Len(executions')
    BY <1>3, <1>4, <2>2
  <2> HIDE DEF r, e
  <2>5. RunFits(r, schedules', executions', acknowledged', now')
    BY <1>3, <1>4, <2>2, <2>3, <2>4 DEF RunFits, Trades
  <2> QED BY <1>1, <1>3, <1>4, <2>1, <2>5, RunningTick, RunGoesOn
<1>5. CASE commits /\ NextSchedule(t)
  <2>1. PICK r1 : /\ ticks' = [ticks EXCEPT ![t] = r1]
                  /\ RunFits(r1, schedules, executions, acknowledged, now)
                  /\ r1 = NoTick \/ r1.step = "execute"
    BY <1>1, <1>5, RunningTick, LoopSpaces DEF NextSchedule, SpacingInv
  <2>2. RunFits(r1, schedules', executions', acknowledged', now')
    BY <1>2, <1>3, <1>5, <2>1, IdleIsNotAtWork DEF RunFits, Trades, Spaced
  <2> QED BY <1>1, <1>3, <1>5, <2>1, <2>2, RunningTick, RunGoesOn
<1>6. CASE UNCHANGED <<ledgerVars, buys>> /\ NextSchedule(t)
  BY <1>1, <1>2, <1>6, SpacedLoop DEF NextSchedule, ledgerVars
<1> QED BY <1>4, <1>5, <1>6 DEF ExecuteDCA, Executes, Active

LEMMA SwapSpaced ==
  ASSUME IInv, TypeOK, SpacingInv, NEW t \in Ticks, Swap(t)
  PROVE  SpacingInv'
<1>1. ticks[t].step = "swap" /\ BuyFields(ticks[t])
  BY BuyingTick DEF Swap, At, Processes
<1>2. UNCHANGED <<now, schedules, executions, acknowledged, lastExecution>>
  BY DEF Swap, ledgerVars
<1> DEFINE r == [step |-> "complete", todo |-> ticks[t].todo, item |-> ticks[t].item,
                 execution |-> ticks[t].execution]
<1>3. CASE ticks' = [ticks EXCEPT ![t].step = "complete"]
  <2>1. ticks' = [ticks EXCEPT ![t] = r]
    BY <1>1, <1>3, BuyUpdate
  <2>2. /\ r.step = "complete" /\ r.todo = ticks[t].todo /\ r.item = ticks[t].item
        /\ r.execution = ticks[t].execution
    OBVIOUS
  <2> HIDE DEF r
  <2>3. RunFits(r, schedules, executions, acknowledged, now)
    BY <1>1, <2>2, RunningTick DEF RunFits, Trades
  <2>4. RunFits(r, schedules', executions', acknowledged', now')
    BY <1>2, <2>3
  <2> QED BY <1>1, <1>2, <2>1, <2>4, RunningTick, SameBooksSpaced, RunGoesOn
<1>4. CASE NextSchedule(t)
  BY <1>1, <1>2, <1>4, SpacedLoop DEF NextSchedule
<1> QED BY <1>3, <1>4, SwapParts

(* CompleteDCAExecution commits: no buy is younger than that of the tick,  *)
(* and if the tick is told, the cache says so.                             *)
LEMMA CompletesSpaced ==
  ASSUME IInv, TypeOK, SpacingInv, NEW t \in Ticks, Trades(ticks[t]),
         Completes(ticks[t].execution, ticks[t].item.schedule),
         schedules' = schedules,
         \/ acknowledged' = acknowledged
         \/ /\ acknowledged' = acknowledged \union {ticks[t].execution}
            /\ lastExecution' = [lastExecution EXCEPT ![ticks[t].item.schedule] = now]
  PROVE  /\ AcknowledgedAreCached' /\ PastExecutions' /\ BuysAreSpaced'
         /\ Len(executions') = Len(executions)
         /\ \A d \in DOMAIN executions :
              /\ executions'[d].schedule = executions[d].schedule
              /\ executions'[d].at = executions[d].at
<1> DEFINE e == ticks[t].execution
           s == ticks[t].item.schedule
<1>1. /\ e \in DOMAIN executions /\ e = Len(executions)
      /\ executions[e].schedule = s
  BY TradingTick, RunningTick DEF Trades, RunFits
<1>2. /\ DOMAIN executions' = DOMAIN executions /\ Len(executions') = Len(executions)
      /\ \A d \in DOMAIN executions :
           /\ executions'[d].schedule = executions[d].schedule
           /\ executions'[d].at = executions[d].at
  <2>1. executions \in Seq(Execution)
    BY DEF TypeOK
  <2>2. executions' = [executions EXCEPT ![e].status = "Archived"]
    BY DEF Completes
  <2> DEFINE f == [executions[e] EXCEPT !.status = "Archived"]
  <2>3. executions' = [executions EXCEPT ![e] = f]
    BY <2>2
  <2>4. f.schedule = executions[e].schedule /\ f.at = executions[e].at
    BY <1>1, <2>1 DEF Execution
  <2>5. f \in Execution
    <3>1. executions[e] \in Execution
      BY <1>1, <2>1
    <3> HIDE DEF e
    <3> QED BY <3>1 DEF Execution
  <2> HIDE DEF f
  <2> QED BY <1>1, <2>1, <2>3, <2>4, <2>5
<1>3. now \in Nat /\ now' = now
  BY DEF IInv, TimesFit, Completes
<1>4. PastExecutions'
  BY <1>2, <1>3 DEF SpacingInv, PastExecutions
<1>5. AcknowledgedAreCached'
  <2>1. ASSUME NEW d \in acknowledged'
        PROVE  executions'[d].at <= lastExecution'[executions'[d].schedule]
    <3>1. d \in DOMAIN executions
      BY <1>1 DEF TypeOK
    <3>2. executions[d].schedule \in Schedules /\ executions[d].at <= now
      <4>1. executions[d] \in Execution
        BY <3>1 DEF TypeOK
      <4> QED BY <3>1, <4>1 DEF Execution, SpacingInv, PastExecutions
    <3>3. CASE lastExecution'[executions[d].schedule] = now
      BY <1>2, <3>1, <3>2, <3>3
    <3>4. CASE lastExecution'[executions[d].schedule] # now
      <4>1. /\ lastExecution'[executions[d].schedule]
                 = lastExecution[executions[d].schedule]
            /\ executions[d].schedule # s \/ acknowledged' = acknowledged
        BY <3>2, <3>4 DEF Completes, IInv, TimesFit
      <4>2. d \in acknowledged
        BY <1>1, <4>1
      <4> QED BY <1>2, <3>1, <4>1, <4>2 DEF SpacingInv, AcknowledgedAreCached
    <3> QED BY <3>3, <3>4
  <2> QED BY <2>1 DEF AcknowledgedAreCached
<1>6. BuysAreSpaced'
  <2>1. SUFFICES ASSUME NEW d \in DOMAIN executions, NEW f \in DOMAIN executions,
                        d < f, d \in acknowledged',
                        executions[d].schedule = executions[f].schedule
                 PROVE  executions[f].at - executions[d].at
                          >= schedules[executions[f].schedule].interval
    BY <1>2 DEF BuysAreSpaced
  <2>2. d # e
    BY <1>1, <2>1 DEF IInv, LedgerShape
  <2> QED BY <2>1, <2>2 DEF SpacingInv, BuysAreSpaced
<1> QED BY <1>2, <1>4, <1>5, <1>6

LEMMA CompleteDCAExecutionSpaced ==
  ASSUME IInv, TypeOK, SpacingInv, NEW t \in Ticks, CompleteDCAExecution(t)
  PROVE  SpacingInv'
<1> DEFINE e == ticks[t].execution
           s == ticks[t].item.schedule
           r == [step |-> "record", todo |-> ticks[t].todo, item |-> ticks[t].item,
                 execution |-> e]
<1>1. ticks[t].step = "complete" /\ Trades(ticks[t]) /\ BuyFields(ticks[t])
  BY TradingTick DEF CompleteDCAExecution, At, Trades
<1>2. now' = now
  BY DEF CompleteDCAExecution
<1>3. CASE /\ Completes(e, s)
           /\ schedules' = schedules
           /\ acknowledged' = acknowledged \union {e}
           /\ lastExecution' = [lastExecution EXCEPT ![s] = now]
           /\ ticks' = [ticks EXCEPT ![t].step = "record"]
  <2>1. ticks' = [ticks EXCEPT ![t] = r]
    BY <1>1, <1>3, BuyUpdate
  <2>2. r.step = "record" /\ r.todo = ticks[t].todo /\ r.item = ticks[t].item
    OBVIOUS
  <2> HIDE DEF r
  <2>3. RunFits(r, schedules', executions', acknowledged', now')
    BY <1>1, <1>3, <2>2, RunningTick DEF RunFits, Trades
  <2>4. AcknowledgedAreCached' /\ PastExecutions' /\ BuysAreSpaced'
    BY <1>1, <1>3, CompletesSpaced
  <2> QED BY <1>1, <2>1, <2>3, <2>4, RunningTick, RunGoesOn
<1>4. CASE /\ Completes(e, s)
           /\ schedules' = schedules
           /\ UNCHANGED <<lastExecution, acknowledged>>
           /\ NextSchedule(t)
  <2>1. PICK r1 : /\ ticks' = [ticks EXCEPT ![t] = r1]
                  /\ RunFits(r1, schedules, executions, acknowledged, now)
                  /\ r1 = NoTick \/ r1.step = "execute"
    BY <1>1, <1>4, RunningTick, LoopSpaces DEF NextSchedule, SpacingInv
  <2>2. /\ AcknowledgedAreCached' /\ PastExecutions' /\ BuysAreSpaced'
        /\ \A d \in acknowledged :
             /\ executions'[d].schedule = executions[d].schedule
             /\ executions'[d].at = executions[d].at
    BY <1>1, <1>4, CompletesSpaced DEF TypeOK
  <2>3. RunFits(r1, schedules', executions', acknowledged', now')
    BY <1>2, <1>4, <2>1, <2>2, IdleIsNotAtWork DEF RunFits, Trades, Spaced
  <2> QED BY <1>1, <2>1, <2>2, <2>3, RunningTick, RunGoesOn
<1>5. CASE /\ UNCHANGED <<ledgerVars, lastExecution, acknowledged>>
           /\ NextSchedule(t)
  BY <1>1, <1>2, <1>5, SpacedLoop DEF NextSchedule, ledgerVars
<1> QED BY <1>3, <1>4, <1>5 DEF CompleteDCAExecution, Completes

---------------------------------------------------------------------------
(* The environment of ticks that do not overlap.                           *)

(* Time passes, or a user changes a schedule but not its interval.         *)
LEMMA AroundTicksSpaced ==
  ASSUME TypeOK, SpacingInv, UNCHANGED <<executions, acknowledged, lastExecution, ticks>>,
         now' \in Nat, now' >= now,
         \A s \in Schedules : schedules'[s].interval = schedules[s].interval
  PROVE  SpacingInv'
<1>1. Known(schedules') = Known(schedules)
  BY SameIntervals
<1>2. /\ now \in Nat
      /\ \A d \in DOMAIN executions : executions[d] \in Execution
      /\ acknowledged \subseteq DOMAIN executions
  BY DEF TypeOK
<1>3. ASSUME NEW x \in Known(schedules), Spaced(x, executions, acknowledged, now)
      PROVE  Spaced(x, executions, acknowledged, now')
  <2>1. x.interval \in Nat
    BY ConstantsAssumption DEF Known, Item
  <2>2. \A d \in acknowledged : executions[d].at \in Nat
    BY <1>2 DEF Execution
  <2> QED BY <1>2, <1>3, <2>1, <2>2 DEF Spaced
<1>4. ASSUME NEW t \in Ticks
      PROVE  RunFits(ticks[t], schedules', executions, acknowledged, now')
  <2>1. RunFits(ticks[t], schedules, executions, acknowledged, now)
    BY DEF SpacingInv
  <2> QED BY <1>1, <1>3, <2>1 DEF RunFits
<1>5. PastExecutions'
  <2>1. \A d \in DOMAIN executions : executions[d].at \in Nat
    BY <1>2 DEF Execution
  <2> QED BY <1>2, <2>1 DEF SpacingInv, PastExecutions
<1>6. BuysAreSpaced'
  <2>1. \A d \in DOMAIN executions : executions[d].schedule \in Schedules
    BY <1>2 DEF Execution
  <2> QED BY <2>1 DEF SpacingInv, BuysAreSpaced
<1>7. AcknowledgedAreCached'
  BY DEF SpacingInv, AcknowledgedAreCached
<1> QED BY <1>4, <1>5, <1>6, <1>7 DEF SpacingInv, Idle, Alone

LEMMA UserChoiceSpaced ==
  ASSUME TypeOK, SpacingInv, NEW s \in Schedules, NEW changed,
         changed.interval = schedules[s].interval, UserChoice(s, changed)
  PROVE  SpacingInv'
<1>1. \A x \in Schedules : schedules'[x].interval = schedules[x].interval
  BY DEF TypeOK, UserChoice
<1>2. now \in Nat /\ now' = now
  BY DEF TypeOK, UserChoice
<1> QED BY <1>1, <1>2, AroundTicksSpaced DEF UserChoice, memoryVars

LEMMA EnvironmentSpaced ==
  ASSUME TypeOK, calm, SpacingInv, Environment
  PROVE  SpacingInv'
<1>1. \A s \in Schedules : schedules[s] \in ScheduleContract
  BY DEF TypeOK
<1>2. CASE Clock
  BY <1>2, AroundTicksSpaced DEF Clock, ledgerVars, memoryVars, TypeOK
<1>3. CASE \E s \in Schedules : UpdateDCAAmount(s) \/ CancelDCA(s)
  BY <1>1, <1>3, ContractUpdates, UserChoiceSpaced DEF UpdateDCAAmount, CancelDCA
<1>4. CASE \E s \in Schedules, a \in BOOLEAN : PauseOrResumeDCA(s, a)
  BY <1>1, <1>4, ContractUpdates, UserChoiceSpaced DEF PauseOrResumeDCA
<1> QED BY <1>2, <1>3, <1>4 DEF Environment, UpdateDCAFrequency, Crash

LEMMA CalmStays ==
  ASSUME [Next]_vars
  PROVE  calm' = calm
BY DEF Next, vars, Scan, Step, StartLoop, HydrateBatch, EndHydration, ExecuteDCA,
   Swap, CompleteDCAExecution, Record, Environment, Clock, UpdateDCAAmount,
   UpdateDCAFrequency, PauseOrResumeDCA, CancelDCA, UserChoice, Crash

LEMMA NextSpaced == IInv /\ TypeOK /\ calm /\ SpacingInv /\ [Next]_vars => SpacingInv'
<1> SUFFICES ASSUME IInv, TypeOK, calm, SpacingInv, [Next]_vars PROVE SpacingInv'
  OBVIOUS
<1>1. ASSUME NEW t \in Ticks, Step(t) PROVE SpacingInv'
  BY <1>1, StartLoopSpaced, HydrateBatchSpaced, EndHydrationSpaced, ExecuteDCASpaced,
     SwapSpaced, CompleteDCAExecutionSpaced, RecordSpaced DEF Step
<1>2. ASSUME NEW t \in Ticks, Scan(t) PROVE SpacingInv'
  BY <1>2, ScanSpaced
<1>3. CASE Environment
  BY <1>3, EnvironmentSpaced
<1>4. CASE UNCHANGED vars
  <2>1. now' \in Nat /\ now' >= now
    BY <1>4 DEF vars, TypeOK
  <2> QED BY <1>4, <2>1, AroundTicksSpaced DEF vars
<1> QED BY <1>1, <1>2, <1>3, <1>4 DEF Next

(* Ticks that do not overlap, without a restart or a new frequency, buy a  *)
(* schedule again only when its interval has passed since every earlier    *)
(* buy whose completion they were told of (isDue, lastExecutionCache).     *)
THEOREM BuysStaySpaced == Spec => []AcknowledgedBuysAreSpaced
<1> DEFINE Inv == IInv /\ TypeOK /\ (calm => SpacingInv)
<1>1. Init => Inv
  BY InitIInv, InitTypeOK, InitSpacing
<1>2. Inv /\ [Next]_vars => Inv'
  BY NextIInv, NextTypeOK, NextSpaced, CalmStays
<1>3. Inv => AcknowledgedBuysAreSpaced
  BY DEF SpacingInv, BuysAreSpaced, AcknowledgedBuysAreSpaced
<1> QED BY <1>1, <1>2, <1>3, PTL DEF Spec
=============================================================================
