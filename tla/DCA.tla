-------------------------------- MODULE DCA --------------------------------
(***************************************************************************)
(* Recurring buys: DCAEngine.executeDueSchedules                           *)
(* (backend/src/engine/dca.ts) against the DCASchedule and DCAExecution    *)
(* contracts (main/daml/DCA.daml) and a swap venue.                        *)
(*                                                                         *)
(* The cron starts a tick every hour, whether or not the last has ended.   *)
(* A tick reads the schedules, fills the cache of last executions if it is *)
(* empty, and goes through the schedules it read; the lock and the cache   *)
(* live in memory and are shared by the ticks.  Between two awaits a tick  *)
(* runs alone, so each action below is the code between two awaits.        *)
(*                                                                         *)
(* Every schedule of the model has its own pair of assets.                 *)
(***************************************************************************)
EXTENDS Integers, Sequences, SequencesExt, FiniteSets

CONSTANTS
  Schedules,
  Ticks,          \* calls of executeDueSchedules that may overlap
  Intervals,      \* lengths of the frequencies, in units of the clock
  LockTtl,        \* LOCK_TTL_MS
  SwapAttempts,   \* how often each venue's client attempts a swap
  MockModes,      \* the sets of venues whose clients may run mocked
  MaxTime,        \* bound: of the clock
  MaxExecutions,  \* bound: DCAExecution contracts ever created
  MaxEnvSteps     \* bound: choices of users, crashes of the backend and answers
                  \* other than that a whole order was filled

Venues == {"cantex", "temple"}

ASSUME ConstantsAssumption ==
  /\ IsFiniteSet(Schedules)
  /\ Intervals \subseteq Nat \ {0}
  /\ LockTtl \in Nat
  /\ SwapAttempts \in [Venues -> Nat \ {0}]
  /\ MockModes \subseteq SUBSET Venues
  /\ MaxTime \in Nat
  /\ MaxExecutions \in Nat
  /\ MaxEnvSteps \in Nat

VARIABLES
  now,
  schedules,      \* the DCASchedule contract of each schedule
  executions,     \* every DCAExecution ever created, in order
  buys,           \* buys[e]: how often the venue executed the buy of e
  logs,           \* DCALog contracts
  mocked,         \* the venues without a key or a sidecar: their clients make answers up
  answers,        \* what the venues' clients reported of the buys they were asked for
  lastExecution,  \* lastExecutionCache
  locks,          \* executingSchedules
  ticks,          \* the local state of each tick
  acknowledged,   \* executions whose completion a tick was told of
  calm,           \* no overlapping ticks, restarts or new frequencies here
  envSteps

ledgerVars == <<schedules, executions, logs>>
clientVars == <<mocked, answers>>
memoryVars == <<lastExecution, locks>>
vars == <<now, schedules, executions, buys, logs, mocked, answers, lastExecution,
          locks, ticks, acknowledged, calm, envSteps>>

Never == -1

ScheduleContract ==
  [cid : Nat, active : BOOLEAN, archived : BOOLEAN, interval : Intervals,
   created : Nat, total : Nat]

Execution == [schedule : Schedules, status : {"Pending", "Archived"}, at : Nat]

Log == [schedule : Schedules, execution : Nat, at : Nat]

(* What a client reports of a buy.  "filled", "partial" and "rejected" are *)
(* Temple's status, which the router does not look at.                     *)
Outcomes == {"filled", "partial", "rejected", "mocked"}

Answer == [execution : Nat, outcome : Outcomes]

(* What a tick remembers of a schedule it has read.                        *)
Item == [schedule : Schedules, cid : Nat, interval : Intervals, created : Nat]

NoTick == [step |-> "idle"]

Reading == [step : {"scanned"}, todo : Seq(Item)]
Hydrating == [step : {"hydrate"}, todo : Seq(Item), unread : SUBSET Log]
Buying == [step : {"execute", "swap", "complete", "record"}, todo : Seq(Item),
           item : Item, execution : Nat]

Idle(t) == ticks[t] = NoTick

At(t, step) == ticks[t].step = step

Processes(t) == ticks[t].step \in {"execute", "swap", "complete", "record"}

ColdCache == [s \in Schedules |-> Never]

Init ==
  /\ now = 0
  /\ schedules \in [Schedules -> [cid : {0}, active : {TRUE}, archived : {FALSE},
                                  interval : Intervals, created : {0}, total : {0}]]
  /\ executions = <<>>
  /\ buys = <<>>
  /\ logs = {}
  /\ mocked \in MockModes
  /\ answers = {}
  /\ lastExecution = ColdCache
  /\ locks = {}
  /\ ticks = [t \in Ticks |-> NoTick]
  /\ acknowledged = {}
  /\ calm \in BOOLEAN
  /\ envSteps = 0

---------------------------------------------------------------------------
(* The lock, the cache and the loop over the schedules that were read.     *)

SameContract(x, y) == x.schedule = y.schedule /\ x.cid = y.cid

LockedBy(held, x) ==
  \E l \in held : SameContract(l, x) /\ now - l.at < LockTtl

Locking_StoresExpiry(held, x) ==
  {l \in held : ~SameContract(l, x)}
    \union {[schedule |-> x.schedule, cid |-> x.cid, at |-> now + LockTtl]}

Locking(held, x) ==
  {l \in held : ~SameContract(l, x)}
    \union {[schedule |-> x.schedule, cid |-> x.cid, at |-> now]}

Unlocking(held, x) == {l \in held : ~SameContract(l, x)}

(* isDue: the interval has passed since the last execution, or since the   *)
(* schedule was created if none is known.                                  *)
IsDue_Always(last, x) == TRUE

IsDue(last, x) ==
  now - (IF last[x.schedule] = Never THEN x.created ELSE last[x.schedule])
    >= x.interval

(* The loop of tick t, up to the next schedule it executes or to its end,  *)
(* when held are the locks.                                                *)
Proceed(t, todo, held, last) ==
  LET ready == {i \in DOMAIN todo : ~LockedBy(held, todo[i]) /\ IsDue(last, todo[i])}
      next  == Min(ready)
  IN
  \/ /\ ready = {}
     /\ ticks' = [ticks EXCEPT ![t] = NoTick]
     /\ locks' = held
  \/ /\ ready # {}
     /\ ticks' = [ticks EXCEPT ![t] =
                    [step |-> "execute", item |-> todo[next], execution |-> 0,
                     todo |-> SubSeq(todo, next + 1, Len(todo))]]
     /\ locks' = Locking(held, todo[next])

(* The finally block, after which the loop goes on.                        *)
NextSchedule(t) ==
  Proceed(t, ticks[t].todo, Unlocking(locks, ticks[t].item), lastExecution)

---------------------------------------------------------------------------
(* Steps of a tick.                                                        *)

Active == {s \in Schedules : schedules[s].active /\ ~schedules[s].archived}

(* The ledger answers with the active schedules, in any order.             *)
Scan(t) ==
  /\ Idle(t)
  /\ calm => \A d \in Ticks : Idle(d)
  /\ Active # {}
  /\ \E order \in SetToSeqs(Active) :
       ticks' = [ticks EXCEPT ![t] =
         [step |-> "scanned",
          todo |-> [i \in DOMAIN order |->
                      [schedule |-> order[i], cid |-> schedules[order[i]].cid,
                       interval |-> schedules[order[i]].interval,
                       created  |-> schedules[order[i]].created]]]]
  /\ UNCHANGED <<now, ledgerVars, clientVars, buys, memoryVars, acknowledged, calm, envSteps>>

(* An empty cache is first filled from the logs, batch by batch.           *)
StartLoop(t) ==
  /\ At(t, "scanned")
  /\ \/ /\ lastExecution = ColdCache
        /\ ticks' = [ticks EXCEPT ![t] =
             [step |-> "hydrate", todo |-> ticks[t].todo, unread |-> logs]]
        /\ UNCHANGED locks
     \/ /\ lastExecution # ColdCache
        /\ Proceed(t, ticks[t].todo, locks, lastExecution)
  /\ UNCHANGED <<now, ledgerVars, clientVars, buys, lastExecution, acknowledged, calm,
                 envSteps>>

HydrateBatch(t) ==
  /\ At(t, "hydrate")
  /\ \E batch \in SUBSET ticks[t].unread :
       /\ batch # {}
       /\ lastExecution' = [s \in Schedules |->
            Max({lastExecution[s]} \union {l.at : l \in {k \in batch : k.schedule = s}})]
       /\ ticks' = [ticks EXCEPT ![t].unread = @ \ batch]
  /\ UNCHANGED <<now, ledgerVars, clientVars, buys, locks, acknowledged, calm, envSteps>>

(* The last batch has been read, or reading the next one throws, which     *)
(* ends the tick.                                                          *)
EndHydration(t) ==
  /\ At(t, "hydrate")
  /\ \/ /\ ticks[t].unread = {}
        /\ Proceed(t, ticks[t].todo, locks, lastExecution)
     \/ /\ ticks' = [ticks EXCEPT ![t] = NoTick]
        /\ UNCHANGED locks
  /\ UNCHANGED <<now, ledgerVars, clientVars, buys, lastExecution, acknowledged, calm,
                 envSteps>>

(* ExecuteDCA, unless the fee budget is too small.  The choice has an      *)
(* argument, executedAt, that dca.ts does not pass: a ledger that insists  *)
(* on it rejects every call, which is the last case below; the others are  *)
(* those of a ledger that accepts the call.                                *)
ExecuteDCA(t) ==
  LET x == ticks[t].item
      commits ==
        /\ schedules[x.schedule].cid = x.cid
        /\ x.schedule \in Active
        /\ Len(executions) < MaxExecutions
        /\ schedules' = [schedules EXCEPT ![x.schedule].cid = @ + 1,
                                          ![x.schedule].total = @ + 1]
        /\ executions' = Append(executions, [schedule |-> x.schedule,
                                             status |-> "Pending", at |-> now])
        /\ buys' = Append(buys, 0)
        /\ UNCHANGED logs
  IN
  /\ At(t, "execute")
  /\ \/ /\ commits
        /\ ticks' = [ticks EXCEPT ![t].step = "swap",
                                  ![t].execution = Len(executions) + 1]
        /\ UNCHANGED locks
     \/ commits /\ NextSchedule(t)
     \/ UNCHANGED <<ledgerVars, buys>> /\ NextSchedule(t)
  /\ UNCHANGED <<now, clientVars, lastExecution, acknowledged, calm, envSteps>>

(* The answers a venue may give to its last attempt, when n were executed. *)
MayAnswer(venue, n) ==
  {o \in Outcomes :
     \/ o = "filled" /\ n > 0
     \/ o = "partial" /\ venue = "temple" /\ n > 0
     \/ o = "rejected" /\ venue = "temple" /\ n < SwapAttempts[venue]}

(* The router returns: the tick takes every answer for a buy.              *)
Answered(t, outcome) ==
  /\ \/ outcome = "filled" /\ UNCHANGED envSteps
     \/ outcome # "filled" /\ envSteps < MaxEnvSteps /\ envSteps' = envSteps + 1
  /\ answers' = answers \union {[execution |-> ticks[t].execution, outcome |-> outcome]}
  /\ ticks' = [ticks EXCEPT ![t].step = "complete"]
  /\ UNCHANGED locks

VenueSwap_GoesOn(t, venue) ==
  \E n \in 0..SwapAttempts[venue] :
    /\ buys' = [buys EXCEPT ![ticks[t].execution] = @ + n]
    /\ \/ \E o \in MayAnswer(venue, n) : Answered(t, o)
       \/ /\ ticks' = [ticks EXCEPT ![t].step = "complete"]
          /\ UNCHANGED <<answers, locks, envSteps>>

(* A client that throws may have had the buy executed.                     *)
VenueSwap(t, venue) ==
  \E n \in 0..SwapAttempts[venue] :
    /\ buys' = [buys EXCEPT ![ticks[t].execution] = @ + n]
    /\ \/ \E o \in MayAnswer(venue, n) : Answered(t, o)
       \/ NextSchedule(t) /\ UNCHANGED <<answers, envSteps>>

(* The buy itself.  A mocked client answers, and nothing is executed.      *)
Swap(t) ==
  /\ At(t, "swap")
  /\ \E venue \in Venues :
       \/ venue \in mocked /\ UNCHANGED buys /\ Answered(t, "mocked")
       \/ venue \notin mocked /\ VenueSwap(t, venue)
  /\ UNCHANGED <<now, ledgerVars, mocked, lastExecution, acknowledged, calm>>

CompleteDCAExecution_UntilAccepted(t) ==
  LET e == ticks[t].execution
      s == ticks[t].item.schedule
      commits ==
        /\ executions[e].status = "Pending"
        /\ executions' = [executions EXCEPT ![e].status = "Archived"]
        /\ logs' = logs \union {[schedule |-> s, execution |-> e, at |-> now]}
        /\ UNCHANGED schedules
  IN
  /\ At(t, "complete")
  /\ \/ /\ commits
        /\ lastExecution' = [lastExecution EXCEPT ![s] = now]
        /\ acknowledged' = acknowledged \union {e}
        /\ ticks' = [ticks EXCEPT ![t].step = "record"]
        /\ UNCHANGED locks
     \/ /\ commits \/ UNCHANGED ledgerVars
        /\ UNCHANGED <<ticks, locks, lastExecution, acknowledged>>
  /\ UNCHANGED <<now, clientVars, buys, calm, envSteps>>

(* CompleteDCAExecution archives the execution and creates the DCALog; the *)
(* cache learns of it when the response arrives.                           *)
CompleteDCAExecution(t) ==
  LET e == ticks[t].execution
      s == ticks[t].item.schedule
      commits ==
        /\ executions[e].status = "Pending"
        /\ executions' = [executions EXCEPT ![e].status = "Archived"]
        /\ logs' = logs \union {[schedule |-> s, execution |-> e, at |-> now]}
        /\ UNCHANGED schedules
  IN
  /\ At(t, "complete")
  /\ \/ /\ commits
        /\ lastExecution' = [lastExecution EXCEPT ![s] = now]
        /\ acknowledged' = acknowledged \union {e}
        /\ ticks' = [ticks EXCEPT ![t].step = "record"]
        /\ UNCHANGED locks
     \/ /\ commits \/ UNCHANGED ledgerVars
        /\ NextSchedule(t)
        /\ UNCHANGED <<lastExecution, acknowledged>>
  /\ UNCHANGED <<now, clientVars, buys, calm, envSteps>>

(* Activity and rewards are recorded at best effort, under the lock.       *)
Record(t) ==
  /\ At(t, "record")
  /\ NextSchedule(t)
  /\ UNCHANGED <<now, ledgerVars, clientVars, buys, lastExecution, acknowledged, calm,
                 envSteps>>

Step(t) ==
  \/ StartLoop(t) \/ HydrateBatch(t) \/ EndHydration(t) \/ ExecuteDCA(t)
  \/ Swap(t) \/ CompleteDCAExecution(t) \/ Record(t)

---------------------------------------------------------------------------
(* The environment.                                                        *)

Clock ==
  /\ now < MaxTime
  /\ now' = now + 1
  /\ UNCHANGED <<ledgerVars, clientVars, buys, memoryVars, ticks, acknowledged, calm,
                 envSteps>>

UserChoice(s, changed) ==
  /\ envSteps < MaxEnvSteps
  /\ envSteps' = envSteps + 1
  /\ ~schedules[s].archived
  /\ schedules' = [schedules EXCEPT ![s] = changed]
  /\ UNCHANGED <<now, executions, logs, clientVars, buys, memoryVars, ticks,
                 acknowledged, calm>>

UpdateDCAAmount(s) == UserChoice(s, [schedules[s] EXCEPT !.cid = @ + 1])

UpdateDCAFrequency(s, i) ==
  /\ ~calm
  /\ UserChoice(s, [schedules[s] EXCEPT !.cid = @ + 1, !.interval = i])

PauseOrResumeDCA(s, a) ==
  UserChoice(s, [schedules[s] EXCEPT !.cid = @ + 1, !.active = a])

CancelDCA(s) == UserChoice(s, [schedules[s] EXCEPT !.archived = TRUE])

(* The process restarts: lock, cache and ticks are gone.                   *)
Crash ==
  /\ ~calm
  /\ envSteps < MaxEnvSteps
  /\ envSteps' = envSteps + 1
  /\ lastExecution' = ColdCache
  /\ locks' = {}
  /\ ticks' = [t \in Ticks |-> NoTick]
  /\ UNCHANGED <<now, ledgerVars, clientVars, buys, acknowledged, calm>>

Environment ==
  \/ Clock
  \/ \E s \in Schedules : UpdateDCAAmount(s) \/ CancelDCA(s)
  \/ \E s \in Schedules, i \in Intervals : UpdateDCAFrequency(s, i)
  \/ \E s \in Schedules, a \in BOOLEAN : PauseOrResumeDCA(s, a)
  \/ Crash

Next ==
  \/ \E t \in Ticks : Scan(t) \/ Step(t)
  \/ Environment

Spec == Init /\ [][Next]_vars

(* Every await of a tick settles.                                          *)
FairSpec == Spec /\ \A t \in Ticks : WF_vars(Step(t))

---------------------------------------------------------------------------
(* Properties.                                                             *)

TypeOK ==
  /\ now \in 0..MaxTime
  /\ schedules \in [Schedules -> ScheduleContract]
  /\ executions \in Seq(Execution)
  /\ buys \in Seq(Nat)
  /\ Len(buys) = Len(executions)
  /\ logs \subseteq Log
  /\ mocked \subseteq Venues
  /\ answers \subseteq Answer
  /\ lastExecution \in [Schedules -> Nat \union {Never}]
  /\ locks \subseteq [schedule : Schedules, cid : Nat, at : 0..now]
  /\ ticks \in [Ticks -> {NoTick} \union Reading \union Hydrating \union Buying]
  /\ acknowledged \subseteq DOMAIN executions
  /\ calm \in BOOLEAN
  /\ envSteps \in 0..MaxEnvSteps

(* The ledger accounts for every buy: the venue was used for an execution  *)
(* only if that is logged or still Pending, hence visible as unfinished;   *)
(* an execution is logged once, and only if a venue answered it.           *)
BuysAreAccountedFor ==
  /\ \A e \in DOMAIN executions :
       executions[e].status = "Pending" \/ \E l \in logs : l.execution = e
  /\ \A l \in logs : \E a \in answers : a.execution = l.execution
  /\ \A l, k \in logs : l.execution = k.execution => l = k

(* An answer is backed by a buy for its execution, unless it is Temple's   *)
(* rejection or a mocked client's invention: those two are logged as buys  *)
(* with nothing behind them, and nothing else is.  An execution is         *)
(* answered once.                                                          *)
AnswersAreBacked ==
  /\ \A a \in answers :
       /\ a.execution \in DOMAIN buys
       /\ a.outcome \in {"filled", "partial"} => buys[a.execution] > 0
       /\ a.outcome = "mocked" => mocked # {}
  /\ \A a, b \in answers : a.execution = b.execution => a = b

(* Two ticks never work on one execution, and a tick that swaps or         *)
(* completes finds its execution Pending.                                  *)
ExecutionsAreExclusive ==
  \A t \in Ticks : ticks[t].step \in {"swap", "complete"} =>
    /\ executions[ticks[t].execution].status = "Pending"
    /\ executions[ticks[t].execution].schedule = ticks[t].item.schedule
    /\ \A d \in Ticks \ {t} : ticks[d].step \in {"swap", "complete"}
         => ticks[d].execution # ticks[t].execution

(* A lock is held only on behalf of a tick that works on that contract: no *)
(* schedule is locked out by a tick that failed, ended or crashed.         *)
LocksHaveHolders ==
  \A l \in locks : \E t \in Ticks : Processes(t) /\ SameContract(ticks[t].item, l)

(* The cache never holds back a schedule on account of a buy that is not   *)
(* on the ledger.                                                          *)
CacheIsBacked ==
  \A s \in Schedules : lastExecution[s] # Never =>
    \E l \in logs : l.schedule = s /\ l.at <= lastExecution[s]

(* Ticks that do not overlap, without a restart, buy a schedule again      *)
(* within its interval only if they were not told that the last buy was    *)
(* completed.                                                              *)
AcknowledgedBuysAreSpaced ==
  calm => \A d, e \in DOMAIN executions :
    (/\ d < e
     /\ d \in acknowledged
     /\ executions[d].schedule = executions[e].schedule)
      => executions[e].at - executions[d].at >= schedules[executions[e].schedule].interval

(* Every tick ends, whatever fails on its way.                             *)
TicksEnd == \A t \in Ticks : ~Idle(t) ~> Idle(t)

(* Locks, cache, executions, logs and the venues' answers agree on what    *)
(* was bought, and exactly the rejections and the mocked answers have      *)
(* nothing behind them (executeDueSchedules, SmartRouter.executeSwap and   *)
(* CompleteDCAExecution).                                                  *)
ExecutionsAreSound ==
  /\ ExecutionsAreExclusive
  /\ BuysAreAccountedFor
  /\ AnswersAreBacked
  /\ LocksHaveHolders
  /\ CacheIsBacked

---------------------------------------------------------------------------
(* Claims of the repository the code does not meet.                        *)

(* dca.ts on executingSchedules: "preventing the same schedule from being  *)
(* processed concurrently by overlapping cron ticks".                      *)
NotProcessedConcurrently ==
  \A t, d \in Ticks : Processes(t) /\ Processes(d) /\ t # d
    => ticks[t].item.schedule # ticks[d].item.schedule

(* dca.ts on the cold start: the logs are read in batches because a        *)
(* truncated read "could cause a double-buy".  A cache that has been       *)
(* filled in part is not taken for a full one.                             *)
PartialHydrationIsNotKept ==
  [][\A t \in Ticks :
       At(t, "hydrate") /\ ticks'[t].step # "hydrate" /\ ticks[t].unread # {}
         => lastExecution' = ColdCache]_vars
===========================================================================
