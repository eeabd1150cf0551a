----------------------------- MODULE StoreAfter -----------------------------
(***************************************************************************)
(* DatabaseManager with the clock of its timer coroutine: the Interval of  *)
(* async/scheduler/interval.cpp over asio's steady timer.  Time passes at  *)
(* any moment, between any two steps; the coroutine may be resumed late,   *)
(* and while it stores in its own call the next period is running.         *)
(***************************************************************************)
EXTENDS DatabaseManager, Integers

CONSTANTS
    Period,      \* store_after_, in units of time
    MaxLate      \* how much of a delay is told apart (a bound)

ASSUME StoreAfterAssumption ==
    /\ Period \in Nat \ {0}       \* the command line checks PositiveNumber
    /\ MaxLate \in Nat

VARIABLES
    timerSet,    \* Interval::timer_ has a value
    due,         \* time until its expiry; below 0 when it is past
    unticked,    \* history: time since the timer was set, less a period for each
                 \* time that the wait has returned, up to MaxUnticked
    waited       \* history: time the oldest buffered batch has spent while the
                 \* timer was counting down towards its flush

clockVars == <<timerSet, due, unticked, waited>>
timedVars == <<vars, clockVars>>

UpTo(bound, n) == IF n > bound THEN bound ELSE n

(* A period and the longest delay that is told apart: as much as a timer that
   fires for what it has missed needs. *)
MaxUnticked == Period + MaxLate

TimedInit ==
    /\ Init
    /\ timerSet = FALSE
    /\ due = Period
    /\ unticked = 0
    /\ waited = 0

(* A step of the system that leaves the timer alone takes no time. *)
OldestBatch == waited' = IF buffer = <<>> \/ buffer' = <<>> THEN 0 ELSE waited

Untimed(step) == step /\ OldestBatch /\ UNCHANGED <<timerSet, due, unticked>>

(* The first call of Tick creates the timer. *)
WaitBegins ==
    /\ TimerCheck
    /\ timerSet' = (timerSet \/ pc'[Timer] = "ticking")
    /\ due' = IF timerSet THEN due ELSE Period
    /\ UNCHANGED <<unticked, waited>>

ResetForgotten == UNCHANGED due                     \* mutant: the expiry stays in the past

Reset == due' = Period

WaitReturns ==
    /\ Tick
    /\ due <= 0
    /\ Reset
    /\ unticked' = unticked - Period
    /\ UNCHANGED <<timerSet, waited>>

WaitFails ==
    /\ TickFails
    /\ Reset
    /\ UNCHANGED <<timerSet, unticked, waited>>

Elapse ==
    /\ due' = IF timerSet /\ due > -MaxLate THEN due - 1 ELSE due
    /\ unticked' = IF timerSet THEN UpTo(MaxUnticked, unticked + 1) ELSE unticked
    /\ waited' = IF buffer # <<>> /\ timerSet /\ due > 0 /\ pc[Timer] # "ticked"
                 THEN UpTo(Period + 1, waited + 1) ELSE waited
    /\ UNCHANGED <<vars, timerSet>>

TimerRuns == WaitBegins \/ WaitReturns \/ WaitFails
             \/ Untimed(TimerTakes) \/ Untimed(TimerFindsSchedulerGone)

TimedNext ==
    \/ \E c \in Callers : Untimed(PushBack(c)) \/ Untimed(TakeAt(c)) \/ Untimed(BelowThreshold(c))
    \/ \E a \in Actors, j \in Jobs : Untimed(SpawnStoreData(a, j))
    \/ \E j \in Jobs : Untimed(StartJob(j)) \/ Untimed(RunJob(j)) \/ Untimed(ResultHandler(j))
    \/ TimerRuns
    \/ Untimed(AddStore)
    \/ Untimed(Stop)
    \/ Untimed(Expire)
    \/ Elapse

(***************************************************************************)
(* As in DatabaseManager, but that the timer ticks is no assumption: time  *)
(* passes, and a coroutine that can be resumed is.                         *)
(***************************************************************************)
TimedFairness ==
    /\ \A c \in Callers : WF_timedVars(Untimed(TakeAt(c)) \/ Untimed(BelowThreshold(c)))
    /\ \A a \in Actors : SF_timedVars(\E j \in Jobs : Untimed(SpawnStoreData(a, j)))
    /\ \A j \in Jobs :
          WF_timedVars(Untimed(StartJob(j)) \/ Untimed(RunJob(j)) \/ Untimed(ResultHandler(j)))
    /\ WF_timedVars(TimerRuns)
    /\ WF_timedVars(Elapse)

TimedSpec == TimedInit /\ [][TimedNext]_timedVars /\ TimedFairness

-----------------------------------------------------------------------------
(* However late the coroutine is resumed, however long its own writes take and
   whatever the callers take from it in between, the timer does not run ahead of
   the clock: it has ticked at most once for each period since it was set.  That
   leaves it open what becomes of the ticks that are missed: Interval drops them,
   while interval.h says that the timer fires for them until it has caught up. *)
TicksWithinTime == unticked >= 0

(* Apart from the time by which the timer coroutine is resumed late, no batch
   waits in the buffer for longer than the period: batches that come between the
   tick and the flush are flushed by it, those that come after the flush find
   the next period running. *)
WaitsAtMostAPeriod == ~Down => waited <= Period

=============================================================================
