----------------------------- MODULE Scheduler -----------------------------
(***************************************************************************)
(* async/scheduler: coroutines spawned on an asio thread pool.             *)
(*                                                                         *)
(* Asio is not part of the repository; what the code depends on is this.   *)
(* A coroutine spawned by a thread of the pool runs at once, inside the    *)
(* call; one spawned from outside is queued.  A coroutine gives its thread *)
(* back only where it really suspends, so one that blocks, or only awaits  *)
(* other coroutines, keeps it.  Its completion handler is posted.  A       *)
(* halted pool starts nothing any more, and takes no thread away from a    *)
(* coroutine that runs.                                                    *)
(***************************************************************************)
EXTENDS Naturals, FiniteSets

CONSTANTS
    Tasks,                \* coroutines that may be spawned
    HardwareConcurrency   \* std::thread::hardware_concurrency()

ASSUME SchedulerAssumption == HardwareConcurrency \in Nat

VARIABLES
    task,       \* where each coroutine is
    caller,     \* whose thread an inline coroutine runs on
    outcome,    \* what it returned: a value, an error, or it threw
    stopped,    \* Scheduler::stopped_
    halted      \* the pool has been stopped

poolVars == <<task, caller, outcome, stopped, halted>>

TaskState == {"none", "queued", "running", "inline", "waiting", "posted", "finished"}

SchedulerInit ==
    /\ task = [t \in Tasks |-> "none"]
    /\ caller = [t \in Tasks |-> t]
    /\ outcome = [t \in Tasks |-> "value"]
    /\ stopped = FALSE
    /\ halted = FALSE

SchedulerTypeOK ==
    /\ task \in [Tasks -> TaskState]
    /\ caller \in [Tasks -> Tasks]
    /\ outcome \in [Tasks -> {"value", "error", "exception"}]
    /\ stopped \in BOOLEAN /\ halted \in BOOLEAN

ThreadPoolSizeUndoubled ==                          \* mutant: no "* 2"
    IF HardwareConcurrency = 0 THEN 2 ELSE HardwareConcurrency

DefaultThreadPoolSize ==
    IF HardwareConcurrency = 0 THEN 2 ELSE HardwareConcurrency * 2

Busy == {t \in Tasks : task[t] = "running"}

ThreadIdle == Cardinality(Busy) < DefaultThreadPoolSize

InCall(t) == \E u \in Tasks : task[u] = "inline" /\ caller[u] = t

(* t has the thread it runs on for itself. *)
Runs(t) == task[t] = "running" /\ ~InCall(t)

Over(t) == task[t] \in {"none", "finished"} \/ (halted /\ task[t] \in {"queued", "posted"})

Goto(t, state) == task' = [task EXCEPT ![t] = state]

(***************************************************************************)
(* Spawn, from a thread of the pool and from any other.                    *)
(***************************************************************************)
SpawnOnOwnThread(t, by) ==                          \* mutant
    /\ Over(t)
    /\ Goto(t, "running")
    /\ UNCHANGED <<caller, outcome, stopped, halted>>

SpawnInline(t, by) ==
    /\ Over(t)
    /\ Goto(t, "inline")
    /\ caller' = [caller EXCEPT ![t] = by]
    /\ UNCHANGED <<outcome, stopped, halted>>

SpawnQueued(t) ==
    /\ Over(t)
    /\ Goto(t, "queued")
    /\ UNCHANGED <<caller, outcome, stopped, halted>>

(***************************************************************************)
(* The pool.                                                               *)
(***************************************************************************)
Run(t) ==
    /\ task[t] = "queued" /\ ~halted /\ ThreadIdle
    /\ Goto(t, "running")
    /\ UNCHANGED <<caller, outcome, stopped, halted>>

Wake(t) ==
    /\ task[t] = "waiting"
    /\ Goto(t, "queued")
    /\ UNCHANGED <<caller, outcome, stopped, halted>>

Finish(t, result) ==
    /\ Goto(t, "posted")
    /\ outcome' = [outcome EXCEPT ![t] = result]
    /\ UNCHANGED <<caller, stopped, halted>>

(* Stop sets the flag and stops the pool. *)
StopIf(condition) ==
    /\ stopped' = (stopped \/ condition)
    /\ halted' = (halted \/ condition)

HandlerOnlyLogs(t, stops) ==                        \* mutant: LogException without Stop
    /\ task[t] = "posted" /\ ~halted /\ ThreadIdle
    /\ Goto(t, "finished")
    /\ StopIf(stops /\ outcome[t] # "exception")
    /\ UNCHANGED <<caller, outcome>>

(* The posted handler: LogException stops the pool on an exception; the
   handler proper may too. *)
Handler(t, stops) ==
    /\ task[t] = "posted" /\ ~halted /\ ThreadIdle
    /\ Goto(t, "finished")
    /\ StopIf(outcome[t] = "exception" \/ stops)
    /\ UNCHANGED <<caller, outcome>>

(* thread_pool::join returns when every thread has ended: none runs a
   coroutine, and the pool is halted or has no work left. *)
Joined == Busy = {} /\ \A t \in Tasks : Over(t) \/ (halted /\ task[t] = "waiting")
=============================================================================
