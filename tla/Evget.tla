------------------------------- MODULE Evget -------------------------------
(***************************************************************************)
(* The process: main.cpp over the Scheduler, with the event loop           *)
(* (event_loop.h, event_handler.h), the timer coroutine of DatabaseManager *)
(* and the StoreCoroutines as the tasks of its pool, and with the          *)
(* references that keep the Scheduler alive.                               *)
(*                                                                         *)
(* What the StoreCoroutines write is the subject of DatabaseManager; here  *)
(* a StoreEvent spawns one or does not.                                    *)
(***************************************************************************)
EXTENDS Scheduler

CONSTANTS
    Loop, Timer,   \* two of the Tasks; the others are StoreCoroutines
    TimerWrite     \* the one that the timer coroutine spawns

ASSUME EvgetAssumption ==
    /\ {Loop, Timer, TimerWrite} \subseteq Tasks
    /\ Loop # Timer /\ TimerWrite \notin {Loop, Timer}

VARIABLES
    main,          \* where main() is
    exit_code,
    holders,       \* who owns a shared_ptr to the Scheduler
    owned,         \* history: main has come back from Join
    selfDestroyed, \* history: a thread of the pool destroyed the Scheduler
    loop,          \* where the event loop is
    loopStopped,   \* EventLoop::stopped_
    timer          \* where the StoreAfterCoroutine is

mainVars == <<main, exit_code, owned>>
loopVars == <<loop, loopStopped>>
refVars  == <<holders, selfDestroyed>>

vars == <<poolVars, mainVars, refVars, loopVars, timer>>

Writes     == Tasks \ {Loop, Timer}
LoopWrites == Writes \ {TimerWrite}

(* The manager's constructor has spawned the timer coroutine. *)
Init ==
    /\ SchedulerInit
    /\ main = "spawn"
    /\ exit_code = 0
    /\ holders = {"main", "manager"}
    /\ owned = FALSE
    /\ selfDestroyed = FALSE
    /\ loop = "check"
    /\ loopStopped = FALSE
    /\ timer = "check"

(***************************************************************************)
(* main()                                                                  *)
(***************************************************************************)
SpawnStoreAfter ==
    /\ main = "spawn"
    /\ SpawnQueued(Timer)
    /\ main' = "stores"
    /\ UNCHANGED <<exit_code, owned, refVars, loopVars, timer>>

(* ToStores, then AddStore for each. *)
ToStores ==
    /\ main = "stores"
    /\ \/ main' = "backend" /\ UNCHANGED exit_code
       \/ main' = "leave" /\ exit_code' = 1
    /\ UNCHANGED <<poolVars, owned, refVars, loopVars, timer>>

(* Backend::Create or Handler() returns an error, or throws. *)
BackendFails ==
    /\ main = "backend"
    /\ main' = "leave" /\ exit_code' = 1
    /\ UNCHANGED <<poolVars, owned, refVars, loopVars, timer>>

BackendStarts ==
    /\ main = "backend"
    /\ SpawnQueued(Loop)
    /\ main' = "join"
    /\ UNCHANGED <<exit_code, owned, refVars, loopVars, timer>>

LeaveWithoutJoin ==                                 \* mutant
    /\ main = "join"
    /\ main' = "leave" /\ owned' = TRUE
    /\ UNCHANGED <<poolVars, exit_code, refVars, loopVars, timer>>

JoinAfterHandlers ==                                \* mutant: a latch that handlers count down
    /\ main = "join" /\ Joined /\ \A t \in Tasks : task[t] # "posted"
    /\ main' = "leave" /\ owned' = TRUE
    /\ UNCHANGED <<poolVars, exit_code, refVars, loopVars, timer>>

Join ==
    /\ main = "join" /\ Joined
    /\ main' = "leave" /\ owned' = TRUE
    /\ UNCHANGED <<poolVars, exit_code, refVars, loopVars, timer>>

(***************************************************************************)
(* Locals are destroyed in reverse order: the manager, then main's         *)
(* reference to the Scheduler.  Who drops the last reference destroys the  *)
(* pool, which halts it and joins its threads.                             *)
(***************************************************************************)
DestroyManager ==
    /\ main = "leave"
    /\ main' = "managerGone"
    /\ holders' = holders \ {"manager"}
    /\ UNCHANGED <<poolVars, exit_code, owned, selfDestroyed, loopVars, timer>>

DropScheduler ==
    /\ main = "managerGone"
    /\ main' = IF holders = {"main"} THEN "destroy" ELSE "returned"
    /\ holders' = holders \ {"main"}
    /\ UNCHANGED <<poolVars, exit_code, owned, selfDestroyed, loopVars, timer>>

HaltPool ==
    /\ main = "destroy"
    /\ main' = "destroyJoin"
    /\ halted' = TRUE
    /\ UNCHANGED <<task, caller, outcome, stopped, exit_code, owned, refVars, loopVars, timer>>

DestroyJoin ==
    /\ main = "destroyJoin" /\ Joined
    /\ main' = "returned"
    /\ UNCHANGED <<poolVars, exit_code, owned, refVars, loopVars, timer>>

MainStep ==
    SpawnStoreAfter \/ ToStores \/ BackendFails \/ BackendStarts \/ Join
        \/ DestroyManager \/ DropScheduler \/ HaltPool \/ DestroyJoin

(***************************************************************************)
(* EventLoop::Start and EventHandler::Notify.  Next blocks the thread until*)
(* there is an event.                                                      *)
(***************************************************************************)
LoopCheck ==
    /\ Runs(Loop) /\ loop = "check"
    /\ IF loopStopped THEN Finish(Loop, "value") /\ UNCHANGED loop
                      ELSE loop' = "next" /\ UNCHANGED poolVars
    /\ UNCHANGED <<mainVars, refVars, loopStopped, timer>>

LoopNext ==
    /\ Runs(Loop) /\ loop = "next"
    /\ loop' = "notify"
    /\ UNCHANGED <<poolVars, mainVars, refVars, loopStopped, timer>>

LoopNextFails ==
    /\ Runs(Loop) /\ loop = "next"
    /\ Finish(Loop, "error")
    /\ UNCHANGED <<mainVars, refVars, loopVars, timer>>

(* TransformEvent, or what it calls, throws. *)
LoopThrows ==
    /\ Runs(Loop) /\ loop = "notify"
    /\ Finish(Loop, "exception")
    /\ UNCHANGED <<mainVars, refVars, loopVars, timer>>

(* The filter drops the event, or the buffer is below n_events. *)
LoopBuffers ==
    /\ Runs(Loop) /\ loop = "notify"
    /\ loop' = "check"
    /\ UNCHANGED <<poolVars, mainVars, refVars, loopStopped, timer>>

LoopSpawns(w) ==
    /\ Runs(Loop) /\ loop = "notify"
    /\ SpawnInline(w, Loop)
    /\ loop' = "check"
    /\ UNCHANGED <<mainVars, refVars, loopStopped, timer>>

LoopStep ==
    \/ LoopCheck \/ LoopThrows \/ LoopBuffers
    \/ \E w \in LoopWrites : LoopSpawns(w)

(***************************************************************************)
(* SpawnResult's handler for the event loop.                               *)
(***************************************************************************)
LoopHandler ==
    /\ Handler(Loop, FALSE)
    /\ loopStopped' = TRUE
    /\ exit_code' = IF outcome[Loop] = "error" THEN 1 ELSE exit_code
    /\ UNCHANGED <<main, owned, refVars, loop, timer>>

(***************************************************************************)
(* StoreCoroutines and DatabaseManager::ResultHandler.                     *)
(***************************************************************************)
WriteEnds(w) ==
    /\ task[w] = "inline"
    /\ \E result \in {"value", "error", "exception"} : Finish(w, result)
    /\ UNCHANGED <<mainVars, refVars, loopVars, timer>>

WriteHandler(w) ==
    /\ Handler(w, outcome[w] = "error")
    /\ UNCHANGED <<mainVars, refVars, loopVars, timer>>

(***************************************************************************)
(* StoreAfterCoroutine.  It owns a reference in two blocks, neither of     *)
(* which suspends.  Its handler is posted only if it returns before its    *)
(* first suspension, and does nothing then; else it is called at once.     *)
(***************************************************************************)
TimerLocks ==
    /\ Runs(Timer) /\ timer = "check"
    /\ IF holders = {}
       THEN Goto(Timer, "finished") /\ UNCHANGED <<holders, timer>>
       ELSE holders' = holders \cup {"timer"} /\ timer' = "locked" /\ UNCHANGED task
    /\ UNCHANGED <<caller, outcome, stopped, halted, mainVars, selfDestroyed, loopVars>>

Unlock ==
    /\ holders' = holders \ {"timer"}
    /\ selfDestroyed' = (selfDestroyed \/ holders = {"timer"})

TimerUnlocks ==
    /\ Runs(Timer) /\ timer = "locked"
    /\ Unlock
    /\ timer' = "ticked"
    /\ Goto(Timer, IF stopped THEN "finished" ELSE "waiting")
    /\ UNCHANGED <<caller, outcome, stopped, halted, mainVars, loopVars>>

TickFails ==
    /\ Runs(Timer) /\ timer = "ticked"
    /\ Goto(Timer, "finished")
    /\ StopIf(TRUE)
    /\ UNCHANGED <<caller, outcome, mainVars, refVars, loopVars, timer>>

TimerLocksAgain ==
    /\ Runs(Timer) /\ timer = "ticked"
    /\ IF holders = {}
       THEN Goto(Timer, "finished") /\ UNCHANGED <<holders, timer>>
       ELSE holders' = holders \cup {"timer"} /\ timer' = "take" /\ UNCHANGED task
    /\ UNCHANGED <<caller, outcome, stopped, halted, mainVars, selfDestroyed, loopVars>>

TimerSpawns ==
    /\ Runs(Timer) /\ timer = "take"
    /\ SpawnInline(TimerWrite, Timer)
    /\ timer' = "taken"
    /\ UNCHANGED <<mainVars, refVars, loopVars>>

TimerUnlocksAgain ==
    /\ Runs(Timer) /\ timer = "taken"
    /\ Unlock
    /\ timer' = "check"
    /\ UNCHANGED <<poolVars, mainVars, loopVars>>

TimerStep ==
    TimerLocks \/ TimerUnlocks \/ TickFails \/ TimerLocksAgain \/ TimerSpawns
        \/ TimerUnlocksAgain

(* The pool gives t a thread, or its timer expires: not before the write of
   the last tick is over (a bound, for TimerWrite is one coroutine). *)
PoolStep(t) ==
    /\ Run(t) \/ Wake(t)
    /\ task[t] = "waiting" => Over(TimerWrite)
    /\ UNCHANGED <<mainVars, refVars, loopVars, timer>>

Next ==
    \/ MainStep
    \/ LoopNext \/ LoopNextFails \/ LoopStep \/ LoopHandler
    \/ TimerStep
    \/ \E w \in Writes : WriteEnds(w) \/ WriteHandler(w)
    \/ \E t \in Tasks : PoolStep(t)

(***************************************************************************)
(* Threads that can go on do.  The pool's queue is first in, first out, so *)
(* what is queued or posted is not passed over for ever (strong fairness). *)
(* No event has to arrive, and the event source need not fail either:      *)
(* LoopNext and LoopNextFails are not fair.                                *)
(***************************************************************************)
Fairness ==
    /\ WF_vars(MainStep)
    /\ WF_vars(LoopStep)
    /\ WF_vars(TimerStep)
    /\ SF_vars(LoopHandler)
    /\ \A w \in Writes : WF_vars(WriteEnds(w)) /\ SF_vars(WriteHandler(w))
    /\ \A t \in Tasks : SF_vars(PoolStep(t))

Spec == Init /\ [][Next]_vars /\ Fairness

-----------------------------------------------------------------------------
(***************************************************************************)
(* Properties.                                                             *)
(***************************************************************************)

(* Every variable has its type, and no more threads run than there are. *)
TypeOK ==
    /\ SchedulerTypeOK /\ Cardinality(Busy) <= DefaultThreadPoolSize
    /\ main \in {"spawn", "stores", "backend", "join", "leave", "managerGone", "destroy",
                 "destroyJoin", "returned"}
    /\ exit_code \in 0..1 /\ owned \in BOOLEAN /\ selfDestroyed \in BOOLEAN
    /\ holders \subseteq {"main", "manager", "timer"}
    /\ loop \in {"check", "next", "notify"} /\ loopStopped \in BOOLEAN
    /\ timer \in {"check", "locked", "ticked", "take", "taken"}

(* Once main has joined, the scheduler was stopped (a pool whose timer goes on is
   not done), what main then destroys (the backend, exit_code, the manager, the
   stores) is used by no coroutine and by no handler any more, although all of
   them hold plain references to it, and the last reference to the Scheduler is
   main's own: no thread of the pool is left to drop it, and so to join itself. *)
DestroyedUnused ==
    owned => /\ stopped /\ ~selfDestroyed
             /\ Busy = {}
             /\ \A t \in Tasks : task[t] # "inline" /\ (task[t] = "posted" => halted)

(* A completion handler is run, or the pool is halted: an event loop that
   blocks one thread for ever does not keep the others from it. *)
HandlersRun == \A t \in Tasks : (task[t] = "posted") ~> (task[t] # "posted" \/ halted)

(* An exception in the event loop ends the process. *)
ExceptionEndsProcess ==
    (task[Loop] = "posted" /\ outcome[Loop] = "exception") ~> (main = "returned")

(* Once the scheduler is stopped and the event loop has ended, the process ends:
   neither the timer, wherever it is, nor a write that runs keeps it, nor does a
   handler that the stop has dropped, that of the event loop's own error among
   them. *)
StoppedProcessEnds == (stopped /\ Over(Loop)) ~> (main = "returned")

(* scheduler.h: "Stop all thread pool threads as soon as possible." *)
StopEndsThreads == stopped ~> (Busy = {})
=============================================================================
