------------------------ MODULE EvgetLibInputProofs ------------------------
(***************************************************************************)
(* Invariants of the process with its libinput source, for any pool,       *)
(* any coroutines and any number of kernel events, whichever of them       *)
(* libinput is silent about.                                               *)
(***************************************************************************)
EXTENDS EvgetLibInput, FiniteSetTheorems, TLAPS

-----------------------------------------------------------------------------
(* GetEvent is going to poll: it is before its loop or in it, and has not
   dispatched since wait_for_poll_ was set. *)
ToPoll == pc \in {"poll", "dispatch"} \/ (pc = "out" /\ wait_for_poll)

(* NeverAsleepOnInput is not inductive: GetEvent gets to poll from a call with
   wait_for_poll_ set, so the queue must be empty by the time it is set. *)
Polls == ToPoll => L!ToSet(queue) \subseteq {L!DeviceAdded}

(* New() leaves the event of the seat in the queue, and nothing else. *)
LEMMA InitPolls == ProcessInit => Polls
BY DEF ProcessInit, L!Init, Polls, ToPoll, L!ToSet, L!DeviceAdded

(* What the process does with its source is a step of LibInput: the event loop
   takes what GetNext returns, and nobody else touches the context. *)
LEMMA SourceSteps == [ProcessNext]_allVars => L!Next \/ UNCHANGED sourceVars
BY DEF ProcessNext, Arrive, GetEvent, PollTimer, GetEventReturns, GetEventFails, Beside,
       L!Next, L!GetEventStep, allVars, sourceVars

(* Only a dispatch adds to the queue, and what it adds is asked for before the
   next poll: wait_for_poll_ is set when the queue was found empty. *)
LEMMA NextPolls == Polls /\ [ProcessNext]_allVars => Polls'
<1> SUFFICES ASSUME Polls, L!Next \/ UNCHANGED sourceVars PROVE Polls'
  BY SourceSteps
<1> USE DEF Polls, ToPoll
<1>1. CASE L!Arrive
  BY <1>1 DEF L!Arrive, L!ToSet
<1>2. CASE L!Call
  BY <1>2 DEF L!Call, L!LoopOn, L!ToSet
<1>3. CASE L!Poll \/ L!PollTimer
  BY <1>3 DEF L!Poll, L!PollTimer, L!ToSet
<1>4. CASE L!Fails
  BY <1>4 DEF L!Fails
<1>5. CASE L!Dispatch
  BY <1>5 DEF L!Dispatch
<1>6. CASE L!GetNext
  BY <1>6 DEF L!GetNext
<1>7. CASE L!GetNull
  <2>1. queue' = <<>>
    BY <1>7 DEF L!GetNull
  <2> QED  BY <2>1 DEF L!ToSet
<1>8. CASE UNCHANGED sourceVars
  BY <1>8 DEF sourceVars, L!ToSet
<1> QED  BY <1>1, <1>2, <1>3, <1>4, <1>5, <1>6, <1>7, <1>8 DEF L!Next, L!GetEventStep

(* GetEvent never blocks in poll() on a descriptor that says nothing while an
   input event that libinput has already queued waits to be returned, whatever
   main, the pool and the rest of its coroutines do meanwhile. *)
THEOREM NeverAsleep == ProcessSpec => []NeverAsleepOnInput
<1>1. Polls => NeverAsleepOnInput
  BY DEF Polls, ToPoll, NeverAsleepOnInput, L!NeverAsleepOnInput
<1> QED  BY <1>1, InitPolls, NextPolls, PTL DEF ProcessSpec

-----------------------------------------------------------------------------
(* To main, pool and coroutines, the process is Evget. *)
LEMMA EvgetSteps == [ProcessNext]_allVars => [Next]_vars
BY DEF ProcessNext, Arrive, GetEvent, PollTimer, GetEventReturns, GetEventFails, Beside,
       Next, allVars

Alive == main \in {"spawn", "stores", "backend", "join"}   \* main has not begun to leave

Types ==
    /\ task \in [Tasks -> TaskState]
    /\ stopped \in BOOLEAN /\ halted \in BOOLEAN
    /\ owned \in BOOLEAN /\ selfDestroyed \in BOOLEAN

(* While main has not begun to leave it owns the Scheduler, so that the timer
   coroutine always finds it and ends only once it is stopped. *)
WhileAlive ==
    Alive => /\ "main" \in holders
             /\ ~owned /\ ~selfDestroyed
             /\ halted = stopped
             /\ main # "spawn" => task[Timer] # "none"
             /\ task[Timer] = "finished" => stopped

(* What Join leaves behind: a halted pool, on which nothing runs and nothing
   will. *)
StillStates == TaskState \ {"running", "inline"}

AllStill == halted /\ \A t \in Tasks : task[t] \in StillStates

AfterJoin == owned => ~Alive /\ stopped /\ ~selfDestroyed /\ AllStill

JoinInv == Types /\ WhileAlive /\ AfterJoin

LEMMA InitJoinInv == Init => JoinInv
BY EvgetAssumption DEF Init, SchedulerInit, JoinInv, Types, WhileAlive, AfterJoin, TaskState, Alive

(* main's own steps: Join finds every coroutine over, or waiting on a halted
   pool; as the timer coroutine is one of them, the pool has been stopped. *)
LEMMA MainKeepsJoinInv == JoinInv /\ MainStep => JoinInv'
<1> SUFFICES ASSUME JoinInv, MainStep PROVE JoinInv'
  OBVIOUS
<1> USE EvgetAssumption DEF JoinInv, Types, WhileAlive, AfterJoin, Alive, AllStill,
                            StillStates, TaskState, poolVars, loopVars, refVars
<1>1. CASE SpawnStoreAfter
  BY <1>1 DEF SpawnStoreAfter, SpawnQueued, Goto, Over
<1>2. CASE ToStores \/ BackendFails
  BY <1>2 DEF ToStores, BackendFails
<1>3. CASE BackendStarts
  BY <1>3 DEF BackendStarts, SpawnQueued, Goto, Over
<1>4. CASE Join
  <2>1. /\ main = "join" /\ ~Alive' /\ owned'
        /\ UNCHANGED <<task, stopped, halted, selfDestroyed>>
    BY <1>4 DEF Join
  <2>2. stopped
    BY <1>4, <2>1 DEF Join, Joined, Over, Busy
  <2>3. AllStill
    BY <1>4, <2>1, <2>2 DEF Join, Joined, Over
  <2> QED  BY <2>1, <2>2, <2>3
<1>5. CASE DestroyManager \/ DropScheduler
  BY <1>5 DEF DestroyManager, DropScheduler
<1>6. CASE HaltPool
  <2>1. ~Alive /\ ~Alive' /\ halted' \in BOOLEAN /\ halted'
        /\ UNCHANGED <<task, stopped, owned, selfDestroyed>>
    BY <1>6 DEF HaltPool
  <2> QED  BY <2>1
<1>7. CASE DestroyJoin
  BY <1>7 DEF DestroyJoin
<1> QED  BY <1>1, <1>2, <1>3, <1>4, <1>5, <1>6, <1>7 DEF MainStep

(* What a coroutine, its handler or the pool may do: set one coroutine going, or
   end it.  Nothing starts on a halted pool on which nothing runs; the timer
   coroutine ends when the scheduler is stopped or gone; main's reference is
   main's. *)
TaskStep ==
    /\ \/ UNCHANGED task
       \/ \E t \in Tasks, state \in TaskState \ {"none"} :
             /\ Goto(t, state)
             /\ AllStill => state \in StillStates
             /\ t = Timer /\ state = "finished" => stopped' \/ "main" \notin holders
    /\ \E condition \in BOOLEAN : StopIf(condition)
    /\ "main" \in holders => "main" \in holders'
    /\ selfDestroyed' \in BOOLEAN
    /\ selfDestroyed' => selfDestroyed \/ ("main" \notin holders /\ ~AllStill)
    /\ UNCHANGED <<main, owned>>

LEMMA TaskStepKeepsJoinInv == JoinInv /\ TaskStep => JoinInv'
<1> SUFFICES ASSUME JoinInv, TaskStep PROVE JoinInv'
  OBVIOUS
<1> USE EvgetAssumption
<1>1. /\ stopped' \in BOOLEAN /\ halted' \in BOOLEAN
      /\ (stopped => stopped') /\ (halted => halted')
      /\ (halted = stopped => halted' = stopped')
  BY DEF TaskStep, StopIf, JoinInv, Types
<1>2. task' \in [Tasks -> TaskState]
  BY DEF TaskStep, JoinInv, Types, Goto
<1>3. Types'
  BY <1>1, <1>2 DEF TaskStep, JoinInv, Types
<1>4. AllStill => AllStill'
  BY <1>1, <1>2 DEF TaskStep, JoinInv, Types, Goto, AllStill, StillStates
<1>5. /\ task[Timer] # "none" => task'[Timer] # "none"
      /\ task'[Timer] = "finished" /\ "main" \in holders => task[Timer] = "finished" \/ stopped'
  BY <1>2 DEF TaskStep, JoinInv, Types, Goto
<1>6. WhileAlive'
  BY <1>1, <1>5 DEF TaskStep, JoinInv, Types, WhileAlive, Alive
<1>7. AfterJoin'
  BY <1>1, <1>4 DEF TaskStep, JoinInv, AfterJoin, Alive, AllStill
<1> QED  BY <1>3, <1>6, <1>7 DEF JoinInv

(* The event loop, the writes and the pool: what is not the timer coroutine. *)
LEMMA OthersAreTaskSteps ==
    ASSUME JoinInv, LoopNext \/ LoopNextFails \/ LoopStep \/ LoopHandler
                    \/ (\E w \in Writes : WriteEnds(w) \/ WriteHandler(w))
                    \/ (\E t \in Tasks : PoolStep(t))
    PROVE  TaskStep
<1> USE EvgetAssumption DEF JoinInv, Types, TaskState, StillStates, AllStill, TaskStep, Goto, StopIf,
                            poolVars, mainVars, refVars, Writes
<1>1. CASE LoopNext \/ LoopBuffers
  BY <1>1 DEF LoopNext, LoopBuffers
<1>2. CASE LoopNextFails \/ LoopThrows
  BY <1>2 DEF LoopNextFails, LoopThrows, Finish, Runs
<1>3. CASE LoopCheck
  BY <1>3 DEF LoopCheck, Finish, Runs
<1>4. ASSUME NEW w \in LoopWrites, LoopSpawns(w) PROVE TaskStep
  BY <1>4 DEF LoopSpawns, LoopWrites, SpawnInline, Runs
<1>5. CASE LoopHandler
  BY <1>5 DEF LoopHandler, Handler
<1>6. ASSUME NEW w \in Writes, WriteEnds(w) PROVE TaskStep
  BY <1>6 DEF WriteEnds, Finish
<1>7. ASSUME NEW w \in Writes, WriteHandler(w) PROVE TaskStep
  BY <1>7 DEF WriteHandler, Handler
<1>8. ASSUME NEW t \in Tasks, PoolStep(t) PROVE TaskStep
  BY <1>8 DEF PoolStep, Run, Wake
<1> QED  BY <1>1, <1>2, <1>3, <1>4, <1>5, <1>6, <1>7, <1>8 DEF LoopStep

(* The timer coroutine, which takes and gives back references of its own. *)
LEMMA TimerTakesTaskSteps == JoinInv /\ TimerStep => TaskStep
<1> SUFFICES ASSUME JoinInv, TimerStep PROVE TaskStep
  OBVIOUS
<1> USE EvgetAssumption DEF JoinInv, Types, TaskState, StillStates, AllStill, TaskStep, Goto, StopIf,
                            poolVars, mainVars, refVars, Writes
<1>1. CASE TimerLocks
  BY <1>1 DEF TimerLocks, Runs
<1>2. CASE TimerUnlocks
  <2>1. /\ task[Timer] = "running" /\ UNCHANGED <<stopped, halted, main, owned>>
        /\ holders' = holders \ {"timer"}
        /\ selfDestroyed' = (selfDestroyed \/ holders = {"timer"})
    BY <1>2 DEF TimerUnlocks, Unlock, Runs
  <2>2. PICK state \in {"finished", "waiting"} :
            Goto(Timer, state) /\ (state = "finished" => stopped)
    BY <1>2 DEF TimerUnlocks
  <2>3. ~AllStill /\ \E condition \in BOOLEAN : StopIf(condition)
    BY <2>1
  <2>4. selfDestroyed' \in BOOLEAN /\ (selfDestroyed' => selfDestroyed \/ "main" \notin holders)
    BY <2>1
  <2> QED  BY <2>1, <2>2, <2>3, <2>4
<1>3. CASE TickFails
  BY <1>3 DEF TickFails, Runs
<1>4. CASE TimerLocksAgain
  BY <1>4 DEF TimerLocksAgain, Runs
<1>5. CASE TimerSpawns
  BY <1>5 DEF TimerSpawns, SpawnInline, Runs
<1>6. CASE TimerUnlocksAgain
  BY <1>6 DEF TimerUnlocksAgain, Unlock, Runs
<1> QED  BY <1>1, <1>2, <1>3, <1>4, <1>5, <1>6 DEF TimerStep

LEMMA NextJoinInv == JoinInv /\ [Next]_vars => JoinInv'
<1> SUFFICES ASSUME JoinInv, [Next]_vars PROVE JoinInv'
  OBVIOUS
<1>1. CASE MainStep
  BY <1>1, MainKeepsJoinInv
<1>2. CASE TimerStep
  BY <1>2, TimerTakesTaskSteps, TaskStepKeepsJoinInv
<1>3. CASE UNCHANGED vars
  BY <1>3 DEF vars, poolVars, mainVars, refVars, JoinInv, Types, WhileAlive, AfterJoin, Alive,
              AllStill
<1> QED  BY <1>1, <1>2, <1>3, OthersAreTaskSteps, TaskStepKeepsJoinInv DEF Next

(* Whatever main destroys after Join is used by nobody any more, and no thread
   of the pool destroys the pool, on pools of any size, with any number of
   writes, at whatever point Stop finds them. *)
THEOREM DestroyedUnusedAlways == ProcessSpec => []DestroyedUnused
<1>1. ProcessInit => JoinInv
  BY InitJoinInv DEF ProcessInit
<1>2. JoinInv /\ [ProcessNext]_allVars => JoinInv'
  BY EvgetSteps, NextJoinInv
<1>3. JoinInv => DestroyedUnused
  BY DEF JoinInv, AfterJoin, AllStill, StillStates, DestroyedUnused, Busy
<1> QED  BY <1>1, <1>2, <1>3, PTL DEF ProcessSpec

-----------------------------------------------------------------------------
(***************************************************************************)
(* The types of the process, and the number of its threads.                *)
(***************************************************************************)
VariableTypes ==
    /\ SchedulerTypeOK
    /\ main \in {"spawn", "stores", "backend", "join", "leave", "managerGone", "destroy",
                 "destroyJoin", "returned"}
    /\ exit_code \in 0..1 /\ owned \in BOOLEAN /\ selfDestroyed \in BOOLEAN
    /\ holders \subseteq {"main", "manager", "timer"}
    /\ loop \in {"check", "next", "notify"} /\ loopStopped \in BOOLEAN
    /\ timer \in {"check", "locked", "ticked", "take", "taken"}

LEMMA InitTypes == Init => VariableTypes
<1> SUFFICES ASSUME Init PROVE VariableTypes
  OBVIOUS
<1>1. SchedulerTypeOK
  BY DEF Init, SchedulerInit, SchedulerTypeOK, TaskState
<1>2. exit_code \in 0..1 /\ holders \subseteq {"main", "manager", "timer"}
  BY DEF Init
<1>3. owned \in BOOLEAN /\ selfDestroyed \in BOOLEAN /\ loopStopped \in BOOLEAN
  BY Zenon DEF Init
<1> QED  BY <1>1, <1>2, <1>3 DEF Init, VariableTypes

LEMMA PoolUntouched == SchedulerTypeOK /\ UNCHANGED poolVars => SchedulerTypeOK'
BY DEF SchedulerTypeOK, poolVars

LEMMA CoroutineEnds ==
    ASSUME SchedulerTypeOK, NEW t \in Tasks, NEW result \in {"value", "error", "exception"},
           Finish(t, result)
    PROVE  SchedulerTypeOK'
BY DEF SchedulerTypeOK, Finish, Goto, TaskState

LEMMA MainKeepsTypes == VariableTypes /\ MainStep => VariableTypes'
<1> SUFFICES ASSUME VariableTypes, MainStep PROVE VariableTypes'
  OBVIOUS
<1> USE EvgetAssumption DEF VariableTypes, SchedulerTypeOK, TaskState, poolVars, loopVars, refVars
<1>1. CASE SpawnStoreAfter \/ BackendStarts
  <2>1. PICK t \in Tasks : SpawnQueued(t)
    BY <1>1 DEF SpawnStoreAfter, BackendStarts
  <2>2. SchedulerTypeOK'
    BY <2>1 DEF SpawnQueued, Goto
  <2> HIDE DEF SchedulerTypeOK, poolVars
  <2> QED  BY <1>1, <2>2 DEF SpawnStoreAfter, BackendStarts
<1>2. CASE HaltPool
  BY <1>2 DEF HaltPool
<1> HIDE DEF SchedulerTypeOK, poolVars
<1>3. CASE ToStores
  BY <1>3, PoolUntouched DEF ToStores
<1>4. CASE BackendFails
  BY <1>4, PoolUntouched DEF BackendFails
<1>5. CASE Join \/ DestroyJoin
  BY <1>5, PoolUntouched DEF Join, DestroyJoin
<1>6. CASE DestroyManager \/ DropScheduler
  BY <1>6, PoolUntouched DEF DestroyManager, DropScheduler
<1> QED  BY <1>1, <1>2, <1>3, <1>4, <1>5, <1>6 DEF MainStep

LEMMA LoopKeepsTypes ==
    VariableTypes /\ (LoopNext \/ LoopNextFails \/ LoopStep \/ LoopHandler) => VariableTypes'
<1> SUFFICES ASSUME VariableTypes, LoopNext \/ LoopNextFails \/ LoopStep \/ LoopHandler
             PROVE  VariableTypes'
  OBVIOUS
<1> USE EvgetAssumption DEF VariableTypes, SchedulerTypeOK, TaskState, poolVars, mainVars, loopVars,
                            refVars
<1>1. ASSUME NEW w \in LoopWrites, LoopSpawns(w) PROVE VariableTypes'
  BY <1>1 DEF LoopSpawns, LoopWrites, Writes, SpawnInline, Goto
<1>2. CASE LoopHandler
  BY <1>2 DEF LoopHandler, Handler, Goto, StopIf
<1> HIDE DEF SchedulerTypeOK, poolVars
<1>3. CASE LoopNext \/ LoopBuffers
  BY <1>3, PoolUntouched DEF LoopNext, LoopBuffers
<1>4. CASE LoopNextFails \/ LoopThrows
  BY <1>4, CoroutineEnds DEF LoopNextFails, LoopThrows
<1>5. CASE LoopCheck
  BY <1>5, PoolUntouched, CoroutineEnds DEF LoopCheck
<1> QED  BY <1>1, <1>2, <1>3, <1>4, <1>5 DEF LoopStep

LEMMA TimerKeepsTypes == VariableTypes /\ TimerStep => VariableTypes'
<1> SUFFICES ASSUME VariableTypes, TimerStep PROVE VariableTypes'
  OBVIOUS
<1> USE EvgetAssumption DEF VariableTypes, SchedulerTypeOK, TaskState, poolVars, mainVars, loopVars,
                            refVars, Goto
<1>1. CASE TimerLocks
  BY <1>1 DEF TimerLocks
<1>2. CASE TimerUnlocks
  <2>1. \E state \in {"finished", "waiting"} : task' = [task EXCEPT ![Timer] = state]
    BY <1>2 DEF TimerUnlocks
  <2> QED  BY <1>2, <2>1 DEF TimerUnlocks, Unlock
<1>3. CASE TickFails
  BY <1>3 DEF TickFails, StopIf
<1>4. CASE TimerLocksAgain
  BY <1>4 DEF TimerLocksAgain
<1>5. CASE TimerSpawns
  BY <1>5 DEF TimerSpawns, SpawnInline
<1>6. CASE TimerUnlocksAgain
  BY <1>6 DEF TimerUnlocksAgain, Unlock
<1> QED  BY <1>1, <1>2, <1>3, <1>4, <1>5, <1>6 DEF TimerStep

LEMMA PoolKeepsTypes ==
    ASSUME VariableTypes, \/ \E w \in Writes : WriteEnds(w) \/ WriteHandler(w)
                          \/ \E t \in Tasks : PoolStep(t)
    PROVE  VariableTypes'
<1> USE EvgetAssumption DEF VariableTypes, SchedulerTypeOK, TaskState, mainVars, loopVars, refVars, Goto
<1>1. ASSUME NEW w \in Writes, WriteEnds(w) PROVE VariableTypes'
  BY <1>1 DEF WriteEnds, Finish, Writes
<1>2. ASSUME NEW w \in Writes, WriteHandler(w) PROVE VariableTypes'
  BY <1>2 DEF WriteHandler, Handler, StopIf, Writes
<1>3. ASSUME NEW t \in Tasks, PoolStep(t) PROVE VariableTypes'
  BY <1>3 DEF PoolStep, Run, Wake
<1> QED  BY <1>1, <1>2, <1>3

LEMMA NextTypes == VariableTypes /\ [Next]_vars => VariableTypes'
<1>1. ASSUME VariableTypes, UNCHANGED vars PROVE VariableTypes'
  BY <1>1 DEF vars, poolVars, mainVars, refVars, loopVars, VariableTypes, SchedulerTypeOK
<1> QED  BY <1>1, MainKeepsTypes, LoopKeepsTypes, TimerKeepsTypes, PoolKeepsTypes DEF Next

(* The pool gives out no more threads than it has. *)
ThreadsBounded == IsFiniteSet(Busy) /\ Cardinality(Busy) <= DefaultThreadPoolSize

LEMMA PoolSizeIsNat == DefaultThreadPoolSize \in Nat
BY SchedulerAssumption DEF SchedulerAssumption, DefaultThreadPoolSize

LEMMA FewerBusy ==
    ASSUME ThreadsBounded, Busy' \subseteq Busy
    PROVE  ThreadsBounded'
<1> DEFINE B == Busy  C == Busy'
<1>1. IsFiniteSet(B) /\ C \subseteq B
  BY DEF ThreadsBounded
<1> HIDE DEF B, C
<1>2. IsFiniteSet(C) /\ Cardinality(C) <= Cardinality(B)
  BY <1>1, FS_Subset
<1>3. Cardinality(B) \in Nat /\ Cardinality(C) \in Nat
  BY <1>1, <1>2, FS_CardinalityType
<1>4. Cardinality(B) <= DefaultThreadPoolSize
  BY DEF ThreadsBounded, B
<1>5. Cardinality(C) <= DefaultThreadPoolSize
  BY <1>2, <1>3, <1>4, PoolSizeIsNat
<1>6. DefaultThreadPoolSize' = DefaultThreadPoolSize
  BY DEF DefaultThreadPoolSize
<1> QED  BY <1>2, <1>5, <1>6 DEF ThreadsBounded, C

(* Only Run makes a coroutine busy, and only while a thread is idle. *)
LEMMA RunsOnIdleThread ==
    ASSUME ThreadsBounded, VariableTypes, NEW t \in Tasks, Run(t)
    PROVE  ThreadsBounded'
<1> DEFINE B == Busy
<1>1. IsFiniteSet(B) /\ Cardinality(B) < DefaultThreadPoolSize
  BY DEF ThreadsBounded, Run, ThreadIdle
<1>2. t \notin B /\ Busy' = B \cup {t}
  BY DEF Run, Busy, Goto, VariableTypes, SchedulerTypeOK
<1> HIDE DEF B
<1>3. IsFiniteSet(B \cup {t}) /\ Cardinality(B \cup {t}) = Cardinality(B) + 1
  BY <1>1, <1>2, FS_AddElement
<1>4. Cardinality(B) + 1 <= DefaultThreadPoolSize
  BY <1>1, PoolSizeIsNat, FS_CardinalityType
<1> QED  BY <1>2, <1>3, <1>4 DEF ThreadsBounded, DefaultThreadPoolSize

LEMMA NextThreads == VariableTypes /\ ThreadsBounded /\ [Next]_vars => ThreadsBounded'
<1> SUFFICES ASSUME VariableTypes, ThreadsBounded, [Next]_vars PROVE ThreadsBounded'
  OBVIOUS
<1>1. ASSUME \/ UNCHANGED task
             \/ \E t \in Tasks, state \in TaskState \ {"running"} : Goto(t, state)
      PROVE  ThreadsBounded'
  <2>1. Busy' \subseteq Busy
    BY <1>1 DEF Busy, Goto, VariableTypes, SchedulerTypeOK
  <2> QED  BY <2>1, FewerBusy
<1> USE EvgetAssumption DEF TaskState
<1>2. CASE UNCHANGED vars
  BY <1>1, <1>2 DEF vars, poolVars
<1>3. CASE MainStep
  BY <1>1, <1>3 DEF MainStep, SpawnStoreAfter, ToStores, BackendFails, BackendStarts, Join,
                    DestroyManager, DropScheduler, HaltPool, DestroyJoin, SpawnQueued, poolVars
<1>4. CASE LoopNext \/ LoopNextFails \/ LoopHandler \/ LoopCheck \/ LoopThrows \/ LoopBuffers
  BY <1>1, <1>4 DEF LoopNext, LoopNextFails, LoopHandler, LoopCheck, LoopThrows, LoopBuffers,
                    Finish, Handler, poolVars
<1>5. ASSUME NEW w \in Writes, LoopSpawns(w) \/ WriteEnds(w) \/ WriteHandler(w)
      PROVE  ThreadsBounded'
  BY <1>1, <1>5 DEF LoopSpawns, SpawnInline, WriteEnds, Finish, WriteHandler, Handler, Writes
<1>6. CASE TimerStep
  <2>1. ASSUME TimerUnlocks PROVE \E state \in {"finished", "waiting"} : Goto(Timer, state)
    BY <2>1 DEF TimerUnlocks
  <2> QED  BY <1>1, <1>6, <2>1 DEF TimerStep, TimerLocks, TickFails, TimerLocksAgain, TimerSpawns,
                                   SpawnInline, TimerUnlocksAgain, poolVars
<1>7. ASSUME NEW t \in Tasks, PoolStep(t) PROVE ThreadsBounded'
  <2>1. CASE Run(t)
    BY <2>1, RunsOnIdleThread
  <2>2. CASE Wake(t)
    BY <1>1, <2>2 DEF Wake
  <2> QED  BY <1>7, <2>1, <2>2 DEF PoolStep
<1> QED  BY <1>2, <1>3, <1>4, <1>5, <1>6, <1>7 DEF Next, LoopStep, LoopWrites

(* Every variable of the process has its type, and on a pool of any size no more
   coroutines run than it has threads. *)
THEOREM ProcessTypeOK == ProcessSpec => []TypeOK
<1> DEFINE Inv == VariableTypes /\ ThreadsBounded
<1>1. ProcessInit => Inv
  <2> SUFFICES ASSUME Init PROVE Inv
    BY DEF ProcessInit
  <2>1. Busy = {}
    BY DEF Init, SchedulerInit, Busy
  <2> QED  BY <2>1, InitTypes, FS_EmptySet, PoolSizeIsNat DEF ThreadsBounded
<1>2. Inv /\ [ProcessNext]_allVars => Inv'
  BY EvgetSteps, NextTypes, NextThreads
<1>3. Inv => TypeOK
  BY DEF VariableTypes, ThreadsBounded, TypeOK
<1> QED  BY <1>1, <1>2, <1>3, PTL DEF ProcessSpec

-----------------------------------------------------------------------------
(* The composition adds no behaviour to its parts: apart from fairness, the
   process with the libinput source implements Evget, which leaves the event
   source open, and LibInput, which leaves its caller open. *)
THEOREM ProcessImplementsParts ==
    ProcessSpec => /\ Init /\ [][Next]_vars
                   /\ L!Init /\ [][L!Next]_(L!vars)
<1>1. ProcessInit => Init /\ L!Init
  BY DEF ProcessInit
<1>2. [ProcessNext]_allVars => [L!Next]_(L!vars)
  BY SourceSteps DEF sourceVars, L!vars
<1> QED  BY <1>1, <1>2, EvgetSteps, PTL DEF ProcessSpec
=============================================================================
