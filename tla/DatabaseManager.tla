--------------------------- MODULE DatabaseManager ---------------------------
(***************************************************************************)
(* The write path of evget: storage/database_manager.cpp over the          *)
(* LockingVector of async/container/locking_vector.h.                      *)
(*                                                                         *)
(* StoreEvent appends a Data batch to the shared buffer and, in a second   *)
(* critical section, takes the whole buffer when it holds n_events batches *)
(* or more.  A timer coroutine takes the buffer whenever its interval      *)
(* ticks.  Whoever took the buffer merges it and spawns a StoreCoroutine   *)
(* on the scheduler's pool, which gives the merged data to every store in  *)
(* turn and stops at the first error; the completion handler then stops    *)
(* the scheduler.                                                          *)
(*                                                                         *)
(* Batches are numbered in the order in which PushBack accepted them, and  *)
(* a store is named by its position in the vector of stores.               *)
(***************************************************************************)
EXTENDS Naturals, Sequences, Functions

CONSTANTS
    Callers,     \* threads that call StoreEvent (one event loop in main.cpp)
    InPool,      \* the callers that run on a thread of the scheduler's pool
    Timer,       \* the StoreAfterCoroutine
    Jobs,        \* slots for StoreCoroutines alive at one time (a bound)
    NEvents,     \* n_events_
    NStores,     \* stores that are added, at most (a bound)
    MaxBatches   \* calls of StoreEvent, at most (a bound)

ASSUME DatabaseManagerAssumption ==
    /\ InPool \subseteq Callers
    /\ Timer \notin Callers
    /\ NEvents \in Nat \ {0}          \* the command line checks PositiveNumber
    /\ NStores \in Nat
    /\ MaxBatches \in Nat

VARIABLES
    buffer,      \* LockingVector::inner_
    stores,      \* how many stores StoresHolder::stores holds
    pc,          \* where each caller, and the timer coroutine, is
    hand,        \* what it took from the buffer and has not yet spawned
    job,         \* the StoreCoroutines
    stopped,     \* Scheduler::stopped_
    expired,     \* the last shared_ptr to the Scheduler is gone
    stored,      \* what each store was given and accepted, in order
    accepted,    \* history: how many batches PushBack has accepted
    storesAt,    \* history: how many stores there were when a batch came
    takenBy,     \* history: who took each batch out of the buffer
    ended        \* history: batches whose job's completion handler has run

vars == <<buffer, stores, pc, hand, job, stopped, expired, stored,
          accepted, storesAt, takenBy, ended>>

Actors  == Callers \cup {Timer}
Batches == 1..MaxBatches
Stores  == 1..NStores

CallerPC == {"idle", "pushed", "holding"}
TimerPC  == {"check", "ticking", "ticked", "holding", "returned"}
JobState == {"free", "queued", "running", "done", "failed"}

FreeJob == [st |-> "free", data |-> <<>>, n |-> 0, i |-> 0, inline |-> FALSE,
            by |-> Timer]

(***************************************************************************)
(* A stopped pool starts no handler; neither does one being destroyed.     *)
(***************************************************************************)
Down == stopped \/ expired

(***************************************************************************)
(* co_spawn dispatches: on a thread of the pool the new coroutine runs at  *)
(* once, in the call; from any other thread it is queued.                  *)
(***************************************************************************)
OnPool(a) == a \in InPool \cup {Timer}

InCall(a) == \E j \in Jobs : job[j].st = "running" /\ job[j].inline /\ job[j].by = a

Init ==
    /\ buffer = <<>>
    /\ stores \in 0..NStores
    /\ pc = [a \in Actors |-> IF a = Timer THEN "check" ELSE "idle"]
    /\ hand = [a \in Actors |-> <<>>]
    /\ job = [j \in Jobs |-> FreeJob]
    /\ stopped = FALSE
    /\ expired = FALSE
    /\ stored = [s \in Stores |-> <<>>]
    /\ accepted = 0
    /\ storesAt = <<>>
    /\ takenBy = <<>>
    /\ ended = {}

(***************************************************************************)
(* LockingVector.  IntoInner consumes whatever there is, IntoInnerAt only  *)
(* when the threshold is reached.                                          *)
(***************************************************************************)
UnsafePushBack(b) == buffer' = Append(buffer, b)

IntoInnerKeeps(a) ==                                \* mutant: no clear
    /\ hand' = [hand EXCEPT ![a] = buffer]
    /\ UNCHANGED <<buffer, takenBy>>

IntoInnerDrops(a) ==                                \* mutant: no return
    /\ buffer' = <<>>
    /\ UNCHANGED <<hand, takenBy>>

IntoInner(a) ==
    /\ hand' = [hand EXCEPT ![a] = buffer]
    /\ buffer' = <<>>
    /\ takenBy' = takenBy \o [x \in 1..Len(buffer) |-> a]

ThresholdPassed == Len(buffer) > NEvents            \* mutant: off by one

ThresholdReached == Len(buffer) >= NEvents

PushBack(c) ==
    /\ pc[c] = "idle" /\ ~InCall(c) /\ ~expired
    /\ accepted < MaxBatches
    /\ accepted' = accepted + 1
    /\ storesAt' = Append(storesAt, stores)
    /\ UnsafePushBack(accepted + 1)
    /\ pc' = [pc EXCEPT ![c] = "pushed"]
    /\ UNCHANGED <<stores, hand, job, stopped, expired, stored, takenBy, ended>>

TakeAt(c) ==
    /\ pc[c] = "pushed"
    /\ ThresholdReached
    /\ IntoInner(c)
    /\ pc' = [pc EXCEPT ![c] = "holding"]
    /\ UNCHANGED <<stores, job, stopped, expired, stored, accepted, storesAt, ended>>

BelowThreshold(c) ==
    /\ pc[c] = "pushed"
    /\ ~ThresholdReached
    /\ pc' = [pc EXCEPT ![c] = "idle"]
    /\ UNCHANGED <<buffer, stores, hand, job, stopped, expired, stored, accepted,
                   storesAt, takenBy, ended>>

(***************************************************************************)
(* SpawnStoreData: snapshot the stores, merge what was taken (an empty     *)
(* timer flush is spawned too) and spawn the StoreCoroutine.               *)
(***************************************************************************)
NewJobQueued(a) ==                                  \* mutant: post for dispatch
    [st |-> "queued", data |-> hand[a], n |-> stores, i |-> 0, inline |-> FALSE, by |-> a]

NewJob(a) == [st |-> IF OnPool(a) THEN "running" ELSE "queued",
              data |-> hand[a], n |-> stores, i |-> 0,
              inline |-> OnPool(a), by |-> a]

SpawnStoreData(a, j) ==
    /\ pc[a] = "holding"
    /\ job[j].st = "free"
    /\ job' = [job EXCEPT ![j] = NewJob(a)]
    /\ hand' = [hand EXCEPT ![a] = <<>>]
    /\ pc' = [pc EXCEPT ![a] = IF a = Timer THEN "check" ELSE "idle"]
    /\ UNCHANGED <<buffer, stores, stopped, expired, stored, accepted, storesAt, takenBy, ended>>

AddStore ==
    /\ stores < NStores /\ ~expired
    /\ stores' = stores + 1
    /\ UNCHANGED <<buffer, pc, hand, job, stopped, expired, stored, accepted,
                   storesAt, takenBy, ended>>

(***************************************************************************)
(* StoreCoroutine: one step per store.  It has no suspension point, so it  *)
(* runs on when the pool is stopped under it.                              *)
(***************************************************************************)
MoreStoresInclusive(j) == job[j].i <= job[j].n      \* mutant: off by one

MoreStores(j) == job[j].i < job[j].n

StartJob(j) ==
    /\ job[j].st = "queued" /\ ~Down
    /\ job' = [job EXCEPT ![j].st = "running"]
    /\ UNCHANGED <<buffer, stores, pc, hand, stopped, expired, stored, accepted,
                   storesAt, takenBy, ended>>

StoreAccepts(j) ==
    /\ job[j].st = "running" /\ MoreStores(j)
    /\ job' = [job EXCEPT ![j].i = @ + 1]
    /\ stored' = [stored EXCEPT ![job[j].i + 1] = @ \o job[j].data]
    /\ UNCHANGED <<buffer, stores, pc, hand, stopped, expired, accepted, storesAt, takenBy, ended>>

StoreFailsAndGoesOn(j) ==                           \* mutant: error not returned
    /\ job[j].st = "running" /\ MoreStores(j)
    /\ job' = [job EXCEPT ![j].i = @ + 1]
    /\ UNCHANGED <<buffer, stores, pc, hand, stopped, expired, stored, accepted,
                   storesAt, takenBy, ended>>

(* The store returns an error, or throws. *)
StoreFails(j) ==
    /\ job[j].st = "running" /\ MoreStores(j)
    /\ job' = [job EXCEPT ![j].st = "failed"]
    /\ UNCHANGED <<buffer, stores, pc, hand, stopped, expired, stored, accepted,
                   storesAt, takenBy, ended>>

AllStoresServed(j) ==
    /\ job[j].st = "running" /\ ~MoreStores(j)
    /\ job' = [job EXCEPT ![j].st = "done"]
    /\ UNCHANGED <<buffer, stores, pc, hand, stopped, expired, stored, accepted,
                   storesAt, takenBy, ended>>

(***************************************************************************)
(* The completion handler (LogException, then ResultHandler) is posted to  *)
(* the pool, so it never runs once the pool is down.                       *)
(***************************************************************************)
ResultHandlerOnlyLogs(j) ==                         \* mutant: no Stop
    /\ job[j].st \in {"done", "failed"} /\ ~Down
    /\ ended' = ended \cup Range(job[j].data)
    /\ job' = [job EXCEPT ![j] = FreeJob]
    /\ UNCHANGED <<buffer, stores, pc, hand, stopped, expired, stored, accepted, storesAt, takenBy>>

ResultHandler(j) ==
    /\ job[j].st \in {"done", "failed"} /\ ~Down
    /\ stopped' = (job[j].st = "failed")
    /\ ended' = ended \cup Range(job[j].data)
    /\ job' = [job EXCEPT ![j] = FreeJob]
    /\ UNCHANGED <<buffer, stores, pc, hand, expired, stored, accepted, storesAt, takenBy>>

(***************************************************************************)
(* StoreAfterCoroutine.                                                    *)
(***************************************************************************)
TimerCheck ==
    /\ pc[Timer] = "check" /\ ~InCall(Timer)
    /\ pc' = [pc EXCEPT ![Timer] = IF Down THEN "returned" ELSE "ticking"]
    /\ UNCHANGED <<buffer, stores, hand, job, stopped, expired, stored, accepted,
                   storesAt, takenBy, ended>>

Tick ==
    /\ pc[Timer] = "ticking" /\ ~Down
    /\ pc' = [pc EXCEPT ![Timer] = "ticked"]
    /\ UNCHANGED <<buffer, stores, hand, job, stopped, expired, stored, accepted,
                   storesAt, takenBy, ended>>

(* Tick returns an error: the coroutine returns it and ResultHandler stops
   the scheduler. *)
TickFails ==
    /\ pc[Timer] = "ticking" /\ ~Down
    /\ pc' = [pc EXCEPT ![Timer] = "returned"]
    /\ stopped' = TRUE
    /\ UNCHANGED <<buffer, stores, hand, job, expired, stored, accepted, storesAt, takenBy, ended>>

TimerTakesAtThreshold ==                            \* mutant: IntoInnerAt
    /\ pc[Timer] = "ticked" /\ ~expired
    /\ IF ThresholdReached THEN IntoInner(Timer) ELSE UNCHANGED <<buffer, hand, takenBy>>
    /\ pc' = [pc EXCEPT ![Timer] = IF ThresholdReached THEN "holding" ELSE "check"]
    /\ UNCHANGED <<stores, job, stopped, expired, stored, accepted, storesAt, ended>>

(* The coroutine looks again for the scheduler, but not at its stop flag. *)
TimerTakes ==
    /\ pc[Timer] = "ticked" /\ ~expired
    /\ IntoInner(Timer)
    /\ pc' = [pc EXCEPT ![Timer] = "holding"]
    /\ UNCHANGED <<stores, job, stopped, expired, stored, accepted, storesAt, ended>>

TimerFindsSchedulerGone ==
    /\ pc[Timer] = "ticked" /\ expired
    /\ pc' = [pc EXCEPT ![Timer] = "returned"]
    /\ UNCHANGED <<buffer, stores, hand, job, stopped, expired, stored, accepted,
                   storesAt, takenBy, ended>>

(***************************************************************************)
(* Scheduler::Stop, called by anyone who holds the scheduler, and the end  *)
(* of the last shared_ptr to it: the manager is gone by then, and the      *)
(* timer coroutine is not inside one of the blocks that lock it.           *)
(***************************************************************************)
Stop ==
    /\ ~stopped /\ ~expired
    /\ stopped' = TRUE
    /\ UNCHANGED <<buffer, stores, pc, hand, job, expired, stored, accepted,
                   storesAt, takenBy, ended>>

ExpireDuringFlush ==                                \* mutant: not locked again
    /\ ~expired
    /\ \A c \in Callers : pc[c] = "idle" /\ ~InCall(c)
    /\ expired' = TRUE
    /\ UNCHANGED <<buffer, stores, pc, hand, job, stopped, stored, accepted,
                   storesAt, takenBy, ended>>

Expire ==
    /\ ~expired
    /\ \A c \in Callers : pc[c] = "idle" /\ ~InCall(c)
    /\ pc[Timer] # "holding" /\ ~InCall(Timer)
    /\ expired' = TRUE
    /\ UNCHANGED <<buffer, stores, pc, hand, job, stopped, stored, accepted,
                   storesAt, takenBy, ended>>

TimerStep == TimerCheck \/ Tick \/ TickFails \/ TimerTakes \/ TimerFindsSchedulerGone

RunJob(j) == StoreAccepts(j) \/ StoreFails(j) \/ AllStoresServed(j)

Next ==
    \/ \E c \in Callers : PushBack(c) \/ TakeAt(c) \/ BelowThreshold(c)
    \/ \E a \in Actors, j \in Jobs : SpawnStoreData(a, j)
    \/ \E j \in Jobs : StartJob(j) \/ RunJob(j) \/ ResultHandler(j)
    \/ TimerStep
    \/ AddStore
    \/ Stop
    \/ Expire

(***************************************************************************)
(* A thread inside a call goes on; a pool with a free thread (module       *)
(* Scheduler) starts queued coroutines and handlers; the timer ticks.      *)
(* Nobody has to call StoreEvent, AddStore or Stop.  In the code a spawn    *)
(* never waits; here it waits for one of the Jobs slots, which others may  *)
(* take again and again, so strong fairness undoes that bound.             *)
(***************************************************************************)
Fairness ==
    /\ \A c \in Callers : WF_vars(TakeAt(c) \/ BelowThreshold(c))
    /\ \A a \in Actors : SF_vars(\E j \in Jobs : SpawnStoreData(a, j))
    /\ \A j \in Jobs : WF_vars(StartJob(j)) /\ WF_vars(RunJob(j)) /\ WF_vars(ResultHandler(j))
    /\ WF_vars(TimerStep)

Spec == Init /\ [][Next]_vars /\ Fairness

-----------------------------------------------------------------------------
(***************************************************************************)
(* Properties.                                                             *)
(***************************************************************************)
JobType == [st : JobState, data : Seq(Batches), n : 0..NStores, i : 0..NStores,
            inline : BOOLEAN, by : Actors]

(* Every variable has its type, and the timer coroutine is never where only
   a caller can be. *)
TypeOK ==
    /\ buffer \in Seq(Batches)
    /\ stores \in 0..NStores
    /\ pc \in [Actors -> CallerPC \cup TimerPC]
    /\ pc[Timer] \in TimerPC /\ \A c \in Callers : pc[c] \in CallerPC
    /\ hand \in [Actors -> Seq(Batches)]
    /\ job \in [Jobs -> JobType]
    /\ stopped \in BOOLEAN /\ expired \in BOOLEAN
    /\ stored \in [Stores -> Seq(Batches)]
    /\ accepted \in 0..MaxBatches
    /\ storesAt \in Seq(0..NStores) /\ Len(storesAt) = accepted
    /\ takenBy \in Seq(Actors)
    /\ ended \subseteq Batches

(***************************************************************************)
(* Who holds a batch: the buffer, a thread between taking and spawning, a  *)
(* StoreCoroutine, or nobody any more because its handler has run.         *)
(***************************************************************************)
InBuffer(b)  == b \in Range(buffer)
InHand(b, a) == b \in Range(hand[a])
InJob(b, j)  == b \in Range(job[j].data)

(* Every accepted batch has a holder: however PushBack, the threshold check
   and the timer interleave, no batch is dropped on the way from StoreEvent to
   a StoreCoroutine. *)
NothingLost ==
    \A b \in 1..accepted :
        InBuffer(b) \/ (\E a \in Actors : InHand(b, a)) \/ (\E j \in Jobs : InJob(b, j))
        \/ b \in ended

(* ... and only one: the caller and the timer never both take it, and a
   finished batch is in no StoreCoroutine. *)
OneHolder ==
    \A b \in 1..accepted :
        /\ \A a \in Actors : InHand(b, a) => ~InBuffer(b) /\ b \notin ended
        /\ \A j \in Jobs : InJob(b, j) => ~InBuffer(b) /\ b \notin ended
        /\ \A a \in Actors, j \in Jobs : ~(InHand(b, a) /\ InJob(b, j))
        /\ \A a1, a2 \in Actors : InHand(b, a1) /\ InHand(b, a2) => a1 = a2
        /\ \A j1, j2 \in Jobs : InJob(b, j1) /\ InJob(b, j2) => j1 = j2
        /\ ~(InBuffer(b) /\ b \in ended)

(***************************************************************************)
(* Why: the buffer is the tail of what was accepted, so IntoInner always   *)
(* takes batches nobody took before; a hand is empty unless it holds, and  *)
(* so is a free slot, so neither IntoInner nor a spawn overwrites batches. *)
(***************************************************************************)
Taken == accepted - Len(buffer)

IsRun(seq) == \A x \in DOMAIN seq : seq[x] = seq[1] + (x - 1)

TakenRun(seq) == IsRun(seq) /\ \A x \in DOMAIN seq : seq[x] \in 1..Taken

Ledger ==
    /\ Len(buffer) <= accepted
    /\ \A x \in DOMAIN buffer : buffer[x] = Taken + x
    /\ \A a \in Actors : TakenRun(hand[a]) /\ (pc[a] # "holding" => hand[a] = <<>>)
    /\ \A j \in Jobs : TakenRun(job[j].data) /\ (job[j].st = "free" => job[j].data = <<>>)
    /\ ended \subseteq 1..Taken

(* One StoreCoroutine inserts a gapless run of batches in the order in which
   they were accepted (MergeWith extends in order, nothing is skipped). *)
JobsCarryRuns == \A j \in Jobs : IsRun(job[j].data)

(* The buffer reaches n_events only while a StoreEvent call is between its
   PushBack and its IntoInnerAt, although these are two critical sections. *)
BufferBound == Len(buffer) < NEvents \/ \E c \in Callers : pc[c] = "pushed"

InEveryStore(b) == \A s \in 1..storesAt[b] : b \in Range(stored[s])

(* What a shutdown loses: when the last reference to the scheduler is gone, the
   accepted batches that are not written are fewer than n_events in the buffer,
   those of a failed write, and those that a caller outside the pool has queued.
   None is left in a thread between taking and spawning, or half written. *)
ShutdownLoss ==
    expired =>
        /\ Len(buffer) < NEvents
        /\ \A b \in (1..accepted) \ ended :
              \/ InBuffer(b) \/ InEveryStore(b)
              \/ \E j \in Jobs : InJob(b, j) /\ (job[j].st = "failed" \/ ~OnPool(job[j].by))

(* A batch whose write has completed, with no error so far, is in every store
   that had been added when StoreEvent accepted it. *)
CompletedIsStored ==
    ~stopped => \A b \in ended : InEveryStore(b)

(* The write path does what WriteLog promises: to the callers of StoreEvent
   and to the stores, buffer, threads, coroutines and timer do not show.  No
   store gets a batch twice, out of the run it was taken in, after its handler
   has run, or before the earlier stores in the list. *)
Log == INSTANCE WriteLog WITH Stores <- Stores, stores <- stores, stopped <- stopped,
                              accepted <- accepted, storesAt <- storesAt,
                              stored <- stored, ended <- ended

ImplementsWriteLog == Log!Spec

(* No batch stays behind: its write completes, or the scheduler is down.  The
   timer takes what is below the threshold. *)
EveryBatchIsWritten == \A b \in Batches : (accepted >= b) ~> (b \in ended \/ Down)

(* A store error stops the scheduler, whatever else is running. *)
ErrorStopsScheduler == \A j \in Jobs : (job[j].st = "failed") ~> Down

(* Whoever takes batches on a thread of the pool has them stored in order: the
   StoreCoroutine runs in its call, so it cannot take more before the earlier
   ones are stored.  Between two takers (the event loop and the timer), and for
   a caller outside the pool, there is no order. *)
InOrderPerTaker ==
    \A s \in Stores : \A x, y \in DOMAIN stored[s] :
        LET b == stored[s][x]  d == stored[s][y]
        IN  x < y /\ takenBy[b] = takenBy[d] /\ OnPool(takenBy[b]) => b < d
=============================================================================
