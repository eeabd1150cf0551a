------------------------ MODULE DatabaseManagerProofs ------------------------
(***************************************************************************)
(* Proofs, for every value of the constants, of the safety properties of   *)
(* module DatabaseManager, and of what StoreAfter says of its timer.       *)
(***************************************************************************)
EXTENDS StoreAfter, SequenceTheorems, TLAPS

LEMMA RangeFacts ==
    ASSUME NEW S, NEW s \in Seq(S)
    PROVE  /\ Range(s) \subseteq S
           /\ Range(s) = {s[x] : x \in 1..Len(s)}
BY DEF Range

LEMMA EmptyTyped == \A S : <<>> \in Seq(S)
BY EmptySeq

(* Who takes the buffer is recorded once for each batch in it. *)
LEMMA TakersTyped ==
    ASSUME NEW a \in Actors, takenBy \in Seq(Actors), buffer \in Seq(Batches)
    PROVE  takenBy \o [x \in 1..Len(buffer) |-> a] \in Seq(Actors)
<1>1. [x \in 1..Len(buffer) |-> a] \in Seq(Actors)
  OBVIOUS
<1> QED
  BY <1>1, ConcatProperties

(* Every step keeps every variable in its type. *)
LEMMA TypeStep == TypeOK /\ [Next]_vars => TypeOK'
<1> SUFFICES ASSUME TypeOK, [Next]_vars PROVE TypeOK'
  OBVIOUS
<1> USE DEF TypeOK
<1>1. ASSUME NEW c \in Callers, PushBack(c) PROVE TypeOK'
  <2>1. accepted + 1 \in Batches /\ accepted + 1 \in 0..MaxBatches
    BY <1>1, DatabaseManagerAssumption DEF PushBack, Batches
  <2>2. pc' \in [Actors -> CallerPC \cup TimerPC]
        /\ pc'[Timer] \in TimerPC /\ \A d \in Callers : pc'[d] \in CallerPC
    BY <1>1, DatabaseManagerAssumption DEF PushBack, CallerPC, Actors
  <2> QED
    BY <1>1, <2>1, <2>2 DEF PushBack, UnsafePushBack
<1>2. ASSUME NEW c \in Callers, TakeAt(c) \/ BelowThreshold(c) PROVE TypeOK'
  <2>1. pc' \in [Actors -> CallerPC \cup TimerPC]
        /\ pc'[Timer] \in TimerPC /\ \A d \in Callers : pc'[d] \in CallerPC
    BY <1>2, DatabaseManagerAssumption DEF TakeAt, BelowThreshold, CallerPC, Actors
  <2>2. buffer' \in Seq(Batches)
    BY <1>2, EmptyTyped DEF TakeAt, BelowThreshold, IntoInner
  <2>3. hand' \in [Actors -> Seq(Batches)]
    BY <1>2 DEF TakeAt, BelowThreshold, IntoInner
  <2>4. takenBy' \in Seq(Actors)
    <3>1. c \in Actors
      BY DEF Actors
    <3>2. takenBy \o [x \in 1..Len(buffer) |-> c] \in Seq(Actors)
      BY <3>1, TakersTyped
    <3> QED
      BY <1>2, <3>2 DEF TakeAt, BelowThreshold, IntoInner
  <2> QED
    BY <1>2, <2>1, <2>2, <2>3, <2>4 DEF TakeAt, BelowThreshold
<1>3. ASSUME NEW a \in Actors, NEW j \in Jobs, SpawnStoreData(a, j) PROVE TypeOK'
  <2>1. NewJob(a) \in JobType
    BY <1>3, DatabaseManagerAssumption DEF NewJob, OnPool, JobType, JobState
  <2>2. pc' \in [Actors -> CallerPC \cup TimerPC]
        /\ pc'[Timer] \in TimerPC /\ \A d \in Callers : pc'[d] \in CallerPC
    BY <1>3, DatabaseManagerAssumption DEF SpawnStoreData, CallerPC, TimerPC, Actors
  <2> QED
    BY <1>3, <2>1, <2>2 DEF SpawnStoreData
<1>4. ASSUME NEW j \in Jobs, StartJob(j) \/ RunJob(j) PROVE TypeOK'
  <2>1. CASE StoreAccepts(j)
    <3>1. job[j].i + 1 \in Stores /\ job[j].i + 1 \in 0..NStores
      BY <2>1, DatabaseManagerAssumption DEF StoreAccepts, MoreStores, JobType, Stores
    <3>2. job' \in [Jobs -> JobType]
      BY <2>1, <3>1 DEF StoreAccepts, JobType
    <3>3. stored' \in [Stores -> Seq(Batches)]
      BY <2>1, <3>1 DEF StoreAccepts, JobType
    <3> QED
      BY <2>1, <3>2, <3>3 DEF StoreAccepts
  <2>2. CASE StartJob(j) \/ StoreFails(j) \/ AllStoresServed(j)
    <3>1. PICK st \in JobState : job' = [job EXCEPT ![j].st = st]
      BY <2>2 DEF StartJob, StoreFails, AllStoresServed, JobState
    <3>2. [job[j] EXCEPT !.st = st] \in JobType
      BY DEF JobType
    <3>3. job' \in [Jobs -> JobType]
      BY <3>1, <3>2
    <3> QED
      BY <2>2, <3>3 DEF StartJob, StoreFails, AllStoresServed
  <2> QED
    BY <1>4, <2>1, <2>2 DEF RunJob
<1>5. ASSUME NEW j \in Jobs, ResultHandler(j) PROVE TypeOK'
  <2>1. FreeJob \in JobType
    BY DatabaseManagerAssumption DEF FreeJob, JobType, JobState, Actors
  <2>2. Range(job[j].data) \subseteq Batches
    BY RangeFacts DEF JobType
  <2> QED
    BY <1>5, <2>1, <2>2 DEF ResultHandler
<1>6. ASSUME TimerStep PROVE TypeOK'
  <2>1. pc' \in [Actors -> CallerPC \cup TimerPC]
        /\ pc'[Timer] \in TimerPC /\ \A d \in Callers : pc'[d] \in CallerPC
    BY <1>6, DatabaseManagerAssumption DEF TimerStep, TimerCheck, Tick, TickFails, TimerTakes,
       TimerFindsSchedulerGone, TimerPC, Actors
  <2>2. buffer' \in Seq(Batches)
    BY <1>6, EmptyTyped DEF TimerStep, TimerCheck, Tick, TickFails, TimerTakes, IntoInner,
       TimerFindsSchedulerGone
  <2>3. hand' \in [Actors -> Seq(Batches)]
    BY <1>6 DEF TimerStep, TimerCheck, Tick, TickFails, TimerTakes, IntoInner,
       TimerFindsSchedulerGone
  <2>4. takenBy' \in Seq(Actors)
    <3>1. Timer \in Actors
      BY DEF Actors
    <3>2. takenBy \o [x \in 1..Len(buffer) |-> Timer] \in Seq(Actors)
      BY <3>1, TakersTyped
    <3> QED
      BY <1>6, <3>2 DEF TimerStep, TimerCheck, Tick, TickFails, TimerTakes, IntoInner,
         TimerFindsSchedulerGone
  <2> QED
    BY <1>6, <2>1, <2>2, <2>3, <2>4 DEF TimerStep, TimerCheck, Tick, TickFails, TimerTakes,
       TimerFindsSchedulerGone
<1>7. ASSUME AddStore \/ Stop \/ Expire PROVE TypeOK'
  <2>1. stores' \in 0..NStores
    BY <1>7, DatabaseManagerAssumption DEF AddStore, Stop, Expire
  <2> QED
    BY <1>7, <2>1 DEF AddStore, Stop, Expire
<1>8. ASSUME UNCHANGED vars PROVE TypeOK'
  BY <1>8 DEF vars
<1> QED
  BY <1>1, <1>2, <1>3, <1>4, <1>5, <1>6, <1>7, <1>8 DEF Next

LEMMA TypeInit == Init => TypeOK
<1> SUFFICES ASSUME Init PROVE TypeOK
  OBVIOUS
<1>1. FreeJob \in JobType
  BY DatabaseManagerAssumption DEF FreeJob, JobType, JobState, Actors
<1>2. pc \in [Actors -> CallerPC \cup TimerPC]
      /\ pc[Timer] \in TimerPC /\ \A c \in Callers : pc[c] \in CallerPC
  BY DatabaseManagerAssumption DEF Init, CallerPC, TimerPC, Actors
<1>3. /\ storesAt \in Seq(0..NStores) /\ Len(storesAt) = accepted
      /\ takenBy \in Seq(Actors)
  BY EmptySeq DEF Init
<1>4. /\ buffer \in Seq(Batches)
      /\ hand \in [Actors -> Seq(Batches)]
      /\ stored \in [Stores -> Seq(Batches)]
  BY EmptyTyped DEF Init
<1>5. job \in [Jobs -> JobType]
  BY <1>1 DEF Init
<1>6. accepted \in 0..MaxBatches /\ stores \in 0..NStores
  BY DatabaseManagerAssumption DEF Init
<1> QED
  BY <1>2, <1>3, <1>4, <1>5, <1>6 DEF Init, TypeOK

(* Type correctness of the write path. *)
THEOREM TypeCorrect == Spec => []TypeOK
BY TypeInit, TypeStep, PTL DEF Spec

-----------------------------------------------------------------------------
(***************************************************************************)
(* The ledger: every accepted batch has exactly one holder.                *)
(***************************************************************************)
IInv == TypeOK /\ Ledger /\ NothingLost /\ OneHolder /\ BufferBound

(* The buffer holds exactly the batches that were accepted last. *)
LEMMA BufferRange ==
    ASSUME TypeOK, Ledger
    PROVE  /\ Taken \in Nat /\ Len(buffer) \in Nat /\ accepted \in Nat
           /\ Range(buffer) = (Taken + 1)..accepted
           /\ \A a \in Actors : Range(hand[a]) \subseteq 1..Taken
           /\ \A j \in Jobs : Range(job[j].data) \subseteq 1..Taken
<1>1. Taken \in Nat /\ Len(buffer) \in Nat /\ accepted \in Nat
  BY DatabaseManagerAssumption DEF TypeOK, Ledger, Taken
<1>2. \A b \in (Taken + 1)..accepted : b - Taken \in 1..Len(buffer) /\ buffer[b - Taken] = b
  <2> TAKE b \in (Taken + 1)..accepted
  <2>1. b - Taken \in 1..Len(buffer)
    BY <1>1 DEF Taken
  <2>2. buffer[b - Taken] = Taken + (b - Taken)
    BY <2>1 DEF Ledger, TypeOK
  <2> QED
    BY <1>1, <2>1, <2>2
<1>3. Range(buffer) = (Taken + 1)..accepted
  <2>1. DOMAIN buffer = 1..Len(buffer)
    BY DEF TypeOK
  <2>2. \A x \in 1..Len(buffer) : buffer[x] \in (Taken + 1)..accepted
    BY <1>1, <2>1 DEF Ledger, Taken
  <2> QED
    BY <1>2, <2>1, <2>2 DEF Range
<1>4. \A a \in Actors : Range(hand[a]) \subseteq 1..Taken
  BY DEF Ledger, TakenRun, Range
<1>5. \A j \in Jobs : Range(job[j].data) \subseteq 1..Taken
  BY DEF Ledger, TakenRun, Range
<1> QED
  BY <1>1, <1>3, <1>4, <1>5

LEMMA EmptyRange == Range(<<>>) = {} /\ IsRun(<<>>) /\ DOMAIN <<>> = {}
BY DEF Range, IsRun

(* Nothing the ledger speaks of changes. *)
LEMMA LedgerFrame ==
    ASSUME IInv, TypeOK',
           UNCHANGED <<buffer, accepted, hand, ended>>,
           \A j \in Jobs : job'[j].data = job[j].data,
           \A j \in Jobs : job'[j].st = "free" => job[j].st = "free",
           \A a \in Actors : pc[a] = "holding" => pc'[a] = "holding",
           BufferBound'
    PROVE  IInv'
<1>1. Ledger'
  BY DEF IInv, Ledger, Taken, TakenRun
<1>2. NothingLost' /\ OneHolder'
  BY DEF IInv, NothingLost, OneHolder, InBuffer, InHand, InJob
<1> QED
  BY <1>1, <1>2 DEF IInv

(* PushBack: the new batch is in the buffer and nowhere else. *)
LEMMA PushBackStep ==
    ASSUME IInv, TypeOK', NEW c \in Callers, PushBack(c)
    PROVE  IInv'
<1> DEFINE new == accepted + 1
<1> USE DEF IInv
<1>1. /\ Taken \in Nat /\ Len(buffer) \in Nat /\ accepted \in Nat
      /\ Range(buffer) = (Taken + 1)..accepted
      /\ \A a \in Actors : Range(hand[a]) \subseteq 1..Taken
      /\ \A j \in Jobs : Range(job[j].data) \subseteq 1..Taken
  BY BufferRange
<1>2. /\ Len(buffer') = Len(buffer) + 1
      /\ \A x \in DOMAIN buffer' : buffer'[x] = IF x = Len(buffer) + 1 THEN new ELSE buffer[x]
      /\ DOMAIN buffer' = 1..(Len(buffer) + 1)
  BY <1>1 DEF PushBack, UnsafePushBack, TypeOK
<1>3. Taken' = Taken
  BY <1>1, <1>2 DEF PushBack, Taken
<1>4. \A x \in DOMAIN buffer' : buffer'[x] = Taken + x
  <2>1. new = Taken + (Len(buffer) + 1)
    BY <1>1 DEF Taken
  <2>2. \A x \in 1..Len(buffer) : buffer[x] = Taken + x
    BY DEF Ledger, TypeOK
  <2>3. \A x \in 1..(Len(buffer) + 1) : x = Len(buffer) + 1 \/ x \in 1..Len(buffer)
    BY <1>1
  <2> HIDE DEF new
  <2> QED
    BY <1>1, <1>2, <2>1, <2>2, <2>3
<1>5. Ledger'
  <2>1. \A a \in Actors : TakenRun(hand[a])' /\ (pc'[a] # "holding" => hand'[a] = <<>>)
    BY <1>3 DEF Ledger, TakenRun, PushBack, TypeOK
  <2>2. \A j \in Jobs : TakenRun(job[j].data)' /\ (job'[j].st = "free" => job'[j].data = <<>>)
    BY <1>3 DEF Ledger, TakenRun, PushBack
  <2> QED
    BY <1>1, <1>2, <1>3, <1>4, <2>1, <2>2 DEF Ledger, PushBack
<1>6. Range(buffer') = Range(buffer) \cup {new}
  <2>1. Range(buffer') = {buffer'[x] : x \in 1..(Len(buffer) + 1)}
    BY <1>2 DEF Range
  <2>2. Range(buffer) = {buffer[x] : x \in 1..Len(buffer)}
    BY RangeFacts DEF TypeOK
  <2>3. 1..(Len(buffer) + 1) = 1..Len(buffer) \cup {Len(buffer) + 1}
    BY <1>1
  <2>4. \A x \in 1..Len(buffer) : buffer'[x] = buffer[x]
    BY <1>1, <1>2
  <2>5. buffer'[Len(buffer) + 1] = new
    BY <1>1, <1>2
  <2> HIDE DEF new
  <2> QED
    BY <2>1, <2>2, <2>3, <2>4, <2>5
<1>7. /\ \A a \in Actors : new \notin Range(hand[a])
      /\ \A j \in Jobs : new \notin Range(job[j].data)
  <2>1. new \notin 1..Taken
    BY <1>1 DEF Taken
  <2> HIDE DEF new
  <2> QED
    BY <1>1, <2>1
<1>8. new \notin ended /\ 1..accepted' = (1..accepted) \cup {new}
  BY <1>1 DEF Ledger, PushBack, Taken
<1>9. UNCHANGED <<hand, job, ended>>
  BY DEF PushBack
<1>10. NothingLost'
  BY <1>6, <1>8, <1>9 DEF NothingLost, InBuffer, InHand, InJob
<1>11. OneHolder'
  <2>1. SUFFICES ASSUME NEW b \in 1..accepted'
        PROVE  /\ \A a \in Actors : InHand(b, a) => ~InBuffer(b)' /\ b \notin ended
               /\ \A j \in Jobs : InJob(b, j) => ~InBuffer(b)' /\ b \notin ended
               /\ \A a \in Actors, j \in Jobs : ~(InHand(b, a) /\ InJob(b, j))
               /\ \A a1, a2 \in Actors : InHand(b, a1) /\ InHand(b, a2) => a1 = a2
               /\ \A j1, j2 \in Jobs : InJob(b, j1) /\ InJob(b, j2) => j1 = j2
               /\ ~(InBuffer(b)' /\ b \in ended)
    BY <1>9 DEF OneHolder, InBuffer, InHand, InJob
  <2>2. CASE b = new
    BY <1>7, <1>8, <2>2 DEF InBuffer, InHand, InJob
  <2>3. CASE b # new
    <3>1. b \in 1..accepted /\ (InBuffer(b)' <=> InBuffer(b))
      BY <1>6, <1>8, <2>3 DEF InBuffer
    <3> QED
      BY <3>1 DEF OneHolder
  <2> QED
    BY <2>2, <2>3
<1>12. BufferBound'
  BY DEF PushBack, BufferBound, TypeOK, Actors
<1> QED
  BY <1>5, <1>10, <1>11, <1>12

(* IntoInner: the whole buffer moves into the hand of the thread that takes,
   which was empty. *)
LEMMA IntoInnerStep ==
    ASSUME IInv, TypeOK', NEW a \in Actors, pc[a] # "holding", IntoInner(a),
           pc' = [pc EXCEPT ![a] = "holding"],
           UNCHANGED <<job, accepted, ended>>
    PROVE  IInv'
<1> USE DEF IInv
<1>1. /\ Taken \in Nat /\ Len(buffer) \in Nat /\ accepted \in Nat
      /\ Range(buffer) = (Taken + 1)..accepted
      /\ \A d \in Actors : Range(hand[d]) \subseteq 1..Taken
      /\ \A j \in Jobs : Range(job[j].data) \subseteq 1..Taken
  BY BufferRange
<1>2. buffer' = <<>> /\ Len(buffer') = 0 /\ Range(buffer') = {} /\ DOMAIN buffer' = {}
  BY EmptyRange DEF IntoInner
<1>3. Taken' = accepted /\ Taken \in 0..accepted
  BY <1>1, <1>2 DEF Taken, Ledger
<1>4. hand' = [hand EXCEPT ![a] = buffer] /\ hand[a] = <<>> /\ Range(hand[a]) = {}
  BY EmptyRange DEF IntoInner, Ledger
<1>5. Ledger'
  <2>1. IsRun(buffer) /\ \A x \in DOMAIN buffer : buffer[x] \in 1..accepted
    <3>1. \A x \in DOMAIN buffer : x \in 1..Len(buffer) /\ 1 \in DOMAIN buffer
      BY <1>1 DEF TypeOK
    <3>2. \A x \in DOMAIN buffer : buffer[x] = Taken + x /\ buffer[1] = Taken + 1
      BY <3>1 DEF Ledger
    <3> QED
      BY <1>1, <3>1, <3>2 DEF IsRun, Taken
  <2>2. \A d \in Actors : TakenRun(hand[d])' /\ (pc'[d] # "holding" => hand'[d] = <<>>)
    <3> TAKE d \in Actors
    <3>1. CASE d = a
      BY <1>3, <1>4, <2>1, <3>1 DEF TakenRun, TypeOK
    <3>2. CASE d # a
      BY <1>1, <1>3, <1>4, <3>2 DEF TakenRun, TypeOK, Ledger
    <3> QED
      BY <3>1, <3>2
  <2>3. \A j \in Jobs : TakenRun(job[j].data)' /\ (job'[j].st = "free" => job'[j].data = <<>>)
    BY <1>1, <1>3 DEF TakenRun, Ledger
  <2>4. ended' \subseteq 1..Taken'
    BY <1>1, <1>3 DEF Ledger
  <2> QED
    BY <1>1, <1>2, <2>2, <2>3, <2>4 DEF Ledger
<1>6. /\ Range(hand'[a]) = Range(buffer)
      /\ \A d \in Actors : d # a => hand'[d] = hand[d]
  BY <1>4 DEF TypeOK
<1>7. NothingLost'
  BY <1>2, <1>6, <1>4 DEF NothingLost, InBuffer, InHand, InJob
<1>8. OneHolder'
  BY <1>2, <1>4, <1>6 DEF OneHolder, InBuffer, InHand, InJob
<1>9. BufferBound'
  BY <1>2, DatabaseManagerAssumption DEF BufferBound
<1> QED
  BY <1>5, <1>7, <1>8, <1>9

(* SpawnStoreData: what a thread held moves into a free slot. *)
LEMMA SpawnStep ==
    ASSUME IInv, TypeOK', NEW a \in Actors, NEW j \in Jobs, SpawnStoreData(a, j)
    PROVE  IInv'
<1> USE DEF IInv
<1>1. /\ job[j].data = <<>> /\ Range(job[j].data) = {}
      /\ hand'[a] = <<>> /\ Range(hand'[a]) = {}
      /\ \A d \in Actors : d # a => hand'[d] = hand[d] /\ pc'[d] = pc[d]
  BY EmptyRange DEF SpawnStoreData, Ledger, TypeOK
<1>2. /\ job'[j].data = hand[a] /\ job'[j].st # "free"
      /\ \A k \in Jobs : k # j => job'[k] = job[k]
  BY DEF SpawnStoreData, NewJob, TypeOK
<1>3. UNCHANGED <<buffer, accepted, ended>> /\ Taken' = Taken
  BY DEF SpawnStoreData, Taken
<1>4. Ledger'
  <2>1. \A d \in Actors : TakenRun(hand[d])' /\ (pc'[d] # "holding" => hand'[d] = <<>>)
    BY <1>1, <1>3, EmptyRange DEF Ledger, TakenRun
  <2>2. \A k \in Jobs : TakenRun(job[k].data)' /\ (job'[k].st = "free" => job'[k].data = <<>>)
    BY <1>2, <1>3 DEF Ledger, TakenRun
  <2> QED
    BY <1>3, <2>1, <2>2 DEF Ledger
<1>5. NothingLost'
  BY <1>1, <1>2, <1>3 DEF NothingLost, InBuffer, InHand, InJob
<1>6. OneHolder'
  BY <1>1, <1>2, <1>3 DEF OneHolder, InBuffer, InHand, InJob
<1>7. BufferBound'
  BY <1>1, <1>3 DEF BufferBound, SpawnStoreData, Actors
<1> QED
  BY <1>4, <1>5, <1>6, <1>7

(* ResultHandler: a job's batches become ended batches. *)
LEMMA ResultHandlerStep ==
    ASSUME IInv, TypeOK', NEW j \in Jobs, ResultHandler(j)
    PROVE  IInv'
<1> USE DEF IInv
<1>1. /\ job'[j].data = <<>> /\ Range(job'[j].data) = {}
      /\ \A k \in Jobs : k # j => job'[k] = job[k]
  BY EmptyRange DEF ResultHandler, FreeJob, TypeOK
<1>2. ended' = ended \cup Range(job[j].data)
  BY DEF ResultHandler
<1>3. UNCHANGED <<buffer, accepted, hand, pc>> /\ Taken' = Taken
  BY DEF ResultHandler, Taken
<1>4. Ledger'
  <2>1. \A a \in Actors : TakenRun(hand[a])' /\ (pc'[a] # "holding" => hand'[a] = <<>>)
    BY <1>3 DEF Ledger, TakenRun
  <2>2. \A k \in Jobs : TakenRun(job[k].data)' /\ (job'[k].st = "free" => job'[k].data = <<>>)
    BY <1>1, <1>3, EmptyRange DEF Ledger, TakenRun
  <2>3. ended' \subseteq 1..Taken'
    BY <1>2, <1>3, BufferRange DEF Ledger
  <2> QED
    BY <1>3, <2>1, <2>2, <2>3 DEF Ledger
<1>5. NothingLost'
  BY <1>1, <1>2, <1>3 DEF NothingLost, InBuffer, InHand, InJob
<1>6. OneHolder'
  BY <1>1, <1>2, <1>3 DEF OneHolder, InBuffer, InHand, InJob
<1>7. BufferBound'
  BY <1>3 DEF BufferBound
<1> QED
  BY <1>4, <1>5, <1>6, <1>7

LEMMA IInvStep == IInv /\ [Next]_vars => IInv'
<1> SUFFICES ASSUME IInv, [Next]_vars PROVE IInv'
  OBVIOUS
<1>1. TypeOK'
  BY TypeStep DEF IInv
<1>2. ASSUME NEW c \in Callers, PushBack(c) PROVE IInv'
  BY <1>1, <1>2, PushBackStep
<1>3. ASSUME NEW c \in Callers, TakeAt(c) PROVE IInv'
  BY <1>1, <1>3, IntoInnerStep DEF TakeAt, Actors
<1>4. ASSUME NEW c \in Callers, BelowThreshold(c) PROVE IInv'
  <2>1. BufferBound'
    <3>1. Len(buffer) < NEvents
      BY <1>4, DatabaseManagerAssumption DEF BelowThreshold, ThresholdReached, IInv, TypeOK
    <3> QED
      BY <1>4, <3>1 DEF BelowThreshold, BufferBound
  <2> QED
    BY <1>1, <1>4, <2>1, LedgerFrame DEF BelowThreshold, IInv, TypeOK, Actors
<1>5. ASSUME NEW a \in Actors, NEW j \in Jobs, SpawnStoreData(a, j) PROVE IInv'
  BY <1>1, <1>5, SpawnStep
<1>6. ASSUME NEW j \in Jobs, StartJob(j) \/ RunJob(j) PROVE IInv'
  <2>1. BufferBound'
    BY <1>6 DEF StartJob, RunJob, StoreAccepts, StoreFails, AllStoresServed, BufferBound, IInv
  <2>2. \A k \in Jobs : job'[k].data = job[k].data
    <3>1. CASE StoreAccepts(j)
      BY <3>1 DEF StoreAccepts, IInv, TypeOK, JobType
    <3>2. CASE StartJob(j) \/ StoreFails(j) \/ AllStoresServed(j)
      <4>1. PICK st \in JobState : job' = [job EXCEPT ![j].st = st]
        BY <3>2 DEF StartJob, StoreFails, AllStoresServed, JobState
      <4> QED
        BY <4>1 DEF IInv, TypeOK, JobType
    <3> QED
      BY <1>6, <3>1, <3>2 DEF RunJob
  <2>3. \A k \in Jobs : job'[k].st = "free" => job[k].st = "free"
    <3>1. job \in [Jobs -> JobType]
      BY DEF IInv, TypeOK
    <3>2. CASE StoreAccepts(j)
      BY <3>1, <3>2 DEF StoreAccepts, JobType
    <3>3. CASE StartJob(j) \/ StoreFails(j) \/ AllStoresServed(j)
      BY <3>1, <3>3 DEF StartJob, StoreFails, AllStoresServed, JobType
    <3> QED  BY <1>6, <3>2, <3>3 DEF RunJob
  <2> QED
    BY <1>1, <1>6, <2>1, <2>2, <2>3, LedgerFrame
       DEF StartJob, RunJob, StoreAccepts, StoreFails, AllStoresServed
<1>7. ASSUME NEW j \in Jobs, ResultHandler(j) PROVE IInv'
  BY <1>1, <1>7, ResultHandlerStep
<1>8. ASSUME TimerTakes PROVE IInv'
  BY <1>1, <1>8, IntoInnerStep DEF TimerTakes, Actors
<1>9. ASSUME TimerCheck \/ Tick \/ TickFails \/ TimerFindsSchedulerGone PROVE IInv'
  <2>1. BufferBound'
    BY <1>9, DatabaseManagerAssumption
       DEF TimerCheck, Tick, TickFails, TimerFindsSchedulerGone, BufferBound, IInv, TypeOK, Actors
  <2>2. \A a \in Actors : pc[a] = "holding" => pc'[a] = "holding"
    BY <1>9 DEF TimerCheck, Tick, TickFails, TimerFindsSchedulerGone, IInv, TypeOK, Actors
  <2> QED
    BY <1>1, <1>9, <2>1, <2>2, LedgerFrame
       DEF TimerCheck, Tick, TickFails, TimerFindsSchedulerGone
<1>10. ASSUME AddStore \/ Stop \/ Expire \/ UNCHANGED vars PROVE IInv'
  <2>1. BufferBound'
    BY <1>10 DEF AddStore, Stop, Expire, vars, BufferBound, IInv
  <2> QED
    BY <1>1, <1>10, <2>1, LedgerFrame DEF AddStore, Stop, Expire, vars
<1> QED
  BY <1>2, <1>3, <1>4, <1>5, <1>6, <1>7, <1>8, <1>9, <1>10 DEF Next, TimerStep

LEMMA IInvInit == Init => IInv
<1> SUFFICES ASSUME Init PROVE IInv
  OBVIOUS
<1>1. Ledger
  BY EmptyRange, TypeInit, DatabaseManagerAssumption
     DEF Init, Ledger, Taken, TakenRun, FreeJob, TypeOK
<1>2. NothingLost /\ OneHolder
  BY DEF Init, NothingLost, OneHolder
<1>3. BufferBound
  BY DatabaseManagerAssumption DEF Init, BufferBound
<1> QED
  BY <1>1, <1>2, <1>3, TypeInit DEF IInv

LEMMA IInvAlways == Spec => []IInv
BY IInvInit, IInvStep, PTL DEF Spec

(* A batch that StoreEvent accepted is always held by the buffer, a thread,
   a StoreCoroutine, or has had its completion handler run. *)
THEOREM NothingIsLost == Spec => []NothingLost
BY IInvAlways, PTL DEF IInv

(* ... and by one of these only, so that no two StoreCoroutines ever write
   the same batch. *)
THEOREM EveryBatchHasOneHolder == Spec => []OneHolder
BY IInvAlways, PTL DEF IInv

(* A StoreCoroutine writes a gapless run of batches in the order of arrival. *)
THEOREM JobsCarryRunsAlways == Spec => []JobsCarryRuns
<1>1. IInv => JobsCarryRuns
  BY DEF IInv, Ledger, TakenRun, JobsCarryRuns
<1> QED
  BY <1>1, IInvAlways, PTL

(* Outside a StoreEvent call fewer than n_events batches are buffered. *)
THEOREM BufferIsBounded == Spec => []BufferBound
BY IInvAlways, PTL DEF IInv

-----------------------------------------------------------------------------
(***************************************************************************)
(* DatabaseManager implements WriteLog, and what it inherits from it.      *)
(***************************************************************************)
L == INSTANCE WriteLogProofs

(***************************************************************************)
(* How far a StoreCoroutine has come is told by the stores: those it has   *)
(* served hold its batches, the others hold none of them.  No store holds  *)
(* a batch that is in the buffer or in somebody's hand.                    *)
(***************************************************************************)
ServedUpTo(j) ==
    \A s \in Stores :
        /\ s <= job[j].i => Range(job[j].data) \subseteq Range(stored[s])
        /\ s > job[j].i => Range(job[j].data) \cap Range(stored[s]) = {}

JobProgress(j) ==
    /\ job[j].i <= job[j].n /\ job[j].n <= stores
    /\ job[j].st = "done" => job[j].i = job[j].n
    /\ job[j].st = "failed" => job[j].i < job[j].n
    /\ \A b \in Range(job[j].data) : storesAt[b] <= job[j].n

Delivery ==
    /\ \A j \in Jobs : JobProgress(j) /\ ServedUpTo(j)
    /\ \A s \in Stores : Range(stored[s]) \subseteq 1..Taken
    /\ \A a \in Actors, s \in Stores : Range(hand[a]) \cap Range(stored[s]) = {}
    /\ \A b \in 1..accepted : storesAt[b] <= stores

DInv == IInv /\ Delivery

(* Range means the same inside the two instances. *)
LEMMA SameRange == \A f : Log!Range(f) = Range(f) /\ L!Range(f) = Range(f)
BY DEF Range, Log!Range, L!Range

LEMMA StoresAreNumbers == Stores \subseteq Nat \ {0}
BY DatabaseManagerAssumption DEF Stores

LEMMA StoresAtTyped ==
    ASSUME TypeOK
    PROVE  \A b \in 1..accepted : storesAt[b] \in 0..NStores
<1>1. storesAt \in Seq(0..NStores) /\ Len(storesAt) = accepted
  BY DEF TypeOK
<1> QED
  BY <1>1, ElementOfSeq

(* Nothing that Delivery speaks of changes but hands that lose batches. *)
LEMMA DeliveryFrame ==
    ASSUME DInv, UNCHANGED <<stored, storesAt, accepted, job>>,
           stores' \in Nat, stores <= stores',
           Taken' = Taken,
           \A a \in Actors : Range(hand'[a]) \subseteq Range(hand[a])
    PROVE  Delivery'
<1>1. stores \in Nat /\ \A j \in Jobs : job[j].n \in Nat
  BY DatabaseManagerAssumption DEF DInv, IInv, TypeOK, JobType
<1>2. \A j \in Jobs : JobProgress(j)' /\ ServedUpTo(j)'
  BY <1>1 DEF DInv, Delivery, JobProgress, ServedUpTo
<1>3. \A b \in 1..accepted : storesAt[b] <= stores'
  BY <1>1, StoresAtTyped, DatabaseManagerAssumption DEF DInv, IInv, Delivery
<1> QED
  BY <1>2, <1>3 DEF DInv, Delivery

(* PushBack: the new batch is in no store and in no StoreCoroutine. *)
LEMMA DeliveryPush ==
    ASSUME DInv, NEW c \in Callers, PushBack(c)
    PROVE  Delivery'
<1> USE DEF DInv, IInv
<1>1. /\ Taken \in Nat /\ Len(buffer) \in Nat /\ accepted \in Nat
      /\ \A j \in Jobs : Range(job[j].data) \subseteq 1..Taken
  BY BufferRange
<1>2. Taken' = Taken
  BY <1>1 DEF PushBack, UnsafePushBack, Taken, TypeOK
<1>3. /\ \A b \in 1..accepted : storesAt'[b] = storesAt[b]
      /\ storesAt'[accepted + 1] = stores
  BY DEF PushBack, TypeOK
<1>4. Taken <= accepted
  BY <1>1 DEF Taken
<1>5. \A j \in Jobs : JobProgress(j)' /\ ServedUpTo(j)'
  <2> TAKE j \in Jobs
  <2>1. \A b \in 1..Taken : b \in 1..accepted
    BY <1>1, <1>4
  <2>2. Range(job[j].data) \subseteq 1..Taken
    BY <1>1
  <2>3. \A b \in Range(job[j].data) : storesAt'[b] = storesAt[b]
    BY <1>3, <2>1, <2>2
  <2> QED
    BY <2>3 DEF Delivery, JobProgress, ServedUpTo, PushBack
<1>6. \A b \in 1..accepted' : storesAt'[b] <= stores'
  <2> SUFFICES ASSUME NEW b \in 1..accepted' PROVE storesAt'[b] <= stores
    BY DEF PushBack
  <2>1. CASE b = accepted + 1
    BY <1>3, <2>1, DatabaseManagerAssumption DEF TypeOK
  <2>2. CASE b # accepted + 1
    <3>1. b \in 1..accepted
      BY <1>1, <2>2 DEF PushBack
    <3> QED
      BY <1>3, <3>1 DEF Delivery
  <2> QED
    BY <2>1, <2>2
<1> QED
  BY <1>2, <1>5, <1>6 DEF Delivery, PushBack

(* IntoInner: what was buffered is in no store. *)
LEMMA DeliveryTake ==
    ASSUME DInv, NEW a \in Actors, IntoInner(a),
           UNCHANGED <<job, stores, stored, storesAt, accepted>>
    PROVE  Delivery'
<1> USE DEF DInv, IInv
<1>1. /\ Taken \in Nat /\ Len(buffer) \in Nat /\ accepted \in Nat
      /\ Range(buffer) = (Taken + 1)..accepted
  BY BufferRange
<1>2. Taken' = accepted /\ Taken <= accepted
  BY <1>1 DEF Taken, IntoInner
<1>3. \A j \in Jobs : JobProgress(j)' /\ ServedUpTo(j)'
  BY DEF Delivery, JobProgress, ServedUpTo
<1>4. \A d \in Actors, s \in Stores : Range(hand'[d]) \cap Range(stored[s]) = {}
  <2> TAKE d \in Actors, s \in Stores
  <2>1. CASE d = a
    <3>1. Range(hand'[d]) = (Taken + 1)..accepted
      BY <1>1, <2>1 DEF IntoInner, TypeOK
    <3>2. Range(stored[s]) \subseteq 1..Taken
      BY DEF Delivery
    <3> QED
      BY <1>1, <3>1, <3>2
  <2>2. CASE d # a
    BY <2>2 DEF IntoInner, TypeOK, Delivery
  <2> QED
    BY <2>1, <2>2
<1>5. \A s \in Stores : Range(stored'[s]) \subseteq 1..Taken'
  BY <1>1, <1>2 DEF Delivery
<1> QED
  BY <1>3, <1>4, <1>5 DEF Delivery

(* SpawnStoreData: the new StoreCoroutine has served no store, and it has a
   copy of all the stores there are now. *)
LEMMA DeliverySpawn ==
    ASSUME DInv, NEW a \in Actors, NEW j \in Jobs, SpawnStoreData(a, j)
    PROVE  Delivery'
<1> USE DEF DInv, IInv
<1>1. /\ hand' = [hand EXCEPT ![a] = <<>>]
      /\ UNCHANGED <<stores, stored, storesAt, accepted, buffer>> /\ Taken' = Taken
      /\ \A k \in Jobs : k # j => job'[k] = job[k]
  BY DEF SpawnStoreData, Taken, TypeOK
<1>2. /\ job'[j].data = hand[a] /\ job'[j].n = stores /\ job'[j].i = 0
      /\ job'[j].st \in {"running", "queued"}
  BY DEF SpawnStoreData, NewJob, TypeOK
<1>3. \A d \in Actors : Range(hand'[d]) \subseteq Range(hand[d])
  BY <1>1, EmptyRange DEF TypeOK
<1>4. JobProgress(j)'
  <2>1. stores \in Nat
    BY DatabaseManagerAssumption DEF TypeOK
  <2>2. \A b \in Range(hand[a]) : b \in 1..accepted
    BY BufferRange DEF Taken
  <2> QED
    BY <1>1, <1>2, <2>1, <2>2 DEF JobProgress, Delivery
<1>5. ServedUpTo(j)'
  <2>1. \A s \in Stores : ~(s <= 0)
    BY StoresAreNumbers
  <2> QED
    BY <1>1, <1>2, <2>1 DEF ServedUpTo, Delivery
<1>6. \A k \in Jobs : JobProgress(k)' /\ ServedUpTo(k)'
  BY <1>1, <1>4, <1>5 DEF Delivery, JobProgress, ServedUpTo
<1> QED
  BY <1>1, <1>3, <1>6 DEF Delivery

(* StoreAccepts: one more store holds the batches of this StoreCoroutine, and
   those only; nobody else has them. *)
LEMMA DeliveryServe ==
    ASSUME DInv, NEW j \in Jobs, StoreAccepts(j)
    PROVE  Delivery'
<1> DEFINE s == job[j].i + 1
           data == job[j].data
<1> USE DEF DInv, IInv
<1>1. /\ s \in Stores /\ job[j].i \in Nat /\ job[j].n \in Nat /\ job[j].i < job[j].n
      /\ data \in Seq(Batches) /\ stored[s] \in Seq(Batches)
  BY DatabaseManagerAssumption DEF StoreAccepts, MoreStores, TypeOK, JobType, Stores
<1>2. /\ job'[j].i = s /\ job'[j].n = job[j].n /\ job'[j].data = data
      /\ job'[j].st = "running"
      /\ \A k \in Jobs : k # j => job'[k] = job[k]
  BY DEF StoreAccepts, TypeOK, JobType
<1>3. /\ stored'[s] = stored[s] \o data
      /\ \A t \in Stores : t # s => stored'[t] = stored[t]
      /\ UNCHANGED <<buffer, hand, stores, storesAt, accepted>>
  BY <1>1 DEF StoreAccepts, TypeOK
<1>4. Range(stored'[s]) = Range(stored[s]) \cup Range(data)
  BY <1>1, <1>3, L!RangeOfConcat, SameRange
<1>5. /\ \A k \in Jobs : k # j => Range(job[k].data) \cap Range(data) = {}
      /\ \A a \in Actors : Range(hand[a]) \cap Range(data) = {}
      /\ Range(data) \subseteq 1..Taken
  <2>1. Range(data) \subseteq 1..Taken /\ Range(data) \subseteq 1..accepted
    <3>1. 1..Taken \subseteq 1..accepted
      BY BufferRange DEF Taken
    <3>2. Range(data) \subseteq 1..Taken
      BY BufferRange
    <3> QED
      BY <3>1, <3>2
  <2> QED
    BY <2>1 DEF OneHolder, InHand, InJob
<1> HIDE DEF s, data
<1>6. JobProgress(j)' /\ ServedUpTo(j)'
  <2>1. s <= job[j].n /\ s \in Nat
    BY <1>1 DEF s
  <2>2. JobProgress(j)'
    BY <1>2, <1>3, <2>1 DEF Delivery, JobProgress, data
  <2>3. ServedUpTo(j)'
    <3> SUFFICES ASSUME NEW t \in Stores
                 PROVE  /\ t <= s => Range(data) \subseteq Range(stored'[t])
                        /\ t > s => Range(data) \cap Range(stored'[t]) = {}
      BY <1>2 DEF ServedUpTo
    <3>1. CASE t = s
      BY <1>4, <2>1, <3>1
    <3>2. CASE t # s
      <4>1. t \in Nat /\ (t <= s => t <= job[j].i) /\ (t > s => t > job[j].i)
        BY <1>1, <3>2, StoresAreNumbers DEF s
      <4> QED
        BY <1>3, <3>2, <4>1 DEF Delivery, ServedUpTo, data
    <3> QED
      BY <3>1, <3>2
  <2> QED
    BY <2>2, <2>3
<1>7. \A k \in Jobs : JobProgress(k)' /\ ServedUpTo(k)'
  <2> SUFFICES ASSUME NEW k \in Jobs, k # j PROVE JobProgress(k)' /\ ServedUpTo(k)'
    BY <1>6
  <2>1. JobProgress(k)'
    BY <1>2, <1>3 DEF Delivery, JobProgress
  <2>2. ServedUpTo(k)'
    <3> SUFFICES ASSUME NEW t \in Stores
                 PROVE  /\ t <= job[k].i => Range(job[k].data) \subseteq Range(stored'[t])
                        /\ t > job[k].i => Range(job[k].data) \cap Range(stored'[t]) = {}
      BY <1>2 DEF ServedUpTo
    <3>1. /\ t <= job[k].i => Range(job[k].data) \subseteq Range(stored[t])
          /\ t > job[k].i => Range(job[k].data) \cap Range(stored[t]) = {}
      BY DEF Delivery, ServedUpTo
    <3>2. CASE t = s
      BY <1>4, <1>5, <3>1, <3>2
    <3>3. CASE t # s
      BY <1>3, <3>1, <3>3
    <3> QED
      BY <3>2, <3>3
  <2> QED
    BY <2>1, <2>2
<1>8. \A t \in Stores : Range(stored'[t]) \subseteq 1..Taken'
  BY <1>3, <1>4, <1>5 DEF Delivery, Taken
<1>9. \A a \in Actors, t \in Stores : Range(hand'[a]) \cap Range(stored'[t]) = {}
  BY <1>3, <1>4, <1>5 DEF Delivery
<1> QED
  BY <1>3, <1>7, <1>8, <1>9 DEF Delivery

(* The other steps of a StoreCoroutine change only where it is. *)
LEMMA DeliveryRun ==
    ASSUME DInv, NEW j \in Jobs, StartJob(j) \/ StoreFails(j) \/ AllStoresServed(j)
    PROVE  Delivery'
<1> USE DEF DInv, IInv
<1>1. /\ \A k \in Jobs : /\ job'[k].data = job[k].data
                          /\ job'[k].i = job[k].i /\ job'[k].n = job[k].n
      /\ \A k \in Jobs : k # j => job'[k] = job[k]
      /\ UNCHANGED <<buffer, hand, stored, stores, storesAt, accepted>>
  <2>1. PICK st \in JobState : job' = [job EXCEPT ![j].st = st]
    BY DEF StartJob, StoreFails, AllStoresServed, JobState
  <2>2. UNCHANGED <<buffer, hand, stored, stores, storesAt, accepted>>
    BY DEF StartJob, StoreFails, AllStoresServed
  <2> QED
    BY <2>1, <2>2 DEF TypeOK, JobType
<1>2. /\ job[j].i \in Nat /\ job[j].n \in Nat /\ job[j].i <= job[j].n
      /\ job'[j].st = "done" => job[j].i = job[j].n
      /\ job'[j].st = "failed" => job[j].i < job[j].n
  BY DatabaseManagerAssumption
     DEF StartJob, StoreFails, AllStoresServed, MoreStores, TypeOK, JobType, Delivery, JobProgress
<1>3. \A k \in Jobs : JobProgress(k)' /\ ServedUpTo(k)'
  BY <1>1, <1>2 DEF Delivery, JobProgress, ServedUpTo
<1> QED
  BY <1>1, <1>3 DEF Delivery, Taken

LEMMA DeliveryHandler ==
    ASSUME DInv, NEW j \in Jobs, ResultHandler(j)
    PROVE  Delivery'
<1> USE DEF DInv, IInv
<1>1. /\ job'[j] = FreeJob /\ \A k \in Jobs : k # j => job'[k] = job[k]
      /\ UNCHANGED <<buffer, hand, stored, stores, storesAt, accepted>>
  BY DEF ResultHandler, TypeOK
<1>2. JobProgress(j)' /\ ServedUpTo(j)'
  BY <1>1, EmptyRange, DatabaseManagerAssumption DEF FreeJob, JobProgress, ServedUpTo, TypeOK
<1>3. \A k \in Jobs : JobProgress(k)' /\ ServedUpTo(k)'
  BY <1>1, <1>2 DEF Delivery, JobProgress, ServedUpTo
<1> QED
  BY <1>1, <1>3 DEF Delivery, Taken

LEMMA DeliveryStep == DInv /\ [Next]_vars => DInv'
<1> SUFFICES ASSUME DInv, [Next]_vars PROVE DInv'
  OBVIOUS
<1>1. IInv'
  BY IInvStep DEF DInv
<1>2. ASSUME NEW c \in Callers, PushBack(c) PROVE Delivery'
  BY <1>2, DeliveryPush
<1>3. ASSUME NEW c \in Callers, TakeAt(c) PROVE Delivery'
  BY <1>3, DeliveryTake DEF TakeAt, Actors
<1>4. ASSUME TimerTakes PROVE Delivery'
  BY <1>4, DeliveryTake DEF TimerTakes, Actors
<1>5. ASSUME NEW a \in Actors, NEW j \in Jobs, SpawnStoreData(a, j) PROVE Delivery'
  BY <1>5, DeliverySpawn
<1>6. ASSUME NEW j \in Jobs, StoreAccepts(j) PROVE Delivery'
  BY <1>6, DeliveryServe
<1>7. ASSUME NEW j \in Jobs, StartJob(j) \/ StoreFails(j) \/ AllStoresServed(j) PROVE Delivery'
  BY <1>7, DeliveryRun
<1>8. ASSUME NEW j \in Jobs, ResultHandler(j) PROVE Delivery'
  BY <1>8, DeliveryHandler
<1>9. ASSUME \/ \E c \in Callers : BelowThreshold(c)
             \/ TimerCheck \/ Tick \/ TickFails \/ TimerFindsSchedulerGone
             \/ AddStore \/ Stop \/ Expire \/ UNCHANGED vars
      PROVE  Delivery'
  <2>1. /\ UNCHANGED <<stored, storesAt, accepted, job, hand, buffer>>
        /\ stores' \in Nat /\ stores <= stores'
    BY <1>9, DatabaseManagerAssumption DEF BelowThreshold, TimerCheck, Tick, TickFails,
       TimerFindsSchedulerGone, AddStore, Stop, Expire, vars, DInv, IInv, TypeOK
  <2> QED
    BY <2>1, DeliveryFrame DEF Taken
<1> QED
  BY <1>1, <1>2, <1>3, <1>4, <1>5, <1>6, <1>7, <1>8, <1>9 DEF Next, TimerStep, RunJob, DInv

LEMMA DeliveryInit == Init => DInv
<1> SUFFICES ASSUME Init PROVE DInv
  OBVIOUS
<1>1. \A j \in Jobs : JobProgress(j) /\ ServedUpTo(j)
  BY EmptyRange, DatabaseManagerAssumption DEF Init, FreeJob, JobProgress, ServedUpTo
<1>2. /\ \A s \in Stores : Range(stored[s]) = {}
      /\ \A a \in Actors : Range(hand[a]) = {}
      /\ accepted = 0
  BY EmptyRange DEF Init
<1> QED
  BY <1>1, <1>2, IInvInit DEF DInv, Delivery

-----------------------------------------------------------------------------
(* A gapless run of taken batches, as WriteLog writes it. *)
LEMMA RunIsBatchRun ==
    ASSUME TypeOK, Ledger, NEW seq \in Seq(Batches), TakenRun(seq)
    PROVE  \E first \in 1..(accepted + 1), n \in 0..accepted : seq = Log!BatchRun(first, n)
<1>1. Taken \in Nat /\ accepted \in Nat /\ Taken <= accepted
  BY BufferRange DEF Taken
<1>2. Len(seq) \in Nat /\ DOMAIN seq = 1..Len(seq)
  OBVIOUS
<1>3. CASE Len(seq) = 0
  <2>1. seq = Log!BatchRun(1, 0)
    BY <1>3 DEF Log!BatchRun
  <2> QED
    BY <1>1, <2>1
<1>4. CASE Len(seq) # 0
  <2>1. 1 \in DOMAIN seq /\ Len(seq) \in DOMAIN seq
    BY <1>2, <1>4
  <2>2. seq[1] \in 1..Taken /\ seq[Len(seq)] \in 1..Taken
    BY <2>1 DEF TakenRun
  <2>3. \A x \in 1..Len(seq) : seq[x] = seq[1] + x - 1
    <3> TAKE x \in 1..Len(seq)
    <3>1. seq[x] = seq[1] + (x - 1)
      BY <1>2 DEF TakenRun, IsRun
    <3> QED
      BY <1>2, <2>2, <3>1
  <2>4. seq[1] \in 1..(accepted + 1) /\ Len(seq) \in 0..accepted
    <3>1. seq[Len(seq)] = seq[1] + Len(seq) - 1
      BY <1>2, <1>4, <2>3
    <3> QED
      BY <1>1, <1>2, <2>2, <3>1
  <2>5. seq = Log!BatchRun(seq[1], Len(seq))
    BY <1>2, <2>3 DEF Log!BatchRun
  <2> QED
    BY <2>4, <2>5
<1> QED
  BY <1>3, <1>4

(* StoreAccepts delivers a run to the next store. *)
LEMMA ServeDelivers ==
    ASSUME DInv, NEW j \in Jobs, StoreAccepts(j)
    PROVE  Log!Next
<1> DEFINE s == job[j].i + 1
           data == job[j].data
<1> USE DEF DInv, IInv
<1>1. /\ s \in Stores /\ job[j].i \in Nat /\ job[j].n \in Nat /\ job[j].i < job[j].n
      /\ stores \in Nat /\ job[j].n <= stores
      /\ data \in Seq(Batches)
  BY DatabaseManagerAssumption
     DEF StoreAccepts, MoreStores, TypeOK, JobType, Stores, Delivery, JobProgress
<1>2. s \in 1..stores
  BY <1>1
<1>3. Range(data) \subseteq (1..accepted) \ (ended \cup Range(stored[s]))
  <2>1. Range(data) \subseteq 1..accepted
    <3>1. 1..Taken \subseteq 1..accepted /\ Range(data) \subseteq 1..Taken
      BY BufferRange DEF Taken
    <3> QED
      BY <3>1
  <2>2. Range(data) \cap ended = {}
    BY <2>1 DEF OneHolder, InJob
  <2>3. Range(data) \cap Range(stored[s]) = {}
    <3>1. s \in Stores /\ s > job[j].i
      BY <1>1
    <3> HIDE DEF s
    <3> QED
      BY <3>1 DEF Delivery, ServedUpTo
  <2> QED
    BY <2>1, <2>2, <2>3
<1>4. s > 1 => Range(data) \subseteq Range(stored[s - 1])
  <2>1. s - 1 = job[j].i
    BY <1>1
  <2>2. s > 1 => job[j].i \in Stores
    BY <1>1, DatabaseManagerAssumption DEF Stores
  <2>3. job[j].i <= job[j].i
    BY <1>1
  <2>4. job[j].i \in Stores => Range(data) \subseteq Range(stored[job[j].i])
    BY <2>3 DEF Delivery, ServedUpTo
  <2> QED
    BY <2>1, <2>2, <2>4
<1>5. /\ stored' = [stored EXCEPT ![s] = @ \o data]
      /\ UNCHANGED <<stores, stopped, accepted, storesAt, ended>>
  BY DEF StoreAccepts
<1>6. Log!Deliver(s, data)
  BY <1>3, <1>4, <1>5, SameRange DEF Log!Deliver
<1> HIDE DEF s
<1>7. PICK first \in 1..(accepted + 1), n \in 0..accepted : data = Log!BatchRun(first, n)
  BY <1>1, RunIsBatchRun DEF Ledger
<1> QED
  BY <1>2, <1>6, <1>7 DEF Log!Next

(* A StoreCoroutine that has ended well has served them all. *)
LEMMA DoneIsInStores ==
    ASSUME DInv, NEW j \in Jobs, job[j].st = "done", NEW b \in Range(job[j].data)
    PROVE  InEveryStore(b)
<1> USE DEF DInv, IInv
<1>1. b \in 1..accepted /\ storesAt[b] \in 0..NStores
  <2>1. 1..Taken \subseteq 1..accepted /\ Range(job[j].data) \subseteq 1..Taken
    BY BufferRange DEF Taken
  <2> QED  BY <2>1, StoresAtTyped
<1>2. storesAt[b] <= job[j].i /\ job[j].i \in 0..NStores
  BY DEF Delivery, JobProgress, TypeOK, JobType
<1>3. \A s \in 1..storesAt[b] : s \in Stores /\ s <= job[j].i
  BY <1>1, <1>2, DatabaseManagerAssumption DEF Stores
<1> QED  BY <1>3 DEF Delivery, ServedUpTo, InEveryStore

(* ResultHandler completes what every store has, or gives up. *)
LEMMA HandlerCompletes ==
    ASSUME DInv, NEW j \in Jobs, ResultHandler(j)
    PROVE  Log!Next
<1> DEFINE data == job[j].data
<1> USE DEF DInv, IInv
<1>1. /\ ~stopped /\ job[j].st \in {"done", "failed"}
      /\ stopped' = (job[j].st = "failed") /\ stopped \in BOOLEAN
      /\ ended' = ended \cup Range(data)
      /\ UNCHANGED <<stores, accepted, storesAt, stored>>
  BY DEF ResultHandler, Down, TypeOK
<1>2. /\ Range(data) \subseteq 1..accepted
      /\ Range(data) \subseteq (1..accepted) \ ended
  <2>1. 1..Taken \subseteq 1..accepted /\ Range(data) \subseteq 1..Taken
    BY BufferRange DEF Taken
  <2>2. Range(data) \cap ended = {}
    BY <2>1 DEF OneHolder, InJob
  <2> QED
    BY <2>1, <2>2
<1>3. /\ data \in Seq(Batches)
      /\ job[j].i \in 0..NStores /\ job[j].n \in 0..NStores /\ stores \in 0..NStores
      /\ job[j].i <= job[j].n /\ job[j].n <= stores
  BY DEF TypeOK, JobType, Delivery, JobProgress
<1>4. PICK first \in 1..(accepted + 1), n \in 0..accepted : data = Log!BatchRun(first, n)
  BY <1>3, RunIsBatchRun DEF Ledger
<1>5. CASE job[j].st = "done"
  <2>1. \A b \in Range(data) : \A s \in 1..storesAt[b] : b \in Range(stored[s])
    BY <1>5, DoneIsInStores DEF InEveryStore
  <2>2. stopped' = stopped
    BY <1>1, <1>5
  <2>3. Log!Complete(data)
    <3> HIDE DEF DInv, IInv, data
    <3> QED  BY <1>1, <1>2, <2>1, <2>2, SameRange DEF Log!Complete
  <2> QED
    BY <1>4, <2>3 DEF Log!Next
<1>6. CASE job[j].st = "failed"
  <2>1. job[j].i < job[j].n
    BY <1>6 DEF Delivery, JobProgress
  <2>2. job[j].i + 1 \in 1..stores /\ job[j].i + 1 \in Stores /\ job[j].i + 1 > job[j].i
    <3> HIDE DEF DInv, IInv, data
    <3> QED  BY <1>3, <2>1, DatabaseManagerAssumption DEF Stores
  <2>3. Range(data) \cap Range(stored[job[j].i + 1]) = {}
    BY <2>2 DEF Delivery, ServedUpTo
  <2>4. Log!GiveUp(data)
    BY <1>1, <1>2, <1>6, <2>2, <2>3, SameRange DEF Log!GiveUp
  <2> QED
    BY <1>4, <2>4 DEF Log!Next
<1> QED
  BY <1>1, <1>5, <1>6

LEMMA RefinementStep == DInv /\ [Next]_vars => [Log!Next]_(Log!logVars)
<1> SUFFICES ASSUME DInv, [Next]_vars PROVE Log!Next \/ UNCHANGED Log!logVars
  OBVIOUS
<1>1. ASSUME NEW c \in Callers, PushBack(c) PROVE Log!Next
  BY <1>1 DEF PushBack, Log!Next, Log!Accept
<1>2. ASSUME AddStore PROVE Log!Next
  <2>1. stores + 1 \in Stores
    BY <1>2, DatabaseManagerAssumption DEF AddStore, Stores, DInv, IInv, TypeOK
  <2> QED
    BY <1>2, <2>1 DEF AddStore, Log!Next, Log!AddStore
<1>3. ASSUME NEW j \in Jobs, StoreAccepts(j) PROVE Log!Next
  BY <1>3, ServeDelivers
<1>4. ASSUME NEW j \in Jobs, ResultHandler(j) PROVE Log!Next
  BY <1>4, HandlerCompletes
<1>5. ASSUME Stop \/ TickFails PROVE Log!Next
  BY <1>5 DEF Stop, TickFails, Log!Next, Log!Stop
<1>6. ASSUME \/ \E c \in Callers : TakeAt(c) \/ BelowThreshold(c)
             \/ \E a \in Actors, j \in Jobs : SpawnStoreData(a, j)
             \/ \E j \in Jobs : StartJob(j) \/ StoreFails(j) \/ AllStoresServed(j)
             \/ TimerCheck \/ Tick \/ TimerTakes \/ TimerFindsSchedulerGone
             \/ Expire \/ UNCHANGED vars
      PROVE  UNCHANGED Log!logVars
  BY <1>6 DEF TakeAt, BelowThreshold, SpawnStoreData, StartJob, StoreFails, AllStoresServed,
     TimerCheck, Tick, TimerTakes, TimerFindsSchedulerGone, Expire, vars, Log!logVars
<1> QED
  BY <1>1, <1>2, <1>3, <1>4, <1>5, <1>6 DEF Next, TimerStep, RunJob

LEMMA RefinementInit == Init => Log!Init
<1> SUFFICES ASSUME Init PROVE Log!Init
  OBVIOUS
<1>1. stores \in Nat /\ 1..stores \subseteq Stores
  BY DatabaseManagerAssumption DEF Init, Stores
<1> QED
  BY <1>1 DEF Init, Log!Init

(* The write path with its buffer, threads, coroutines and timer implements
   WriteLog, however many callers, stores and coroutines there are. *)
THEOREM WritePathImplementsLog == Spec => ImplementsWriteLog
BY DeliveryInit, DeliveryStep, RefinementInit, RefinementStep, PTL
   DEF Spec, ImplementsWriteLog, Log!Spec

(* The specification that WriteLogProofs speaks of is the same. *)
LEMMA SameLog == ImplementsWriteLog => L!Spec
<1>1. Log!Init <=> L!Init
  BY DEF Log!Init, L!Init
<1>2. [Log!Next]_(Log!logVars) <=> [L!Next]_(L!logVars)
  <2>1. \A b : /\ \A t : Log!Deliver(t, b) <=> L!Deliver(t, b)
               /\ Log!Complete(b) <=> L!Complete(b)
               /\ Log!GiveUp(b) <=> L!GiveUp(b)
    BY SameRange DEF Log!Deliver, L!Deliver, Log!Complete, L!Complete, Log!GiveUp, L!GiveUp
  <2>2. \A x, n : Log!BatchRun(x, n) = L!BatchRun(x, n)
    BY DEF Log!BatchRun, L!BatchRun
  <2>3. /\ Log!Accept <=> L!Accept
        /\ Log!AddStore <=> L!AddStore
        /\ Log!Stop <=> L!Stop
    BY DEF Log!Accept, L!Accept, Log!AddStore, L!AddStore, Log!Stop, L!Stop
  <2>4. Log!Next <=> L!Next
    BY <2>1, <2>2, <2>3 DEF Log!Next, L!Next
  <2>5. UNCHANGED Log!logVars <=> UNCHANGED L!logVars
    BY DEF Log!logVars, L!logVars
  <2> QED
    BY <2>4, <2>5
<1> QED
  BY <1>1, <1>2, PTL DEF ImplementsWriteLog, Log!Spec, L!Spec

(* So no store is given a batch twice, nor one that an earlier store in the
   list did not take, ... *)
THEOREM StoresGetRunsInTurn == Spec => [](L!AtMostOnce /\ L!EarlierFirst)
BY WritePathImplementsLog, SameLog, L!LogIsSafe, StoresAreNumbers, PTL

(* ... and a batch whose write completed, with no error so far, is in every
   store there was when StoreEvent accepted it. *)
THEOREM CompletedIsStoredAlways == Spec => []CompletedIsStored
<1>1. L!DoneIsStored => CompletedIsStored
  BY SameRange DEF CompletedIsStored, InEveryStore, L!DoneIsStored
<1> QED
  BY <1>1, WritePathImplementsLog, SameLog, L!LogIsSafe, StoresAreNumbers, PTL

-----------------------------------------------------------------------------
(***************************************************************************)
(* The order in which a store gets the batches of one taker.               *)
(***************************************************************************)
(* All that store s holds of what a took came before batch b. *)
Behind(b, a, s) == \A d \in Range(stored[s]) : takenBy[d] = a => d < b

InlineRun(j) == job[j].st = "running" /\ job[j].inline

HandTaken(a) ==
    \A b \in Range(hand[a]) :
        takenBy[b] = a /\ (OnPool(a) => \A s \in Stores : Behind(b, a, s))

JobTaken(j) ==
    /\ \A b \in Range(job[j].data) : takenBy[b] = job[j].by
    /\ job[j].st # "free" => (job[j].inline <=> OnPool(job[j].by))
    /\ job[j].inline => job[j].st # "queued"
    /\ InlineRun(j) =>
          /\ pc[job[j].by] \in {"idle", "check"}
          /\ \A s \in Stores : s > job[j].i =>
                \A b \in Range(job[j].data) : Behind(b, job[j].by, s)

(* A taker on the pool is inside one StoreCoroutine at most, and while it is,
   it has nothing else in its hand. *)
OrderInv ==
    /\ DInv
    /\ Len(takenBy) = Taken
    /\ \A a \in Actors : HandTaken(a)
    /\ \A j \in Jobs : JobTaken(j)
    /\ \A j, k \in Jobs : InlineRun(j) /\ InlineRun(k) /\ job[j].by = job[k].by => j = k
    /\ InOrderPerTaker

LEMMA OrderInit == Init => OrderInv
<1> SUFFICES ASSUME Init PROVE OrderInv
  OBVIOUS
<1>1. Len(takenBy) = Taken
  <2>1. takenBy = <<>> /\ buffer = <<>> /\ accepted = 0
    BY DEF Init
  <2>2. Len(<<>>) = 0 /\ 0 - 0 = 0
    OBVIOUS
  <2> QED  BY <2>1, <2>2 DEF Taken
<1>2. \A a \in Actors : HandTaken(a)
  BY EmptyRange DEF Init, HandTaken
<1>3. \A j \in Jobs : JobTaken(j) /\ ~InlineRun(j)
  BY EmptyRange DEF Init, JobTaken, InlineRun, FreeJob
<1>4. InOrderPerTaker
  BY DEF Init, InOrderPerTaker
<1> QED  BY <1>1, <1>2, <1>3, <1>4, DeliveryInit DEF OrderInv

(* Slot j stays, becomes free, or keeps a StoreCoroutine that is then not one that
   runs in its taker's call. *)
SameJob(j) ==
    /\ job'[j].data = job[j].data /\ job'[j].by = job[j].by
    /\ job'[j].inline = job[j].inline /\ job'[j].i = job[j].i
    /\ job[j].st # "free" /\ job'[j].st # "queued"
    /\ job'[j].st = "running" => ~job[j].inline

JobRests(j) == job'[j] = job[j] \/ job'[j] = FreeJob \/ SameJob(j)

(* Hands, stores and takers stay, a StoreCoroutine at most stops running, and
   no actor moves on while it is inside one. *)
LEMMA OrderFrame ==
    ASSUME OrderInv, DInv', UNCHANGED <<hand, stored, takenBy>>, Taken' = Taken,
           \A j \in Jobs : JobRests(j),
           \A a \in Actors : pc[a] \in {"idle", "check"} /\ pc'[a] # pc[a] => ~InCall(a)
    PROVE  OrderInv'
<1>1. \A j \in Jobs : InlineRun(j)' => InlineRun(j) /\ job'[j] = job[j]
  BY DEF InlineRun, FreeJob, JobRests, SameJob
<1>2. \A a \in Actors : HandTaken(a)'
  BY DEF OrderInv, HandTaken, Behind
<1>3. ASSUME NEW j \in Jobs PROVE JobTaken(j)'
  <2>1. JobTaken(j)
    BY DEF OrderInv
  <2>2. CASE job'[j] = job[j]
    <3>1. InlineRun(j) => job[j].by \in Actors /\ pc'[job[j].by] = pc[job[j].by]
      BY <2>1 DEF JobTaken, InlineRun, InCall, OrderInv, DInv, IInv, TypeOK, JobType
    <3> QED  BY <2>1, <2>2, <3>1 DEF JobTaken, InlineRun, Behind
  <2>3. CASE job'[j] = FreeJob
    BY <2>3, EmptyRange DEF JobTaken, InlineRun, FreeJob
  <2>4. CASE SameJob(j)
    BY <2>1, <2>4 DEF SameJob, JobTaken, InlineRun
  <2> QED  BY <2>2, <2>3, <2>4 DEF JobRests
<1>4. InOrderPerTaker'
  BY DEF OrderInv, InOrderPerTaker
<1> QED  BY <1>1, <1>2, <1>3, <1>4 DEF OrderInv

(* IntoInner: what a takes is later than all that has been taken. *)
LEMMA OrderTake ==
    ASSUME OrderInv, DInv', NEW a \in Actors, IntoInner(a), pc[a] \notin {"idle", "check"},
           pc' = [pc EXCEPT ![a] = "holding"], UNCHANGED <<job, stored, accepted>>
    PROVE  OrderInv'
<1> USE DEF OrderInv, DInv, IInv
<1>1. /\ Taken \in Nat /\ Len(buffer) \in Nat /\ accepted \in Nat
      /\ Range(buffer) = (Taken + 1)..accepted /\ accepted = Taken + Len(buffer)
      /\ \A d \in Actors : Range(hand[d]) \subseteq 1..Taken
      /\ \A j \in Jobs : Range(job[j].data) \subseteq 1..Taken
      /\ \A s \in Stores : Range(stored[s]) \subseteq 1..Taken
  BY BufferRange DEF Taken, Delivery
<1>2. Taken' = accepted
  BY <1>1 DEF Taken, IntoInner
<1>3. /\ Len(takenBy') = Taken'
      /\ \A b \in 1..Taken : takenBy'[b] = takenBy[b]
      /\ \A b \in (Taken + 1)..accepted : takenBy'[b] = a
  <2>1. takenBy \in Seq(Actors) /\ Len(takenBy) = Taken
    BY DEF TypeOK
  <2> DEFINE by == [x \in 1..Len(buffer) |-> a]
  <2>2. by \in Seq(Actors) /\ Len(by) = Len(buffer)
    BY <1>1
  <2>3. takenBy' = takenBy \o by
    BY DEF IntoInner
  <2>4. \A x \in 1..Len(buffer) : by[x] = a
    OBVIOUS
  <2> HIDE DEF by
  <2>5. /\ Len(takenBy') = Len(takenBy) + Len(by)
        /\ \A b \in 1..Taken : takenBy'[b] = takenBy[b]
        /\ \A b \in (Taken + 1)..(Taken + Len(by)) : takenBy'[b] = by[b - Taken]
    BY <1>1, <2>1, <2>2, <2>3, ConcatProperties
  <2> QED  BY <1>1, <1>2, <2>1, <2>2, <2>4, <2>5
<1>4. \A b \in 1..Taken, d \in Actors, s \in Stores : Behind(b, d, s)' <=> Behind(b, d, s)
  BY <1>1, <1>3 DEF Behind
<1>5. ASSUME NEW d \in Actors PROVE HandTaken(d)'
  <2>1. CASE d = a
    <3>1. Range(hand'[d]) = (Taken + 1)..accepted
      BY <1>1, <2>1 DEF IntoInner, TypeOK
    <3>2. \A b \in (Taken + 1)..accepted, s \in Stores : Behind(b, a, s)'
      <4> SUFFICES ASSUME NEW b \in (Taken + 1)..accepted, NEW s \in Stores,
                          NEW c \in Range(stored[s])
                   PROVE  c < b
        BY DEF Behind
      <4>1. c \in 1..Taken
        BY <1>1, Zenon
      <4> HIDE DEF OrderInv, DInv, IInv
      <4> QED  BY <1>1, <4>1
    <3>3. \A b \in Range(hand'[d]) : takenBy'[b] = d
      BY <1>3, <2>1, <3>1, Zenon
    <3>4. \A b \in Range(hand'[d]), s \in Stores : Behind(b, d, s)'
      BY <2>1, <3>1, <3>2, Zenon
    <3> QED  BY <3>3, <3>4, Zenon DEF HandTaken
  <2>2. CASE d # a
    <3>1. hand'[d] = hand[d]
      BY <2>2 DEF IntoInner, TypeOK
    <3> QED  BY <1>1, <1>3, <1>4, <3>1 DEF HandTaken
  <2> QED  BY <2>1, <2>2
<1>6. ASSUME NEW j \in Jobs PROVE JobTaken(j)'
  <2>1. JobTaken(j) /\ job[j].by \in Actors
    BY DEF TypeOK, JobType
  <2>2. InlineRun(j) => job[j].by # a /\ pc'[job[j].by] = pc[job[j].by]
    BY <2>1 DEF JobTaken, TypeOK
  <2>3. \A b \in Range(job[j].data) : b \in 1..Taken
    BY <1>1
  <2> QED  BY <1>3, <1>4, <2>1, <2>2, <2>3 DEF JobTaken, InlineRun
<1>7. InOrderPerTaker'
  <2>1. \A s \in Stores : \A x \in DOMAIN stored[s] : stored[s][x] \in 1..Taken
    BY <1>1 DEF Range
  <2> QED  BY <1>3, <2>1 DEF InOrderPerTaker
<1> QED  BY <1>3, <1>5, <1>6, <1>7 DEF InlineRun

(* SpawnStoreData: a taker on the pool enters the StoreCoroutine it spawns. *)
LEMMA OrderSpawn ==
    ASSUME OrderInv, DInv', NEW a \in Actors, NEW j \in Jobs, SpawnStoreData(a, j)
    PROVE  OrderInv'
<1> USE DEF OrderInv, DInv, IInv
<1>1. /\ hand'[a] = <<>> /\ \A d \in Actors : d # a => hand'[d] = hand[d]
      /\ UNCHANGED <<stored, takenBy, buffer, accepted>> /\ Taken' = Taken
      /\ \A k \in Jobs : k # j => job'[k] = job[k]
      /\ pc[a] = "holding" /\ pc'[a] \in {"idle", "check"}
      /\ \A d \in Actors : d # a => pc'[d] = pc[d]
  BY DEF SpawnStoreData, Taken, TypeOK
<1>2. /\ job'[j].data = hand[a] /\ job'[j].by = a /\ job'[j].st # "free"
      /\ job'[j].inline = OnPool(a)
      /\ job'[j].st = IF OnPool(a) THEN "running" ELSE "queued"
  BY DEF SpawnStoreData, NewJob, TypeOK
<1>3. \A b, d, s : Behind(b, d, s)' <=> Behind(b, d, s)
  BY <1>1 DEF Behind
<1>4. \A d \in Actors : HandTaken(d)'
  BY <1>1, <1>3, EmptyRange DEF HandTaken
<1>5. JobTaken(j)'
  <2>1. OnPool(a) \in BOOLEAN
    BY DEF OnPool
  <2>2. HandTaken(a)
    OBVIOUS
  <2> QED  BY <1>1, <1>2, <1>3, <2>1, <2>2 DEF JobTaken, HandTaken, InlineRun
<1>6. ASSUME NEW k \in Jobs, k # j, InlineRun(k)' PROVE InlineRun(k) /\ job[k].by \in Actors \ {a}
  <2>1. job'[k] = job[k]
    BY <1>1, <1>6
  <2>2. InlineRun(k) /\ JobTaken(k) /\ job[k].by \in Actors
    BY <1>6, <2>1 DEF InlineRun, TypeOK, JobType
  <2>3. pc[job[k].by] # "holding"
    BY <2>2 DEF JobTaken
  <2> QED  BY <1>1, <2>2, <2>3
<1>7. ASSUME NEW k \in Jobs, k # j PROVE JobTaken(k)'
  <2>1. JobTaken(k) /\ job'[k] = job[k]
    BY <1>1, <1>7
  <2>2. InlineRun(k)' => InlineRun(k) /\ pc'[job'[k].by] = pc[job[k].by]
    BY <1>1, <1>6, <1>7, <2>1
  <2> QED  BY <1>1, <1>3, <2>1, <2>2 DEF JobTaken
<1>8. ASSUME NEW k1 \in Jobs, NEW k2 \in Jobs, InlineRun(k1)', InlineRun(k2)',
             job'[k1].by = job'[k2].by
      PROVE  k1 = k2
  <2>1. CASE k1 = j /\ k2 # j
    BY <1>1, <1>2, <1>6, <1>8, <2>1
  <2>2. CASE k2 = j /\ k1 # j
    BY <1>1, <1>2, <1>6, <1>8, <2>2
  <2>3. CASE k1 # j /\ k2 # j
    BY <1>1, <1>6, <1>8, <2>3
  <2> QED  BY <2>1, <2>2, <2>3
<1>9. InOrderPerTaker'
  BY <1>1 DEF InOrderPerTaker
<1> QED  BY <1>1, <1>4, <1>5, <1>7, <1>8, <1>9

(* StoreAccepts: a store gets batches that are later than all it has of theirs. *)
LEMMA OrderServe ==
    ASSUME OrderInv, DInv', NEW j \in Jobs, StoreAccepts(j),
           NEW s, s = job[j].i + 1, NEW data, data = job[j].data, NEW a, a = job[j].by
    PROVE  OrderInv'
<1> USE DEF OrderInv, DInv, IInv
<1>1. /\ s \in Stores /\ job[j].i \in Nat /\ job[j].n \in Nat /\ a \in Actors
      /\ data \in Seq(Batches) /\ stored[s] \in Seq(Batches)
      /\ \A k \in Jobs : job[k].i \in Nat /\ job[k].by \in Actors
  <2>1. \A k \in Jobs : /\ job[k].i \in 0..NStores /\ job[k].n \in 0..NStores
                       /\ job[k].by \in Actors /\ job[k].data \in Seq(Batches)
    BY DEF TypeOK, JobType
  <2>2. job[j].i < job[j].n /\ stored \in [Stores -> Seq(Batches)]
    BY DEF StoreAccepts, MoreStores, TypeOK
  <2> HIDE DEF OrderInv, DInv, IInv
  <2>3. s \in Stores
    BY <2>1, <2>2, DatabaseManagerAssumption DEF Stores
  <2> QED  BY <2>1, <2>2, <2>3, DatabaseManagerAssumption
<1>2. /\ job'[j].i = s /\ job'[j].data = data /\ job'[j].by = a
      /\ job'[j].inline = job[j].inline /\ job'[j].st = "running" /\ job[j].st = "running"
      /\ \A k \in Jobs : k # j => job'[k] = job[k]
  BY DEF StoreAccepts, TypeOK, JobType
<1>3. /\ stored'[s] = stored[s] \o data
      /\ \A t \in Stores : t # s => stored'[t] = stored[t]
      /\ UNCHANGED <<buffer, hand, takenBy, pc, accepted>> /\ Taken' = Taken
  BY <1>1 DEF StoreAccepts, TypeOK, Taken
<1>4. Range(stored'[s]) = Range(stored[s]) \cup Range(data)
  BY <1>1, <1>3, L!RangeOfConcat, SameRange
<1>5. /\ JobTaken(j) /\ IsRun(data) /\ Ledger /\ InOrderPerTaker
      /\ \A d \in Actors : HandTaken(d)
      /\ \A k \in Jobs : JobTaken(k)
      /\ \A k, m \in Jobs : InlineRun(k) /\ InlineRun(m) /\ job[k].by = job[m].by => k = m
      /\ Len(takenBy) = Taken
  BY DEF Ledger, TakenRun
<1>6. /\ \A b \in Range(data) : takenBy[b] = a
      /\ OnPool(a) <=> InlineRun(j)
  BY <1>2, <1>5 DEF JobTaken, InlineRun
<1> HIDE DEF OrderInv, DInv, IInv
<1>7. ASSUME NEW b, NEW d \in Actors, NEW t \in Stores, Behind(b, d, t), d # a \/ t # s
      PROVE  Behind(b, d, t)'
  <2>1. CASE t # s
    BY <1>3, <1>7, <2>1 DEF Behind
  <2>2. CASE t = s /\ d # a
    BY <1>3, <1>4, <1>6, <1>7, <2>2 DEF Behind
  <2> QED  BY <1>7, <2>1, <2>2
<1>8. ASSUME NEW d \in Actors PROVE HandTaken(d)'
  <2>1. HandTaken(d) /\ hand'[d] = hand[d]
    BY <1>3, <1>5
  <2>2. CASE d # a
    BY <1>3, <1>7, <2>1, <2>2 DEF HandTaken
  <2>3. CASE d = a /\ ~OnPool(a)
    BY <1>3, <2>1, <2>3 DEF HandTaken, OnPool
  <2>4. CASE d = a /\ OnPool(a)
    <3>1. pc[a] \in {"idle", "check"}
      BY <1>5, <1>6, <2>4 DEF JobTaken
    <3>2. hand[d] = <<>>
      BY <1>5, <2>4, <3>1 DEF Ledger
    <3> QED  BY <2>1, <3>2, EmptyRange DEF HandTaken
  <2> QED  BY <2>2, <2>3, <2>4
<1>9. JobTaken(j)'
  <2>1. InlineRun(j)' <=> InlineRun(j)
    BY <1>2 DEF InlineRun
  <2>2. ASSUME InlineRun(j), NEW t \in Stores, t > s, NEW b \in Range(data) PROVE Behind(b, a, t)'
    <3>1. t > job[j].i /\ t # s
      BY <1>1, <2>2, StoresAreNumbers
    <3>2. Behind(b, a, t)
      BY <1>5, <2>2, <3>1 DEF JobTaken
    <3> QED  BY <1>1, <1>7, <3>1, <3>2
  <2>3. InlineRun(j) => pc[a] \in {"idle", "check"}
    BY <1>5 DEF JobTaken
  <2>4. job'[j].st # "free" => (job'[j].inline <=> OnPool(job'[j].by)) /\ job'[j].st # "queued"
    BY <1>2, <1>5 DEF JobTaken
  <2> QED  BY <1>2, <1>3, <1>6, <2>1, <2>2, <2>3, <2>4 DEF JobTaken
<1>10. ASSUME NEW k \in Jobs, k # j PROVE JobTaken(k)'
  <2>1. JobTaken(k) /\ job'[k] = job[k] /\ job[k].by \in Actors
    BY <1>1, <1>2, <1>5, <1>10
  <2>2. InlineRun(k)' <=> InlineRun(k)
    BY <2>1 DEF InlineRun
  <2>3. InlineRun(k) => job[k].by # a
    <3> SUFFICES ASSUME InlineRun(k), job[k].by = a PROVE FALSE
      OBVIOUS
    <3>1. OnPool(a)
      BY <2>1 DEF JobTaken, InlineRun
    <3> QED  BY <1>5, <1>6, <1>10, <3>1
  <2>4. \A t \in Stores : \A b \in Range(job[k].data) :
           InlineRun(k) /\ Behind(b, job[k].by, t) => Behind(b, job[k].by, t)'
    BY <1>7, <2>1, <2>3
  <2> QED  BY <1>3, <2>1, <2>2, <2>4 DEF JobTaken
<1>11. \A k, m \in Jobs : InlineRun(k)' /\ InlineRun(m)' /\ job'[k].by = job'[m].by => k = m
  <2>1. \A k \in Jobs : job'[k].by = job[k].by /\ (InlineRun(k)' <=> InlineRun(k))
    BY <1>2 DEF InlineRun
  <2> QED  BY <1>5, <2>1
<1>12. InOrderPerTaker'
  <2> SUFFICES ASSUME NEW t \in Stores, NEW x \in DOMAIN stored'[t], NEW y \in DOMAIN stored'[t],
                      x < y, takenBy[stored'[t][x]] = takenBy[stored'[t][y]],
                      OnPool(takenBy[stored'[t][x]])
               PROVE  stored'[t][x] < stored'[t][y]
    BY <1>3 DEF InOrderPerTaker, OnPool
  <2>1. CASE t # s
    BY <1>3, <1>5, <2>1 DEF InOrderPerTaker
  <2>2. CASE t = s
    <3> DEFINE old == stored[s]
               len == Len(old)
    <3>1. /\ old \in Seq(Batches) /\ len \in Nat /\ Len(data) \in Nat
          /\ DOMAIN stored'[t] = 1..(len + Len(data))
          /\ \A z \in 1..len : stored'[t][z] = old[z] /\ old[z] \in Range(old)
          /\ \A z \in (len + 1)..(len + Len(data)) :
                stored'[t][z] = data[z - len] /\ z - len \in 1..Len(data)
      <4>1. stored'[t] = old \o data /\ old \in Seq(Batches) /\ data \in Seq(Batches)
        BY <1>1, <1>3, <2>2
      <4> HIDE DEF old
      <4>2. DOMAIN old = 1..Len(old)
        BY <4>1
      <4> QED  BY <4>1, <4>2, ConcatProperties DEF Range
    <3>2. \A z \in 1..Len(data) : data[z] \in Range(data) /\ data[z] \in Nat
                                   /\ data[z] = data[1] + (z - 1) /\ data[1] \in Nat
      <4>1. DOMAIN data = 1..Len(data) /\ \A z \in 1..Len(data) : data[z] \in Batches
        BY <1>1
      <4>2. \A z \in 1..Len(data) : data[z] = data[1] + (z - 1) /\ data[z] \in Range(data)
        BY <1>5, <4>1 DEF Range, IsRun
      <4>3. \A z \in 1..Len(data) : 1 \in 1..Len(data) /\ data[z] \in Nat
        BY <3>1, <4>1 DEF Batches
      <4> QED  BY <4>2, <4>3
    <3> HIDE DEF old, len
    <3>3. CASE y <= len
      <4>1. x \in 1..len /\ y \in 1..len
        BY <3>1, <3>3
      <4>2. /\ DOMAIN stored[s] = 1..len
            /\ stored'[t][x] = stored[s][x] /\ stored'[t][y] = stored[s][y]
        BY <1>1, <3>1, <4>1 DEF old, len
      <4>3. takenBy[stored[s][x]] = takenBy[stored[s][y]] /\ OnPool(takenBy[stored[s][x]])
        BY <4>2
      <4> QED  BY <1>1, <1>5, <4>1, <4>2, <4>3 DEF InOrderPerTaker
    <3>4. CASE x <= len /\ y > len
      <4>1. x \in 1..len /\ y \in (len + 1)..(len + Len(data))
        BY <3>1, <3>4
      <4>2. stored'[t][x] \in Range(old) /\ stored'[t][y] \in Range(data)
        BY <3>1, <3>2, <4>1
      <4>3. takenBy[stored'[t][y]] = a
        BY <1>6, <4>2
      <4>4. InlineRun(j)
        BY <1>6, <4>3
      <4>5. s > job[j].i
        BY <1>1
      <4>6. Behind(stored'[t][y], a, s)
        BY <1>1, <1>5, <4>2, <4>4, <4>5 DEF JobTaken
      <4> QED  BY <4>2, <4>3, <4>6 DEF Behind, old
    <3>5. CASE x > len /\ y > len
      <4>1. x \in (len + 1)..(len + Len(data)) /\ y \in (len + 1)..(len + Len(data))
        BY <3>1, <3>5
      <4>2. /\ stored'[t][x] = data[1] + (x - len - 1) /\ stored'[t][y] = data[1] + (y - len - 1)
            /\ data[1] \in Nat
        BY <3>1, <3>2, <4>1
      <4>3. x < y /\ x \in Int /\ y \in Int /\ len \in Int
        BY <3>1, <4>1
      <4>4. ASSUME NEW f \in Nat, NEW u \in Int, NEW v \in Int, NEW n \in Int, u < v
            PROVE  f + (u - n - 1) < f + (v - n - 1)
        <5> HIDE DEF OrderInv, DInv, IInv
        <5> QED  BY <4>4
      <4> QED  BY <4>2, <4>3, <4>4, Zenon
    <3> QED  BY <3>1, <3>3, <3>4, <3>5
  <2> QED  BY <2>1, <2>2
<1> QED  BY <1>3, <1>5, <1>8, <1>9, <1>10, <1>11, <1>12 DEF OrderInv

LEMMA OrderStep == OrderInv /\ [Next]_vars => OrderInv'
<1> SUFFICES ASSUME OrderInv, [Next]_vars PROVE OrderInv'
  OBVIOUS
<1>1. DInv' /\ TypeOK /\ Ledger
  BY DeliveryStep DEF OrderInv, DInv, IInv
<1>2. ASSUME NEW c \in Callers, PushBack(c) PROVE OrderInv'
  <2>1. Taken' = Taken
    <3>1. Len(buffer') = Len(buffer) + 1 /\ Len(buffer) \in Nat /\ accepted \in Nat
      BY <1>1, <1>2 DEF PushBack, UnsafePushBack, TypeOK
    <3> QED  BY <1>2, <3>1 DEF PushBack, Taken
  <2> QED  BY <1>1, <1>2, <2>1, OrderFrame DEF PushBack, TypeOK, Actors, JobRests
<1>3. ASSUME NEW c \in Callers, TakeAt(c) PROVE OrderInv'
  BY <1>1, <1>3, OrderTake DEF TakeAt, Actors
<1>4. ASSUME NEW c \in Callers, BelowThreshold(c) PROVE OrderInv'
  BY <1>1, <1>4, OrderFrame DEF BelowThreshold, Taken, TypeOK, Actors, JobRests
<1>5. ASSUME NEW a \in Actors, NEW j \in Jobs, SpawnStoreData(a, j) PROVE OrderInv'
  BY <1>1, <1>5, OrderSpawn
<1>6. ASSUME NEW j \in Jobs, StoreAccepts(j) PROVE OrderInv'
  BY <1>1, <1>6, OrderServe
<1>7. ASSUME NEW j \in Jobs, StartJob(j) \/ StoreFails(j) \/ AllStoresServed(j) PROVE OrderInv'
  <2>1. PICK st \in {"running", "failed", "done"} :
            /\ job' = [job EXCEPT ![j].st = st]
            /\ st = "running" => job[j].st = "queued"
            /\ job[j].st # "free"
    BY <1>7 DEF StartJob, StoreFails, AllStoresServed
  <2>2. JobTaken(j)
    BY DEF OrderInv
  <2>3. \A k \in Jobs : JobRests(k)
    <3>1. job \in [Jobs -> JobType]
      BY <1>1 DEF TypeOK
    <3>2. /\ \A k \in Jobs : k # j => job'[k] = job[k]
          /\ job'[j].data = job[j].data /\ job'[j].by = job[j].by
          /\ job'[j].inline = job[j].inline /\ job'[j].i = job[j].i /\ job'[j].st = st
      BY <2>1, <3>1 DEF JobType
    <3>3. st = "running" => ~job[j].inline
      BY <2>1, <2>2 DEF JobTaken
    <3>4. st # "queued" /\ job[j].st # "free"
      BY <2>1
    <3> QED  BY <3>2, <3>3, <3>4 DEF JobRests, SameJob
  <2>4. UNCHANGED <<hand, stored, takenBy, buffer, accepted, pc>>
    BY <1>7 DEF StartJob, StoreFails, AllStoresServed
  <2> QED  BY <1>1, <2>3, <2>4, OrderFrame DEF Taken
<1>8. ASSUME NEW j \in Jobs, ResultHandler(j) PROVE OrderInv'
  <2>1. \A k \in Jobs : JobRests(k)
    BY <1>1, <1>8 DEF ResultHandler, TypeOK, JobRests
  <2> QED  BY <1>1, <1>8, <2>1, OrderFrame DEF ResultHandler, Taken
<1>9. ASSUME TimerTakes PROVE OrderInv'
  BY <1>1, <1>9, OrderTake DEF TimerTakes, Actors
<1>10. ASSUME TimerCheck \/ Tick \/ TickFails \/ TimerFindsSchedulerGone PROVE OrderInv'
  BY <1>1, <1>10, OrderFrame
     DEF TimerCheck, Tick, TickFails, TimerFindsSchedulerGone, Taken, TypeOK, Actors, JobRests
<1>11. ASSUME AddStore \/ Stop \/ Expire \/ UNCHANGED vars PROVE OrderInv'
  BY <1>1, <1>11, OrderFrame DEF AddStore, Stop, Expire, vars, Taken, JobRests
<1> QED
  BY <1>2, <1>3, <1>4, <1>5, <1>6, <1>7, <1>8, <1>9, <1>10, <1>11 DEF Next, TimerStep, RunJob

(* What one thread of the pool takes is stored in the order in which it came,
   for any number of takers, stores, StoreCoroutines and batches, whatever fails. *)
THEOREM InOrderPerTakerAlways == Spec => []InOrderPerTaker
<1>1. OrderInv => InOrderPerTaker
  BY DEF OrderInv
<1> QED  BY <1>1, OrderInit, OrderStep, PTL DEF Spec

-----------------------------------------------------------------------------
(***************************************************************************)
(* What an orderly shutdown loses.  Stop flushes nothing and drops what    *)
(* the pool has queued; yet a thread that is inside a StoreCoroutine, or   *)
(* that has taken batches, is waited for.                                  *)
(***************************************************************************)
AtRest ==
    /\ \A c \in Callers : pc[c] = "idle"
    /\ pc[Timer] # "holding"
    /\ \A j \in Jobs : ~InlineRun(j)

RestInv == OrderInv /\ (expired => AtRest)

(* With the scheduler gone nobody takes, spawns or starts anything. *)
LEMMA RestStep ==
    ASSUME OrderInv, AtRest, expired, [Next]_vars
    PROVE  AtRest' /\ expired'
<1>1. TypeOK
  BY DEF OrderInv, DInv, IInv
<1>2. ASSUME NEW c \in Callers, PushBack(c) \/ TakeAt(c) \/ BelowThreshold(c) PROVE FALSE
  BY <1>2 DEF AtRest, PushBack, TakeAt, BelowThreshold
<1>3. ASSUME NEW a \in Actors, NEW j \in Jobs, SpawnStoreData(a, j) PROVE FALSE
  BY <1>3 DEF AtRest, SpawnStoreData, Actors
<1>4. ASSUME NEW j \in Jobs, StartJob(j) \/ ResultHandler(j) PROVE FALSE
  BY <1>4 DEF StartJob, ResultHandler, Down
<1>5. ASSUME NEW j \in Jobs, RunJob(j) PROVE AtRest' /\ expired'
  <2>1. UNCHANGED <<pc, expired>>
    BY <1>5 DEF RunJob, StoreAccepts, StoreFails, AllStoresServed
  <2>2. /\ job[j].st = "running" /\ job'[j].inline = job[j].inline
        /\ \A k \in Jobs : k # j => job'[k] = job[k]
    <3>1. job \in [Jobs -> JobType]
      BY <1>1 DEF TypeOK
    <3>2. CASE StoreAccepts(j)
      BY <3>1, <3>2 DEF StoreAccepts, JobType
    <3>3. CASE StoreFails(j)
      BY <3>1, <3>3 DEF StoreFails, JobType
    <3>4. CASE AllStoresServed(j)
      BY <3>1, <3>4 DEF AllStoresServed, JobType
    <3> QED  BY <1>5, <3>2, <3>3, <3>4 DEF RunJob
  <2> QED  BY <2>1, <2>2 DEF AtRest, InlineRun
<1>6. CASE TimerStep
  <2>1. UNCHANGED <<job, expired>> /\ pc'[Timer] # "holding" /\ \A c \in Callers : pc'[c] = pc[c]
    BY <1>1, <1>6, DatabaseManagerAssumption DEF TimerStep, TimerCheck, Tick, TickFails, TimerTakes,
       TimerFindsSchedulerGone, Down, TypeOK, Actors
  <2> QED  BY <2>1 DEF AtRest, InlineRun
<1>7. CASE AddStore \/ Stop \/ Expire \/ UNCHANGED vars
  BY <1>7 DEF AddStore, Stop, Expire, vars, AtRest, InlineRun
<1> QED  BY <1>2, <1>3, <1>4, <1>5, <1>6, <1>7 DEF Next

LEMMA RestInvStep == RestInv /\ [Next]_vars => RestInv'
<1> SUFFICES ASSUME RestInv, [Next]_vars PROVE RestInv'
  OBVIOUS
<1>1. OrderInv /\ TypeOK /\ OrderInv'
  BY OrderStep DEF RestInv, OrderInv, DInv, IInv
<1>2. expired' => AtRest'
  <2>1. CASE expired
    BY <1>1, <2>1, RestStep DEF RestInv
  <2>2. CASE Expire
    <3>1. \A j \in Jobs : ~InlineRun(j)
      BY <1>1, <2>2 DEF Expire, InlineRun, InCall, TypeOK, JobType, Actors
    <3> QED  BY <2>2, <3>1 DEF Expire, AtRest, InlineRun
  <2>3. CASE ~expired /\ ~Expire
    <3>1. ~expired'
      BY <2>3 DEF Next, vars, RunJob, PushBack, TakeAt, BelowThreshold, SpawnStoreData, StartJob,
         StoreAccepts, StoreFails, AllStoresServed, ResultHandler, TimerStep, TimerCheck, Tick,
         TickFails, TimerTakes, TimerFindsSchedulerGone, AddStore, Stop
    <3> QED  BY <3>1
  <2> QED  BY <2>1, <2>2, <2>3
<1> QED  BY <1>1, <1>2 DEF RestInv

LEMMA RestInvInit == Init => RestInv
BY OrderInit DEF Init, RestInv

LEMMA RestLoss == RestInv => ShutdownLoss
<1> SUFFICES ASSUME RestInv, expired PROVE ShutdownLoss
  BY DEF ShutdownLoss
<1>1. AtRest /\ OrderInv /\ DInv /\ TypeOK /\ Ledger /\ NothingLost /\ BufferBound
  BY DEF RestInv, OrderInv, DInv, IInv
<1>2. Len(buffer) < NEvents
  BY <1>1 DEF AtRest, BufferBound
<1>3. \A a \in Actors : Range(hand[a]) = {}
  BY <1>1, EmptyRange DEF AtRest, Ledger, Actors
<1>4. ASSUME NEW j \in Jobs, NEW b \in Range(job[j].data), OnPool(job[j].by)
      PROVE  job[j].st = "failed" \/ InEveryStore(b)
  <2>1. job[j].st # "free"
    BY <1>1, <1>4, EmptyRange DEF Ledger
  <2>2. job[j].inline /\ job[j].st # "queued"
    BY <1>1, <1>4, <2>1 DEF OrderInv, JobTaken
  <2>3. job[j].st \in {"done", "failed"}
    BY <1>1, <2>1, <2>2 DEF AtRest, InlineRun, TypeOK, JobType, JobState
  <2> QED  BY <1>1, <2>3, DoneIsInStores
<1>5. ASSUME NEW b \in (1..accepted) \ ended
      PROVE  \/ InBuffer(b) \/ InEveryStore(b)
             \/ \E j \in Jobs : InJob(b, j) /\ (job[j].st = "failed" \/ ~OnPool(job[j].by))
  <2>1. CASE \E j \in Jobs : InJob(b, j)
    BY <1>4, <2>1 DEF InJob
  <2> QED  BY <1>1, <1>3, <2>1 DEF NothingLost, InHand
<1> QED  BY <1>2, <1>5 DEF ShutdownLoss

(* An orderly shutdown loses the buffer, which holds less than n_events batches,
   the batches of a failed write and what callers outside the pool have queued. *)
THEOREM ShutdownLossAlways == Spec => []ShutdownLoss
BY RestInvInit, RestInvStep, RestLoss, PTL DEF Spec

-----------------------------------------------------------------------------
(***************************************************************************)
(* The event loop of main.cpp, the one caller there is, runs on the pool,  *)
(* so that it queues nothing.  When no store fails, only the buffer is     *)
(* lost then.                                                              *)
(***************************************************************************)
NoStoreFails == \A j \in Jobs : ~StoreFails(j)

AllWritten ==
    /\ \A j \in Jobs : job[j].st # "failed"
    /\ \A b \in ended : InEveryStore(b)

(* What is in a store stays in it. *)
LEMMA StoresKeep ==
    ASSUME DInv, [Next]_vars, NEW b \in 1..accepted, InEveryStore(b)
    PROVE  InEveryStore(b)'
<1> USE DEF DInv, IInv
<1>1. storesAt'[b] = storesAt[b]
  <2>1. CASE \E c \in Callers : PushBack(c)
    BY <2>1 DEF PushBack, TypeOK
  <2>2. CASE UNCHANGED storesAt
    BY <2>2
  <2> QED
    BY <2>1, <2>2 DEF Next, vars, TakeAt, BelowThreshold, SpawnStoreData, StartJob, RunJob,
       StoreAccepts, StoreFails, AllStoresServed, ResultHandler, TimerStep, TimerCheck, Tick,
       TickFails, TimerTakes, TimerFindsSchedulerGone, AddStore, Stop, Expire
<1>2. \A s \in Stores : Range(stored[s]) \subseteq Range(stored'[s])
  <2>1. ASSUME NEW j \in Jobs, StoreAccepts(j), NEW s \in Stores
        PROVE  Range(stored[s]) \subseteq Range(stored'[s])
    <3>1. stored[s] \in Seq(Batches) /\ job[j].data \in Seq(Batches)
      BY DEF TypeOK, JobType
    <3>2. stored'[s] = stored[s] \/ stored'[s] = stored[s] \o job[j].data
      BY <2>1 DEF StoreAccepts, TypeOK
    <3>3. Range(stored[s]) \subseteq Range(stored[s] \o job[j].data)
      BY <3>1, L!RangeOfConcat, SameRange
    <3> QED  BY <3>2, <3>3
  <2>2. CASE UNCHANGED stored
    BY <2>2
  <2> QED
    BY <2>1, <2>2 DEF Next, vars, PushBack, TakeAt, BelowThreshold, SpawnStoreData, StartJob,
       RunJob, StoreFails, AllStoresServed, ResultHandler, TimerStep, TimerCheck, Tick,
       TickFails, TimerTakes, TimerFindsSchedulerGone, AddStore, Stop, Expire
<1>3. storesAt[b] \in 0..NStores
  BY StoresAtTyped
<1> QED  BY <1>1, <1>2, <1>3, DatabaseManagerAssumption DEF InEveryStore, Stores

LEMMA AllWrittenStep == RestInv /\ AllWritten /\ NoStoreFails /\ [Next]_vars => AllWritten'
<1> SUFFICES ASSUME RestInv, AllWritten, NoStoreFails, [Next]_vars PROVE AllWritten'
  OBVIOUS
<1>1. DInv /\ TypeOK
  BY DEF RestInv, OrderInv, DInv, IInv
<1>2. \A j \in Jobs : job'[j].st # "failed"
  <2>1. ASSUME NEW a \in Actors, NEW j \in Jobs, SpawnStoreData(a, j)
        PROVE  \A k \in Jobs : job'[k].st # "failed"
    BY <1>1, <2>1 DEF AllWritten, SpawnStoreData, NewJob, TypeOK
  <2>2. ASSUME NEW j \in Jobs,
               StartJob(j) \/ StoreAccepts(j) \/ AllStoresServed(j) \/ ResultHandler(j)
        PROVE  \A k \in Jobs : job'[k].st # "failed"
    <3>1. job \in [Jobs -> JobType] /\ \A k \in Jobs : job[k].st # "failed"
      BY <1>1 DEF TypeOK, AllWritten
    <3>2. CASE StartJob(j)
      BY <3>1, <3>2 DEF StartJob, JobType
    <3>3. CASE StoreAccepts(j)
      BY <3>1, <3>3 DEF StoreAccepts, JobType
    <3>4. CASE AllStoresServed(j)
      BY <3>1, <3>4 DEF AllStoresServed, JobType
    <3>5. CASE ResultHandler(j)
      BY <3>1, <3>5 DEF ResultHandler, FreeJob
    <3> QED  BY <2>2, <3>2, <3>3, <3>4, <3>5
  <2>3. CASE UNCHANGED job
    BY <2>3 DEF AllWritten
  <2> QED
    BY <2>1, <2>2, <2>3 DEF Next, vars, NoStoreFails, RunJob, PushBack, TakeAt, BelowThreshold,
       TimerStep, TimerCheck, Tick, TickFails, TimerTakes, TimerFindsSchedulerGone, AddStore,
       Stop, Expire
<1>3. \A b \in ended' : InEveryStore(b)'
  <2>1. ended \subseteq 1..accepted /\ \A j \in Jobs : Range(job[j].data) \subseteq 1..accepted
    <3>1. 1..Taken \subseteq 1..accepted
      BY <1>1, BufferRange DEF Taken, DInv, IInv
    <3> QED  BY <1>1, <3>1, BufferRange DEF DInv, IInv, Ledger
  <2>2. \A b \in ended : InEveryStore(b)'
    BY <1>1, <2>1, StoresKeep DEF AllWritten
  <2>3. ASSUME NEW j \in Jobs, ResultHandler(j), NEW b \in Range(job[j].data)
        PROVE  InEveryStore(b)'
    <3>1. job[j].st = "done"
      BY <2>3 DEF ResultHandler, AllWritten
    <3> QED  BY <1>1, <2>1, <2>3, <3>1, DoneIsInStores, StoresKeep
  <2>4. ended' = ended \/ \E j \in Jobs : ResultHandler(j) /\ ended' = ended \cup Range(job[j].data)
    BY DEF Next, vars, RunJob, PushBack, TakeAt, BelowThreshold, SpawnStoreData, StartJob,
       StoreAccepts, StoreFails, AllStoresServed, ResultHandler, TimerStep, TimerCheck, Tick,
       TickFails, TimerTakes, TimerFindsSchedulerGone, AddStore, Stop, Expire
  <2> QED  BY <2>2, <2>3, <2>4
<1> QED  BY <1>2, <1>3 DEF AllWritten

LEMMA AllWrittenInit == Init => AllWritten
BY DEF Init, FreeJob, AllWritten

(* While no store fails, an orderly shutdown of evget as main.cpp sets it up
   loses less than n_events batches, those that came last: all that was taken
   out of the buffer is in every store. *)
THEOREM ShutdownLosesTheBuffer ==
    ASSUME InPool = Callers
    PROVE  Spec /\ [][NoStoreFails]_vars =>
              [](expired => Len(buffer) < NEvents /\ \A b \in 1..Taken : InEveryStore(b))
<1>1. RestInv /\ AllWritten =>
        (expired => Len(buffer) < NEvents /\ \A b \in 1..Taken : InEveryStore(b))
  <2> SUFFICES ASSUME RestInv, AllWritten, expired, NEW b \in 1..Taken
               PROVE  Len(buffer) < NEvents /\ InEveryStore(b)
    BY RestLoss DEF ShutdownLoss
  <2>1. TypeOK /\ Ledger
    BY DEF RestInv, OrderInv, DInv, IInv
  <2>2. b \in 1..accepted /\ ~InBuffer(b)
    <3>1. /\ Taken \in Nat /\ Len(buffer) \in Nat /\ accepted \in Nat
          /\ accepted = Taken + Len(buffer) /\ Range(buffer) = (Taken + 1)..accepted
      BY <2>1, BufferRange DEF Taken
    <3> QED  BY <3>1 DEF InBuffer
  <2>3. \A j \in Jobs : OnPool(job[j].by) /\ job[j].st # "failed"
    BY <2>1 DEF TypeOK, JobType, OnPool, Actors, AllWritten
  <2>4. ShutdownLoss
    BY RestLoss
  <2> QED  BY <2>2, <2>3, <2>4 DEF ShutdownLoss, AllWritten
<1>2. RestInv /\ AllWritten /\ [NoStoreFails]_vars /\ [Next]_vars => AllWritten'
  <2>1. AllWritten /\ UNCHANGED vars => AllWritten'
    BY DEF AllWritten, InEveryStore, vars
  <2> QED  BY <2>1, AllWrittenStep
<1> QED  BY <1>1, <1>2, RestInvInit, RestInvStep, AllWrittenInit, PTL DEF Spec

-----------------------------------------------------------------------------
(***************************************************************************)
(* How the timer of the write path keeps time, for any period, whatever    *)
(* the delays, callers, stores and coroutines (module StoreAfter).         *)
(***************************************************************************)
(* What is needed of the types: the timer coroutine is where it is. *)
Located == pc \in [Actors -> CallerPC \cup TimerPC] /\ stopped \in BOOLEAN /\ expired \in BOOLEAN

(* What has passed without a tick, and what is left of the period that runs, are
   at least a period. *)
TickInv == unticked + due >= Period

(* What a batch has waited and what is left of the period are a period at
   most, but between a tick and its flush, when the next period runs already
   and the wait is over. *)
WaitInv ==
    ~Down => /\ waited <= Period
             /\ pc[Timer] # "ticked" /\ due > 0 => waited + due <= Period

ClockInv ==
    /\ Located
    /\ timerSet \in BOOLEAN
    /\ due \in -MaxLate..Period
    /\ ~timerSet => due = Period
    /\ unticked \in Nat
    /\ waited \in Nat
    /\ TickInv
    /\ WaitInv

LEMMA InitClockInv == TimedInit => ClockInv
<1> SUFFICES ASSUME TimedInit PROVE ClockInv
  OBVIOUS
<1>1. Located
  BY DEF TimedInit, Init, Located, CallerPC, TimerPC
<1>2. ~timerSet /\ timerSet \in BOOLEAN /\ due = Period /\ unticked = 0 /\ waited = 0
  BY DEF TimedInit
<1> QED
  BY <1>1, <1>2, StoreAfterAssumption DEF ClockInv, TickInv, WaitInv

-----------------------------------------------------------------------------
(* What a step that takes no time does to the timer coroutine: it leaves the
   code after a tick only with an empty buffer, and nothing undoes a stop. *)
Flushes ==
    /\ Located'
    /\ Down => Down'
    /\ pc[Timer] = "ticked" /\ pc'[Timer] # "ticked" => buffer' = <<>> \/ Down'

LEMMA CallersFlush ==
    ASSUME Located, NEW c \in Callers, PushBack(c) \/ TakeAt(c) \/ BelowThreshold(c)
    PROVE  Flushes
BY DatabaseManagerAssumption DEF Located, Flushes, PushBack, TakeAt, BelowThreshold, IntoInner,
                                 Down, Actors, CallerPC

LEMMA JobsFlush ==
    ASSUME Located, NEW j \in Jobs, StartJob(j) \/ RunJob(j) \/ ResultHandler(j)
    PROVE  Flushes
<1>1. CASE StartJob(j) \/ RunJob(j)
  BY <1>1 DEF Located, Flushes, StartJob, RunJob, StoreAccepts, StoreFails, AllStoresServed, Down
<1>2. CASE ResultHandler(j)
  BY <1>2 DEF Located, Flushes, ResultHandler, Down
<1> QED  BY <1>1, <1>2

LEMMA SpawnsFlush ==
    ASSUME Located, NEW a \in Actors, NEW j \in Jobs, SpawnStoreData(a, j)
    PROVE  Flushes
BY DatabaseManagerAssumption DEF Located, Flushes, SpawnStoreData, Down, Actors, CallerPC, TimerPC

LEMMA TimerFlushes ==
    ASSUME Located, TimerTakes \/ TimerFindsSchedulerGone
    PROVE  Flushes
BY DEF Located, Flushes, TimerTakes, IntoInner, TimerFindsSchedulerGone, Down, Actors, TimerPC

LEMMA OthersFlush ==
    ASSUME Located, AddStore \/ Stop \/ Expire
    PROVE  Flushes
BY DEF Located, Flushes, AddStore, Stop, Expire, Down

(* So no such step breaks the invariant. *)
LEMMA UntimedKeepsClock ==
    ASSUME ClockInv, Flushes, OldestBatch, UNCHANGED <<timerSet, due, unticked>>
    PROVE  ClockInv'
<1>1. waited' \in {0, waited} /\ (buffer' = <<>> => waited' = 0)
  BY DEF OldestBatch
<1>2. WaitInv'
  BY <1>1, StoreAfterAssumption DEF ClockInv, WaitInv, Flushes
<1> QED  BY <1>1, <1>2 DEF ClockInv, Flushes, TickInv

-----------------------------------------------------------------------------
LEMMA TimerKeepsClock ==
    ASSUME ClockInv, WaitBegins \/ WaitReturns \/ WaitFails
    PROVE  ClockInv'
<1> USE StoreAfterAssumption, DatabaseManagerAssumption
    DEF ClockInv, Located, TickInv, WaitInv, Down, Reset, Actors, TimerPC
<1>1. CASE WaitBegins
  BY <1>1 DEF WaitBegins, TimerCheck
<1>2. CASE WaitReturns
  BY <1>2 DEF WaitReturns, Tick
<1>3. CASE WaitFails
  BY <1>3 DEF WaitFails, TickFails
<1> QED  BY <1>1, <1>2, <1>3

LEMMA ElapseKeepsClock == ASSUME ClockInv, Elapse PROVE ClockInv'
<1> USE StoreAfterAssumption DEF ClockInv
<1>1. due' \in -MaxLate..Period /\ due' <= due /\ due' >= due - 1
      /\ (~timerSet => due' = due) /\ (timerSet /\ due > 0 => due' = due - 1)
  BY DEF Elapse
<1>2. unticked' \in Nat /\ TickInv'
  BY <1>1 DEF Elapse, UpTo, MaxUnticked, TickInv
<1>3. waited' \in Nat
  BY DEF Elapse, UpTo
<1>4. UNCHANGED <<pc, stopped, expired, timerSet>>
  BY DEF Elapse, vars
<1>5. WaitInv'
  BY <1>1, <1>4 DEF Elapse, UpTo, WaitInv, Down
<1> QED  BY <1>1, <1>2, <1>3, <1>4, <1>5 DEF Located

LEMMA NextClockInv == ClockInv /\ [TimedNext]_timedVars => ClockInv'
<1> SUFFICES ASSUME ClockInv, [TimedNext]_timedVars PROVE ClockInv'
  OBVIOUS
<1>1. ASSUME NEW c \in Callers,
             Untimed(PushBack(c)) \/ Untimed(TakeAt(c)) \/ Untimed(BelowThreshold(c))
      PROVE  ClockInv'
  BY <1>1, CallersFlush, UntimedKeepsClock DEF Untimed, ClockInv
<1>2. ASSUME NEW a \in Actors, NEW j \in Jobs, Untimed(SpawnStoreData(a, j)) PROVE ClockInv'
  BY <1>2, SpawnsFlush, UntimedKeepsClock DEF Untimed, ClockInv
<1>3. ASSUME NEW j \in Jobs,
             Untimed(StartJob(j)) \/ Untimed(RunJob(j)) \/ Untimed(ResultHandler(j))
      PROVE  ClockInv'
  BY <1>3, JobsFlush, UntimedKeepsClock DEF Untimed, ClockInv
<1>4. CASE Untimed(TimerTakes) \/ Untimed(TimerFindsSchedulerGone)
  BY <1>4, TimerFlushes, UntimedKeepsClock DEF Untimed, ClockInv
<1>5. CASE Untimed(AddStore) \/ Untimed(Stop) \/ Untimed(Expire)
  BY <1>5, OthersFlush, UntimedKeepsClock DEF Untimed, ClockInv
<1>6. CASE UNCHANGED timedVars
  BY <1>6 DEF timedVars, clockVars, vars, ClockInv, Located, TickInv, WaitInv, Down
<1> QED
  BY <1>1, <1>2, <1>3, <1>4, <1>5, <1>6, TimerKeepsClock, ElapseKeepsClock DEF TimedNext, TimerRuns

(* However late the coroutine is resumed and however long its writes take, no
   batch waits for more than a period while the timer counts down to its flush. *)
THEOREM WaitsAtMostAPeriodAlways == TimedSpec => []WaitsAtMostAPeriod
<1>1. ClockInv => WaitsAtMostAPeriod
  BY DEF ClockInv, WaitInv, WaitsAtMostAPeriod
<1> QED  BY <1>1, InitClockInv, NextClockInv, PTL DEF TimedSpec

(* The timer has ticked at most once for each period since it was set, whatever
   the delays. *)
THEOREM TicksWithinTimeAlways == TimedSpec => []TicksWithinTime
<1>1. ClockInv => TicksWithinTime
  BY DEF ClockInv, TicksWithinTime
<1> QED  BY <1>1, InitClockInv, NextClockInv, PTL DEF TimedSpec

-----------------------------------------------------------------------------
(***************************************************************************)
(* The clock restricts when the timer coroutine goes on, and nothing else: *)
(* what holds of the write path with a timer that ticks at any moment      *)
(* holds of it with the Interval and its period.                           *)
(***************************************************************************)
LEMMA TimedSteps == [TimedNext]_timedVars => [Next]_vars
<1> SUFFICES ASSUME [TimedNext]_timedVars PROVE [Next]_vars
  OBVIOUS
<1>1. ASSUME NEW c \in Callers,
             Untimed(PushBack(c)) \/ Untimed(TakeAt(c)) \/ Untimed(BelowThreshold(c))
      PROVE  Next
  BY <1>1 DEF Untimed, Next
<1>2. ASSUME NEW a \in Actors, NEW j \in Jobs, Untimed(SpawnStoreData(a, j)) PROVE Next
  BY <1>2 DEF Untimed, Next
<1>3. ASSUME NEW j \in Jobs,
             Untimed(StartJob(j)) \/ Untimed(RunJob(j)) \/ Untimed(ResultHandler(j))
      PROVE  Next
  BY <1>3 DEF Untimed, Next
<1>4. CASE TimerRuns
  BY <1>4 DEF TimerRuns, WaitBegins, WaitReturns, WaitFails, Untimed, Next, TimerStep
<1>5. CASE Untimed(AddStore) \/ Untimed(Stop) \/ Untimed(Expire)
  BY <1>5 DEF Untimed, Next
<1>6. CASE Elapse \/ UNCHANGED timedVars
  BY <1>6 DEF Elapse, timedVars
<1> QED  BY <1>1, <1>2, <1>3, <1>4, <1>5, <1>6 DEF TimedNext

(* The write path with its clock implements the write path without one. *)
THEOREM ClockOnlyRestricts == TimedSpec => Init /\ [][Next]_vars
<1>1. TimedInit => Init
  BY DEF TimedInit
<1> QED  BY <1>1, TimedSteps, PTL DEF TimedSpec

(* So, with any period and however late the timer coroutine is resumed, no
   batch is lost or held twice, what one thread of the pool takes is stored in
   order, a shutdown loses no more than it may, and callers and stores see what
   WriteLog promises. *)
THEOREM WritePathWithClockIsSafe ==
    TimedSpec => /\ [](TypeOK /\ NothingLost /\ OneHolder /\ InOrderPerTaker /\ ShutdownLoss)
                 /\ ImplementsWriteLog
<1>1. RestInv => DInv /\ TypeOK /\ NothingLost /\ OneHolder /\ InOrderPerTaker
  BY DEF RestInv, OrderInv, DInv, IInv
<1> QED
  BY <1>1, ClockOnlyRestricts, RestInvInit, RestInvStep, RestLoss, RefinementInit, RefinementStep, PTL
     DEF ImplementsWriteLog, Log!Spec
=============================================================================
