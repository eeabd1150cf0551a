--------------------------- MODULE WriteLogProofs ---------------------------
(***************************************************************************)
(* Proofs of what WriteLog promises, for every set of stores.              *)
(***************************************************************************)
EXTENDS WriteLog, SequenceTheorems, TLAPS

LogTypes ==
    /\ stores \in Nat /\ 1..stores \subseteq Stores
    /\ accepted \in Nat
    /\ storesAt \in Seq(Nat) /\ Len(storesAt) = accepted
    /\ \A b \in 1..accepted : storesAt[b] <= stores
    /\ stored \in [Stores -> Seq(Nat)]
    /\ \A s \in Stores : Range(stored[s]) \subseteq 1..accepted
    /\ ended \subseteq 1..accepted

LogInv == LogTypes /\ AtMostOnce /\ EarlierFirst /\ DoneIsStored

(* What a sequence holds after another is appended to it. *)
LEMMA RangeOfConcat ==
    ASSUME NEW S, NEW a \in Seq(S), NEW b \in Seq(S)
    PROVE  Range(a \o b) = Range(a) \cup Range(b)
<1>1. /\ DOMAIN a = 1..Len(a) /\ DOMAIN b = 1..Len(b)
      /\ DOMAIN (a \o b) = 1..(Len(a) + Len(b))
      /\ Len(a) \in Nat /\ Len(b) \in Nat
  OBVIOUS
<1>2. \A x \in 1..(Len(a) + Len(b)) :
        (a \o b)[x] = IF x <= Len(a) THEN a[x] ELSE b[x - Len(a)]
  OBVIOUS
<1>3. Range(a \o b) \subseteq Range(a) \cup Range(b)
  <2>1. SUFFICES ASSUME NEW x \in 1..(Len(a) + Len(b))
        PROVE  (a \o b)[x] \in Range(a) \cup Range(b)
    BY <1>1 DEF Range
  <2>2. CASE x <= Len(a)
    BY <1>1, <1>2, <2>2 DEF Range
  <2>3. CASE ~(x <= Len(a))
    <3>1. x - Len(a) \in 1..Len(b)
      BY <1>1, <2>3
    <3> QED
      BY <1>1, <1>2, <2>3, <3>1 DEF Range
  <2> QED
    BY <2>2, <2>3
<1>4. Range(a) \subseteq Range(a \o b)
  <2>1. SUFFICES ASSUME NEW x \in 1..Len(a) PROVE a[x] \in Range(a \o b)
    BY <1>1 DEF Range
  <2>2. x \in 1..(Len(a) + Len(b)) /\ (a \o b)[x] = a[x]
    BY <1>1, <1>2
  <2> QED
    BY <1>1, <2>2 DEF Range
<1>5. Range(b) \subseteq Range(a \o b)
  <2>1. SUFFICES ASSUME NEW x \in 1..Len(b) PROVE b[x] \in Range(a \o b)
    BY <1>1 DEF Range
  <2>2. x + Len(a) \in 1..(Len(a) + Len(b)) /\ (a \o b)[x + Len(a)] = b[x]
    BY <1>1, <1>2
  <2> QED
    BY <1>1, <2>2 DEF Range
<1> QED
  BY <1>3, <1>4, <1>5

(* Two sequences without repetitions and without a common member make one
   without repetitions. *)
LEMMA DistinctConcat ==
    ASSUME NEW S, NEW a \in Seq(S), NEW b \in Seq(S),
           \A x, y \in DOMAIN a : a[x] = a[y] => x = y,
           \A x, y \in DOMAIN b : b[x] = b[y] => x = y,
           Range(a) \cap Range(b) = {}
    PROVE  \A x, y \in DOMAIN (a \o b) : (a \o b)[x] = (a \o b)[y] => x = y
<1>1. /\ DOMAIN a = 1..Len(a) /\ DOMAIN b = 1..Len(b)
      /\ DOMAIN (a \o b) = 1..(Len(a) + Len(b))
      /\ Len(a) \in Nat /\ Len(b) \in Nat
  OBVIOUS
<1>2. \A x \in 1..(Len(a) + Len(b)) :
        (a \o b)[x] = IF x <= Len(a) THEN a[x] ELSE b[x - Len(a)]
  OBVIOUS
<1>3. \A x \in 1..Len(a), y \in 1..Len(b) : a[x] # b[y]
  BY <1>1 DEF Range
<1> SUFFICES ASSUME NEW x \in 1..(Len(a) + Len(b)), NEW y \in 1..(Len(a) + Len(b)),
                    (a \o b)[x] = (a \o b)[y]
             PROVE  x = y
  BY <1>1
<1>4. CASE x <= Len(a) /\ y <= Len(a)
  BY <1>1, <1>2, <1>4
<1>5. CASE ~(x <= Len(a)) /\ ~(y <= Len(a))
  <2>1. x - Len(a) \in 1..Len(b) /\ y - Len(a) \in 1..Len(b)
    BY <1>1, <1>5
  <2>2. b[x - Len(a)] = b[y - Len(a)]
    BY <1>2, <1>5
  <2>3. x - Len(a) = y - Len(a)
    BY <1>1, <2>1, <2>2
  <2> QED
    BY <1>1, <2>3
<1>6. CASE x <= Len(a) /\ ~(y <= Len(a))
  <2>1. y - Len(a) \in 1..Len(b) /\ x \in 1..Len(a)
    BY <1>1, <1>6
  <2> QED
    BY <1>2, <1>3, <1>6, <2>1
<1>7. CASE ~(x <= Len(a)) /\ y <= Len(a)
  <2>1. x - Len(a) \in 1..Len(b) /\ y \in 1..Len(a)
    BY <1>1, <1>7
  <2> QED
    BY <1>2, <1>3, <1>7, <2>1
<1> QED
  BY <1>4, <1>5, <1>6, <1>7

(* Deliver: the store's batches stay distinct because it had none of them,
   and the earlier stores' because the one before it had all of them. *)
LEMMA DeliverStep ==
    ASSUME Stores \subseteq Nat \ {0}, LogInv,
           NEW first \in 1..(accepted + 1), NEW n \in 0..accepted,
           NEW s \in 1..stores, Deliver(s, BatchRun(first, n))
    PROVE  LogInv'
<1> DEFINE batches == BatchRun(first, n)
<1> USE DEF LogInv, LogTypes
<1>1. /\ batches \in Seq(Nat)
      /\ \A x, y \in DOMAIN batches : batches[x] = batches[y] => x = y
  BY DEF BatchRun
<1>2. s \in Stores /\ stored[s] \in Seq(Nat) /\ s \in Nat \ {0}
  OBVIOUS
<1> HIDE DEF batches
<1>3. /\ stored'[s] = stored[s] \o batches
      /\ stored'[s] \in Seq(Nat)
      /\ stored' \in [Stores -> Seq(Nat)]
      /\ \A t \in Stores : t # s => stored'[t] = stored[t]
  <2>1. stored[s] \o batches \in Seq(Nat)
    BY <1>1, <1>2
  <2> QED
    BY <1>2, <2>1 DEF Deliver, batches
<1>4. Range(stored'[s]) = Range(stored[s]) \cup Range(batches)
  BY <1>1, <1>2, <1>3, RangeOfConcat
<1>5. /\ Range(batches) \subseteq (1..accepted) \ (ended \cup Range(stored[s]))
      /\ s > 1 => Range(batches) \subseteq Range(stored[s - 1])
      /\ UNCHANGED <<stores, stopped, accepted, storesAt, ended>>
  BY DEF Deliver, batches
<1>6. \A t \in Stores : Range(stored[t]) \subseteq Range(stored'[t])
  BY <1>3, <1>4
<1>7. LogTypes'
  <2>1. \A t \in Stores : Range(stored'[t]) \subseteq 1..accepted
    BY <1>3, <1>4, <1>5
  <2> QED
    BY <1>3, <1>5, <2>1
<1>8. AtMostOnce'
  <2>1. \A x, y \in DOMAIN stored'[s] : stored'[s][x] = stored'[s][y] => x = y
    <3>1. Range(stored[s]) \cap Range(batches) = {}
      BY <1>5
    <3>2. \A x, y \in DOMAIN stored[s] : stored[s][x] = stored[s][y] => x = y
      BY <1>2 DEF AtMostOnce
    <3>3. \A x, y \in DOMAIN (stored[s] \o batches) :
             (stored[s] \o batches)[x] = (stored[s] \o batches)[y] => x = y
      BY <1>1, <1>2, <3>1, <3>2, DistinctConcat
    <3> QED
      BY <1>3, <3>3
  <2> QED
    BY <1>3, <2>1 DEF AtMostOnce
<1>9. EarlierFirst'
  <2> SUFFICES ASSUME NEW t \in Stores, NEW u \in Stores, t < u
               PROVE  Range(stored'[u]) \subseteq Range(stored'[t])
    BY DEF EarlierFirst
  <2>1. Range(stored[u]) \subseteq Range(stored[t])
    BY DEF EarlierFirst
  <2>2. CASE u # s
    BY <1>3, <1>6, <2>1, <2>2
  <2>3. CASE u = s
    <3>1. s - 1 \in Stores /\ s > 1 /\ t <= s - 1 /\ t \in Nat
      BY <1>2, <2>3
    <3>2. Range(stored[s - 1]) \subseteq Range(stored[t])
      <4>1. CASE t = s - 1
        BY <4>1
      <4>2. CASE t < s - 1
        BY <3>1, <4>2 DEF EarlierFirst
      <4>3. t = s - 1 \/ t < s - 1
        <5> HIDE DEF LogInv, LogTypes
        <5> QED
          BY <1>2, <3>1
      <4> QED
        BY <4>1, <4>2, <4>3
    <3>3. t # s
      BY <1>2, <3>1
    <3> QED
      <4>1. Range(stored'[t]) = Range(stored[t]) /\ u = s
        BY <1>3, <2>3, <3>3, Zenon
      <4>2. Range(batches) \subseteq Range(stored[t])
        BY <1>5, <3>1, <3>2, Zenon
      <4> QED
        BY <1>4, <2>1, <4>1, <4>2, Zenon
  <2> QED
    BY <2>2, <2>3
<1>10. DoneIsStored'
  <2> SUFFICES ASSUME ~stopped, NEW b \in ended, NEW t \in 1..storesAt[b]
               PROVE  b \in Range(stored'[t])
    BY <1>5 DEF DoneIsStored
  <2>1. t \in Stores
    <3>1. b \in 1..accepted /\ storesAt[b] \in Nat /\ storesAt[b] <= stores
      OBVIOUS
    <3>2. t \in 1..stores
      BY <3>1
    <3> QED
      BY <3>2
  <2> QED
    BY <1>6, <2>1 DEF DoneIsStored
<1> QED
  BY <1>7, <1>8, <1>9, <1>10

LEMMA LogInvStep ==
    ASSUME Stores \subseteq Nat \ {0}
    PROVE  LogInv /\ [Next]_logVars => LogInv'
<1> SUFFICES ASSUME LogInv, [Next]_logVars PROVE LogInv'
  OBVIOUS
<1> USE DEF LogInv, LogTypes
<1>1. ASSUME Accept PROVE LogInv'
  <2>1. storesAt' \in Seq(Nat) /\ Len(storesAt') = accepted + 1
    BY <1>1 DEF Accept
  <2>2. \A b \in 1..accepted : storesAt'[b] = storesAt[b]
    BY <1>1 DEF Accept
  <2>3. storesAt'[accepted + 1] = stores
    BY <1>1 DEF Accept
  <2>4. \A b \in 1..accepted' : storesAt'[b] <= stores'
    <3> SUFFICES ASSUME NEW b \in 1..accepted' PROVE storesAt'[b] <= stores'
      OBVIOUS
    <3>1. CASE b = accepted + 1
      BY <1>1, <2>3, <3>1 DEF Accept
    <3>2. CASE b # accepted + 1
      BY <1>1, <2>2, <3>2 DEF Accept
    <3> QED
      BY <3>1, <3>2
  <2>5. LogTypes'
    BY <1>1, <2>1, <2>4 DEF Accept
  <2>6. AtMostOnce' /\ EarlierFirst'
    BY <1>1 DEF Accept, AtMostOnce, EarlierFirst
  <2>7. DoneIsStored'
    BY <1>1, <2>2 DEF Accept, DoneIsStored
  <2> QED
    BY <2>5, <2>6, <2>7
<1>2. ASSUME AddStore PROVE LogInv'
  <2>1. stores' \in Nat /\ 1..stores' \subseteq Stores
    <3>1. stores' = stores + 1 /\ stores + 1 \in Stores
      BY <1>2 DEF AddStore
    <3>2. 1..(stores + 1) = (1..stores) \cup {stores + 1}
      OBVIOUS
    <3> QED
      BY <3>1, <3>2
  <2>2. \A b \in 1..accepted : storesAt[b] <= stores'
    BY <1>2 DEF AddStore
  <2> QED
    BY <1>2, <2>1, <2>2 DEF AddStore, AtMostOnce, EarlierFirst, DoneIsStored
<1>3. ASSUME NEW first \in 1..(accepted + 1), NEW n \in 0..accepted, NEW s \in 1..stores,
             Deliver(s, BatchRun(first, n))
      PROVE  LogInv'
  BY <1>3, DeliverStep
<1>4. ASSUME NEW batches, Complete(batches) \/ GiveUp(batches) PROVE LogInv'
  <2>1. LogTypes' /\ AtMostOnce' /\ EarlierFirst'
    <3>1. /\ UNCHANGED <<stores, accepted, storesAt, stored>>
          /\ ended' \subseteq 1..accepted
      BY <1>4 DEF Complete, GiveUp
    <3> QED
      BY <3>1 DEF AtMostOnce, EarlierFirst
  <2>2. CASE Complete(batches)
    <3>1. ~stopped' => ~stopped
      BY <2>2 DEF Complete
    <3> QED
      BY <2>1, <2>2, <3>1 DEF Complete, DoneIsStored
  <2>3. CASE GiveUp(batches)
    BY <2>1, <2>3 DEF GiveUp, DoneIsStored
  <2> QED
    BY <1>4, <2>2, <2>3
<1>5. ASSUME Stop PROVE LogInv'
  BY <1>5 DEF Stop, AtMostOnce, EarlierFirst, DoneIsStored
<1>6. ASSUME UNCHANGED logVars PROVE LogInv'
  BY <1>6 DEF logVars, AtMostOnce, EarlierFirst, DoneIsStored
<1> QED
  BY <1>1, <1>2, <1>3, <1>4, <1>5, <1>6 DEF Next

LEMMA LogInvInit == Init => LogInv
BY DEF Init, LogInv, LogTypes, AtMostOnce, EarlierFirst, DoneIsStored, Range

(* What follows from the promise, for any list of stores: no store holds a
   batch twice, none is ahead of an earlier one, and a batch that is done with
   is in every store there was when it came. *)
THEOREM LogIsSafe ==
    ASSUME Stores \subseteq Nat \ {0}
    PROVE  Spec => [](AtMostOnce /\ EarlierFirst /\ DoneIsStored)
<1>1. LogInv => AtMostOnce /\ EarlierFirst /\ DoneIsStored
  BY DEF LogInv
<1> QED
  BY <1>1, LogInvInit, LogInvStep, PTL DEF Spec
=============================================================================
