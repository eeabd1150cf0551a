------------------------------ MODULE WriteLog ------------------------------
(***************************************************************************)
(* What the write path promises to whoever calls StoreEvent, without       *)
(* buffer, threads, coroutines or timer: batches are accepted one by one;  *)
(* a run of consecutive batches is given to one store after the other; and *)
(* then it is done with, completely or with the end of the scheduler.      *)
(*                                                                         *)
(* DatabaseManager (storage/database_manager.cpp) implements it.           *)
(***************************************************************************)
EXTENDS Naturals, Sequences, Functions

CONSTANT Stores      \* positions a store may have in the list of stores

VARIABLES
    stores,          \* how many stores there are
    stopped,         \* the scheduler has been stopped
    accepted,        \* how many batches StoreEvent has accepted
    storesAt,        \* how many stores there were when a batch came
    stored,          \* what each store holds, in order
    ended            \* the batches that are done with

logVars == <<stores, stopped, accepted, storesAt, stored, ended>>

(* The n batches from the one numbered first. *)
BatchRun(first, n) == [x \in 1..n |-> first + x - 1]

Init ==
    /\ stores \in Nat /\ 1..stores \subseteq Stores
    /\ stopped = FALSE
    /\ accepted = 0
    /\ storesAt = <<>>
    /\ stored = [s \in Stores |-> <<>>]
    /\ ended = {}

Accept ==
    /\ accepted' = accepted + 1
    /\ storesAt' = Append(storesAt, stores)
    /\ UNCHANGED <<stores, stopped, stored, ended>>

AddStore ==
    /\ stores + 1 \in Stores
    /\ stores' = stores + 1
    /\ UNCHANGED <<stopped, accepted, storesAt, stored, ended>>

(* A store gets accepted batches that are not done with, that it does not
   hold and that the store before it does. *)
Deliver(s, batches) ==
    /\ Range(batches) \subseteq (1..accepted) \ (ended \cup Range(stored[s]))
    /\ s > 1 => Range(batches) \subseteq Range(stored[s - 1])
    /\ stored' = [stored EXCEPT ![s] = @ \o batches]
    /\ UNCHANGED <<stores, stopped, accepted, storesAt, ended>>

(* Batches are done with when they are in every store there was when they
   came ... *)
Complete(batches) ==
    /\ ~stopped
    /\ Range(batches) \subseteq (1..accepted) \ ended
    /\ \A b \in Range(batches) : \A s \in 1..storesAt[b] : b \in Range(stored[s])
    /\ ended' = ended \cup Range(batches)
    /\ UNCHANGED <<stores, stopped, accepted, storesAt, stored>>

(* ... or with the end of everything, because a store did not take them. *)
GiveUp(batches) ==
    /\ ~stopped
    /\ Range(batches) \subseteq (1..accepted) \ ended
    /\ \E s \in 1..stores : Range(batches) \cap Range(stored[s]) = {}
    /\ ended' = ended \cup Range(batches)
    /\ stopped' = TRUE
    /\ UNCHANGED <<stores, accepted, storesAt, stored>>

Stop ==
    /\ stopped' = TRUE
    /\ UNCHANGED <<stores, accepted, storesAt, stored, ended>>

Next ==
    \/ Accept
    \/ AddStore
    \/ \E first \in 1..(accepted + 1), n \in 0..accepted :
          LET batches == BatchRun(first, n)
          IN  \/ \E s \in 1..stores : Deliver(s, batches)
              \/ Complete(batches)
              \/ GiveUp(batches)
    \/ Stop

Spec == Init /\ [][Next]_logVars

-----------------------------------------------------------------------------
(* No store is given a batch twice. *)
AtMostOnce ==
    \A s \in Stores : \A x, y \in DOMAIN stored[s] : stored[s][x] = stored[s][y] => x = y

(* A store holds nothing that an earlier store in the list does not hold. *)
EarlierFirst ==
    \A s, t \in Stores : s < t => Range(stored[t]) \subseteq Range(stored[s])

(* While nothing has gone wrong, a batch that is done with is in every store
   there was when it came. *)
DoneIsStored ==
    ~stopped => \A b \in ended : \A s \in 1..storesAt[b] : b \in Range(stored[s])
=============================================================================
