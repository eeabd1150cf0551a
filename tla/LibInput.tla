------------------------------ MODULE LibInput ------------------------------
(***************************************************************************)
(* LibInput::New and LibInput::GetEvent of evgetlibinput/src/libinput.cpp, *)
(* called again and again by the event loop through NextEvent.             *)
(*                                                                         *)
(* Libinput and the kernel are external.  The file descriptor of the       *)
(* context is readable while the kernel has something that libinput has    *)
(* not read, or when a timer of libinput has expired; a dispatch reads     *)
(* from the kernel and queues libinput events, none for some of what it    *)
(* reads.                                                                  *)
(***************************************************************************)
EXTENDS Naturals, Sequences, SequencesExt

CONSTANTS
    MaxArrivals,   \* how many kernel events there are (a bound)
    Silent         \* those that libinput makes no event of

VARIABLES
    kernel,          \* arrived, and not read by libinput
    arrived,         \* how many kernel events have arrived
    queue,           \* libinput's queue of events
    wait_for_poll,   \* LibInput::wait_for_poll_
    pc,              \* where GetEvent is, or "out" between two calls
    delivered        \* history: what GetEvent has returned

vars == <<kernel, arrived, queue, wait_for_poll, pc, delivered>>

Arrivals == 1..MaxArrivals

(* Assigning the seat queues an event for the device that is there: 0. *)
DeviceAdded == 0

Init ==
    /\ kernel = <<>>
    /\ arrived = 0
    /\ queue = <<DeviceAdded>>
    /\ wait_for_poll = TRUE
    /\ pc = "out"
    /\ delivered = <<>>

Arrive ==
    /\ arrived < MaxArrivals
    /\ arrived' = arrived + 1
    /\ kernel' = Append(kernel, arrived + 1)
    /\ UNCHANGED <<queue, wait_for_poll, pc, delivered>>

(***************************************************************************)
(* GetEvent                                                                *)
(***************************************************************************)
LoopOn == pc' = IF wait_for_poll' THEN "poll" ELSE "get"

Call ==
    /\ pc = "out"
    /\ UNCHANGED wait_for_poll
    /\ LoopOn
    /\ UNCHANGED <<kernel, arrived, queue, delivered>>

Readable == kernel # <<>>

Poll ==
    /\ pc = "poll" /\ Readable
    /\ pc' = "dispatch"
    /\ UNCHANGED <<kernel, arrived, queue, wait_for_poll, delivered>>

(* A timer of libinput makes the descriptor readable. *)
PollTimer ==
    /\ pc = "poll" /\ ~Readable
    /\ pc' = "dispatch"
    /\ UNCHANGED <<kernel, arrived, queue, wait_for_poll, delivered>>

(* poll() fails with anything but EINTR, or libinput_dispatch() does. *)
Fails ==
    /\ pc \in {"poll", "dispatch"}
    /\ pc' = "failed"
    /\ UNCHANGED <<kernel, arrived, queue, wait_for_poll, delivered>>

(* libinput_dispatch() reads at least the first of what there is. *)
Dispatch ==
    /\ pc = "dispatch"
    /\ \E n \in 0..Len(kernel) :
          /\ Readable => n > 0
          /\ queue' = queue \o SelectSeq(SubSeq(kernel, 1, n), LAMBDA e : e \notin Silent)
          /\ kernel' = SubSeq(kernel, n + 1, Len(kernel))
    /\ pc' = "get"
    /\ UNCHANGED <<arrived, wait_for_poll, delivered>>

GetNextAndWaits ==                                  \* mutant: polls for each event
    /\ pc = "get" /\ queue # <<>>
    /\ wait_for_poll' = TRUE
    /\ delivered' = Append(delivered, Head(queue))
    /\ queue' = Tail(queue)
    /\ pc' = "out"
    /\ UNCHANGED <<kernel, arrived>>

GetNext ==
    /\ pc = "get" /\ queue # <<>>
    /\ wait_for_poll' = FALSE
    /\ delivered' = Append(delivered, Head(queue))
    /\ queue' = Tail(queue)
    /\ pc' = "out"
    /\ UNCHANGED <<kernel, arrived>>

GetNullSpins ==                                     \* mutant: polls only once
    /\ pc = "get" /\ queue = <<>>
    /\ UNCHANGED <<kernel, arrived, queue, wait_for_poll, pc, delivered>>

GetNull ==
    /\ pc = "get" /\ queue = <<>>
    /\ wait_for_poll' = TRUE
    /\ LoopOn
    /\ UNCHANGED <<kernel, arrived, queue, delivered>>

GetEventStep == Call \/ Poll \/ Dispatch \/ GetNext \/ GetNull

Next == Arrive \/ GetEventStep \/ PollTimer \/ Fails

(* The event loop calls Next again at once; a poll of a readable descriptor
   returns.  No event has to arrive, no timer of libinput to expire. *)
Spec == Init /\ [][Next]_vars /\ WF_vars(GetEventStep)

-----------------------------------------------------------------------------
(***************************************************************************)
(* Properties.                                                             *)
(***************************************************************************)

(* GetEvent never blocks in poll() while an input event lies in libinput's
   queue: the descriptor says nothing of that queue. *)
NeverAsleepOnInput == pc = "poll" => ToSet(queue) \subseteq {DeviceAdded}
=============================================================================
