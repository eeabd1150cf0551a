--------------------------- MODULE EvgetLibInput ---------------------------
(***************************************************************************)
(* The process with its libinput event source: where Evget's event loop    *)
(* calls Next, LibInput's GetEvent runs, step by step, on the thread of    *)
(* the pool that the loop occupies (NextEvent::Next of next_event.cpp has  *)
(* no suspension point).                                                   *)
(***************************************************************************)
EXTENDS Evget, Sequences

CONSTANTS MaxArrivals, Silent       \* those of LibInput

ASSUME LibInputAssumption == MaxArrivals \in Nat /\ Silent \subseteq 1..MaxArrivals

VARIABLES kernel, arrived, queue, wait_for_poll, pc, delivered

L == INSTANCE LibInput

sourceVars == <<kernel, arrived, queue, wait_for_poll, pc, delivered>>

allVars == <<vars, sourceVars>>

ProcessInit == Init /\ L!Init

(* The context is opened by Backend::Create; what the kernel has before is
   not for it. *)
Arrive == main = "join" /\ L!Arrive /\ UNCHANGED vars

(***************************************************************************)
(* The loop is in GetEvent, and its thread is in the loop.                 *)
(***************************************************************************)
InGetEvent == Runs(Loop) /\ loop = "next"

GetEvent ==
    /\ InGetEvent
    /\ L!Call \/ L!Poll \/ L!Dispatch \/ L!GetNull
    /\ UNCHANGED vars

PollTimer == InGetEvent /\ L!PollTimer /\ UNCHANGED vars

GetEventReturns == LoopNext /\ L!GetNext

GetEventFails == LoopNextFails /\ L!Fails

(* The rest of the process goes on meanwhile. *)
Beside(step) == step /\ UNCHANGED sourceVars

ProcessNext ==
    \/ Arrive
    \/ GetEvent \/ PollTimer \/ GetEventReturns \/ GetEventFails
    \/ Beside(MainStep)
    \/ Beside(LoopStep)
    \/ Beside(LoopHandler)
    \/ Beside(TimerStep)
    \/ \E w \in Writes : Beside(WriteEnds(w)) \/ Beside(WriteHandler(w))
    \/ \E t \in Tasks : Beside(PoolStep(t))

(* Evget's fairness, and a poll of a readable descriptor returns. *)
ProcessFairness ==
    /\ WF_allVars(GetEvent \/ GetEventReturns)
    /\ WF_allVars(Beside(MainStep))
    /\ WF_allVars(Beside(LoopStep))
    /\ WF_allVars(Beside(TimerStep))
    /\ SF_allVars(Beside(LoopHandler))
    /\ \A w \in Writes : WF_allVars(Beside(WriteEnds(w))) /\ SF_allVars(Beside(WriteHandler(w)))
    /\ \A t \in Tasks : SF_allVars(Beside(PoolStep(t)))

ProcessSpec == ProcessInit /\ [][ProcessNext]_allVars /\ ProcessFairness

-----------------------------------------------------------------------------
NeverAsleepOnInput == L!NeverAsleepOnInput

(* Every kernel event that libinput makes an event of is returned to the event
   loop, which comes back for it whatever the rest of the pool does, unless
   the loop has ended or has not been started before the pool was halted. *)
EveryEventReturned ==
    \A e \in L!Arrivals \ Silent :
        (arrived >= e) ~> (e \in L!ToSet(delivered) \/ pc = "failed" \/ Over(Loop)
                           \/ task[Loop] = "posted")
=============================================================================
