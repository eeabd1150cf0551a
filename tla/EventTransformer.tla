-------------------------- MODULE EventTransformer --------------------------
(***************************************************************************)
(* TransformEvent of evgetlibinput/src/event_transformer.cpp, with the     *)
(* DeviceId, IntervalTracker and XkbCommon it keeps its state in.          *)
(*                                                                         *)
(* A device is a piece of hardware; libinput (external) represents it, as  *)
(* long as it is plugged, by a libinput_device at some address.  The       *)
(* library frees that object when the last event of the device has been    *)
(* destroyed, and may then have another device at the same address.        *)
(* Libinput ends every touch and releases every key of a device before it  *)
(* removes it.                                                             *)
(*                                                                         *)
(* One coordinate stands for x and y, which the code treats alike.  Keys   *)
(* are those that set a modifier while they are held; some lock it too.    *)
(***************************************************************************)
EXTENDS Integers, Sequences, Functions, FiniteSets

CONSTANTS
    Devices,       \* each is plugged and unplugged at most once
    Addresses,     \* of libinput_device objects
    Slots,         \* seat slots of touches
    Modifiers,     \* each stands for the key that sets it
    Locks,         \* modifiers whose key locks them: CapsLock, NumLock
    Capabilities,  \* what each device can do
    MaxPosition,   \* coordinates are 0..MaxPosition (a bound)
    MaxTime,       \* event times are 0..MaxTime (a bound)
    None

ASSUME EventTransformerAssumption ==
    /\ IsFiniteSet(Devices) /\ IsFiniteSet(Addresses)
    /\ Capabilities \in [Devices -> SUBSET {"keyboard", "pointer", "tablet", "touch"}]
    /\ Locks \subseteq Modifiers
    /\ MaxPosition \in Nat /\ MaxTime \in Nat
    /\ None \notin Devices \cup Addresses \cup Slots \cup Int

VARIABLES
    address,           \* libinput: where each device's object is
    plugged,           \* libinput: devices plugged now, or earlier
    touch,             \* libinput: where each touch of a device is
    held,              \* libinput: the keys held down on each device
    device_uuids,      \* DeviceId: address -> UUID
    previous_absolute, \* UUID -> position
    previous_touch,    \* <<UUID, slot>> -> position
    device_intervals,  \* UUID -> IntervalTracker::previous_
    xkb,               \* xkb_state: how often each key is down
    lock,              \* xkb_state: each lock is "off", "on", or "ending" at the release
    session,           \* the same locks in the user's session, which sees the same keys
    startedOn,         \* locks that were on in the session when evget started
    data,              \* what TransformEvent returned last
    latest,            \* history: time of the last entry of each device
    absolute,          \* history: last absolute position of each device
    recordedAs         \* history: the UUIDs in the entries of each device

libinputVars == <<address, plugged, touch, held>>
keyboard == <<xkb, lock, session, startedOn>>
history == <<latest, absolute, recordedAs>>
vars == <<libinputVars, device_uuids, previous_absolute, previous_touch,
          device_intervals, keyboard, data, history>>

Positions == 0..MaxPosition
Times     == 0..MaxTime
UUIDs     == 1..Cardinality(Addresses)
Present   == {d \in Devices : address[d] # None}

Init ==
    /\ address = [d \in Devices |-> None]
    /\ plugged = {}
    /\ touch = [d \in Devices |-> [s \in Slots |-> None]]
    /\ held = [d \in Devices |-> {}]
    /\ device_uuids = << >>
    /\ previous_absolute = << >>
    /\ previous_touch = << >>
    /\ device_intervals = << >>
    /\ xkb = [m \in Modifiers |-> 0]
    /\ lock = [m \in Locks |-> "off"]
    /\ startedOn \in SUBSET Locks
    /\ session = [m \in Locks |-> IF m \in startedOn THEN "on" ELSE "off"]
    /\ data = << >>
    /\ latest = [d \in Devices |-> None]
    /\ absolute = [d \in Devices |-> None]
    /\ recordedAs = [d \in Devices |-> {}]

(***************************************************************************)
(* A map of the code: an entry is set, or erased.                          *)
(***************************************************************************)
Set(map, key, value) == [k \in DOMAIN map \cup {key} |-> IF k = key THEN value ELSE map[k]]

Erase(map, key) == Restrict(map, DOMAIN map \ {key})

Find(map, key) == IF key \in DOMAIN map THEN map[key] ELSE None

(***************************************************************************)
(* DeviceId::Uuid.                                                         *)
(***************************************************************************)
FreshUuid(d) == Cardinality(DOMAIN device_uuids) + 1   \* mutant: no look-up

Uuid(d) ==
    IF address[d] \in DOMAIN device_uuids THEN device_uuids[address[d]]
                                          ELSE Cardinality(DOMAIN device_uuids) + 1

RememberUuid(d) == device_uuids' = Set(device_uuids, address[d], Uuid(d))

(***************************************************************************)
(* IntervalTracker::Interval.                                              *)
(***************************************************************************)
IntervalUnchecked(previous, time) ==                \* mutant: no "time < *previous_"
    IF previous = None THEN None ELSE time - previous

Interval(previous, time) ==
    IF previous = None \/ time < previous THEN None ELSE time - previous

(***************************************************************************)
(* SetBaseFields and SetModifierValues: the fields of every entry.  A      *)
(* second entry of the same event finds the interval already taken.        *)
(***************************************************************************)
ActiveModifiers ==
    {m \in Modifiers : xkb[m] > 0} \cup {m \in Locks : lock[m] # "off"}

Entry(table, d, interval) ==
    [table |-> table, device_id |-> Uuid(d), interval |-> interval,
     position |-> None, action |-> None, touch_id |-> None, modifiers |-> ActiveModifiers]

First(table, d, time) ==
    Entry(table, d, Interval(Find(device_intervals, Uuid(d)), time))

Second(table, d, time) == Entry(table, d, Interval(time, time))

(***************************************************************************)
(* What TransformEvent does with every event of d that has entries.        *)
(***************************************************************************)
Returns(d, time, entries) ==
    /\ d \in Present
    /\ RememberUuid(d)
    /\ data' = entries
    /\ device_intervals' = Set(device_intervals, Uuid(d), time)
    /\ latest' = [latest EXCEPT ![d] = time]
    /\ recordedAs' = [recordedAs EXCEPT ![d] = @ \cup {Uuid(d)}]
    /\ UNCHANGED <<address, plugged>>

(* An event without entries: DEVICE_ADDED, proximity-out, gestures, ... *)
Ignored(d) ==
    /\ d \in Present
    /\ RememberUuid(d)
    /\ data' = << >>
    /\ UNCHANGED <<libinputVars, previous_absolute, previous_touch, device_intervals, keyboard,
                   history>>

(***************************************************************************)
(* POINTER_MOTION, TABLET_TOOL_AXIS and proximity-in: libinput gives the   *)
(* relative move.                                                          *)
(***************************************************************************)
RelativeMove(d, time) ==
    /\ Capabilities[d] \cap {"pointer", "tablet"} # {}
    /\ Returns(d, time, <<First("move", d, time)>>)
    /\ UNCHANGED <<touch, held, previous_absolute, previous_touch, keyboard, absolute>>

(* POINTER_MOTION_ABSOLUTE and SetRelativePosition. *)
MotionAbsolute(d, time, x) ==
    LET previous == Find(previous_absolute, Uuid(d))
        move     == First("absolute", d, time)
    IN  /\ "pointer" \in Capabilities[d]
        /\ Returns(d, time, <<IF previous = None THEN move
                              ELSE [move EXCEPT !.position = x - previous]>>)
        /\ previous_absolute' = Set(previous_absolute, Uuid(d), x)
        /\ absolute' = [absolute EXCEPT ![d] = x]
        /\ UNCHANGED <<touch, held, previous_touch, keyboard>>

(* POINTER_BUTTON, TABLET_TOOL_BUTTON, TABLET_PAD_BUTTON, scrolling and
   TABLET_PAD_KEY: one entry, and no state but the interval. *)
OneEntry(d, time, table, action) ==
    /\ Capabilities[d] \cap {"pointer", "tablet"} # {}
    /\ Returns(d, time, <<[First(table, d, time) EXCEPT !.action = action]>>)
    /\ UNCHANGED <<touch, held, previous_absolute, previous_touch, keyboard, absolute>>

(* TABLET_TOOL_TIP: a move, then a click. *)
TabletToolTip(d, time, action) ==
    /\ "tablet" \in Capabilities[d]
    /\ Returns(d, time, <<First("move", d, time),
                          [Second("click", d, time) EXCEPT !.action = action]>>)
    /\ UNCHANGED <<touch, held, previous_absolute, previous_touch, keyboard, absolute>>

(***************************************************************************)
(* Touches, with SetTouchRelativePosition, BuildTouchRelease and           *)
(* ClearTouchPosition.                                                     *)
(***************************************************************************)
TouchMove(d, time, s, x) ==
    LET previous == Find(previous_touch, <<Uuid(d), s>>)
        move     == [First("move", d, time) EXCEPT !.touch_id = s]
    IN  IF previous = None THEN move ELSE [move EXCEPT !.position = x - previous]

CancelClick(d, time, s, action) ==                  \* mutant: a release is no click
    [Second(IF action = "press" THEN "click" ELSE "move", d, time) EXCEPT
        !.touch_id = s, !.action = action]

TouchClick(d, time, s, action) ==
    [Second("click", d, time) EXCEPT !.touch_id = s, !.action = action]

Touches(d, s, x) ==
    /\ "touch" \in Capabilities[d]
    /\ touch' = [touch EXCEPT ![d][s] = x]
    /\ UNCHANGED <<held, previous_absolute, keyboard, absolute>>

TouchDown(d, time, s, x) ==
    /\ \A e \in Devices : touch[e][s] = None         \* a seat slot is one touch of the seat
    /\ Touches(d, s, x)
    /\ Returns(d, time, <<TouchMove(d, time, s, x), TouchClick(d, time, s, "press")>>)
    /\ previous_touch' = Set(previous_touch, <<Uuid(d), s>>, x)

TouchMotion(d, time, s, x) ==
    /\ touch[d][s] # None
    /\ Touches(d, s, x)
    /\ Returns(d, time, <<TouchMove(d, time, s, x)>>)
    /\ previous_touch' = Set(previous_touch, <<Uuid(d), s>>, x)

ReleaseKeepsPosition(d, time, s) ==                 \* mutant: no ClearTouchPosition
    /\ touch[d][s] # None
    /\ Touches(d, s, None)
    /\ Returns(d, time, <<[First("move", d, time) EXCEPT !.touch_id = s],
                          TouchClick(d, time, s, "release")>>)
    /\ UNCHANGED previous_touch

(* TOUCH_UP and TOUCH_CANCEL. *)
TouchRelease(d, time, s) ==
    /\ touch[d][s] # None
    /\ Touches(d, s, None)
    /\ Returns(d, time, <<[First("move", d, time) EXCEPT !.touch_id = s],
                          TouchClick(d, time, s, "release")>>)
    /\ previous_touch' = Erase(previous_touch, <<Uuid(d), s>>)

(***************************************************************************)
(* KEYBOARD_KEY: the entry is built, then the state of xkb updated.  Xkb   *)
(* counts the presses of a key, for all keyboards together.  The key of a  *)
(* lock locks when it is pressed first, and its next stroke unlocks when   *)
(* it is released.  The session does the same with the same keys, but it   *)
(* may have had the lock on before, and xkb_state_new begins with none.    *)
(***************************************************************************)
Turn(state, down) ==
    CASE down  /\ state = "off"    -> "on"
      [] down  /\ state = "on"     -> "ending"
      [] ~down /\ state = "ending" -> "off"
      [] OTHER                     -> state

(* The first press, or the last release, of m, of which count are down. *)
Turns(m, down, count) == m \in Locks /\ count = (IF down THEN 0 ELSE 1)

Holding(m) == Cardinality({d \in Devices : m \in held[d]})

KeyState(d, m, down) ==
    /\ "keyboard" \in Capabilities[d]
    /\ down = (m \notin held[d])
    /\ held' = [held EXCEPT ![d] = IF down THEN @ \cup {m} ELSE @ \ {m}]
    /\ session' = IF Turns(m, down, Holding(m))
                  THEN [session EXCEPT ![m] = Turn(@, down)] ELSE session
    /\ UNCHANGED startedOn

UpdateLock(m, down) ==
    lock' = IF Turns(m, down, xkb[m]) THEN [lock EXCEPT ![m] = Turn(@, down)] ELSE lock

UpdateAlwaysDown(m, down) ==                        \* mutant: XKB_KEY_DOWN for both
    xkb' = [xkb EXCEPT ![m] = 1] /\ UpdateLock(m, TRUE)

UpdateReversed(m, down) ==                          \* mutant: GetXkbDirection reversed
    xkb' = [xkb EXCEPT ![m] = IF down THEN @ - 1 ELSE @ + 1] /\ UpdateLock(m, ~down)

UpdateKeyState(m, down) ==
    xkb' = [xkb EXCEPT ![m] = IF down THEN @ + 1 ELSE @ - 1] /\ UpdateLock(m, down)

KeyboardKey(d, time, m, down) ==
    /\ KeyState(d, m, down)
    /\ Returns(d, time, <<[First("key", d, time) EXCEPT
                             !.action = IF down THEN "press" ELSE "release"]>>)
    /\ UpdateKeyState(m, down)
    /\ UNCHANGED <<touch, previous_absolute, previous_touch, absolute>>

(***************************************************************************)
(* Libinput.                                                               *)
(***************************************************************************)
Plug(d, a) ==
    /\ d \notin plugged
    /\ \A e \in Devices : address[e] # a
    /\ address' = [address EXCEPT ![d] = a]
    /\ plugged' = plugged \cup {d}
    /\ data' = << >>
    /\ UNCHANGED <<touch, held, device_uuids, previous_absolute, previous_touch,
                   device_intervals, keyboard, history>>

(* DEVICE_REMOVED has been transformed and destroyed. *)
Unplug(d) ==
    /\ d \in Present
    /\ held[d] = {} /\ \A s \in Slots : touch[d][s] = None
    /\ address' = [address EXCEPT ![d] = None]
    /\ RememberUuid(d)
    /\ data' = << >>
    /\ UNCHANGED <<plugged, touch, held, previous_absolute, previous_touch,
                   device_intervals, keyboard, history>>

PointerEvent(d, time) ==
    \/ RelativeMove(d, time)
    \/ \E x \in Positions : MotionAbsolute(d, time, x)
    \/ \E table \in {"click", "scroll", "padKey"} : OneEntry(d, time, table, None)
    \/ \E action \in {"press", "release"} : TabletToolTip(d, time, action)

TouchEvent(d, time) ==
    \E s \in Slots :
        \/ \E x \in Positions : TouchDown(d, time, s, x) \/ TouchMotion(d, time, s, x)
        \/ TouchRelease(d, time, s)

KeyEvent(d, time) == \E m \in Modifiers, down \in BOOLEAN : KeyboardKey(d, time, m, down)

Next ==
    \/ \E d \in Devices, time \in Times :
           PointerEvent(d, time) \/ TouchEvent(d, time) \/ KeyEvent(d, time)
    \/ \E d \in Devices : Ignored(d) \/ Unplug(d)
    \/ \E d \in Devices, a \in Addresses : Plug(d, a)

Spec == Init /\ [][Next]_vars

-----------------------------------------------------------------------------
(***************************************************************************)
(* Properties.                                                             *)
(***************************************************************************)
Maps(map, keys, values) == DOMAIN map \subseteq keys /\ \A k \in DOMAIN map : map[k] \in values

(* Every variable has its type, and xkb counts no key below zero. *)
TypeOK ==
    /\ address \in [Devices -> Addresses \cup {None}]
    /\ Present \subseteq plugged /\ plugged \subseteq Devices
    /\ touch \in [Devices -> [Slots -> Positions \cup {None}]]
    /\ held \in [Devices -> SUBSET Modifiers]
    /\ Maps(device_uuids, Addresses, UUIDs)
    /\ Maps(previous_absolute, UUIDs, Positions)
    /\ Maps(previous_touch, UUIDs \X Slots, Positions)
    /\ Maps(device_intervals, UUIDs, Times)
    /\ xkb \in [Modifiers -> 0..Cardinality(Devices)]
    /\ lock \in [Locks -> {"off", "on", "ending"}]

Difference(here, before) == IF None \in {here, before} THEN None ELSE here - before

IsTouchEntry(e) == e.touch_id # None

DeviceOf(e) ==
    CHOOSE d \in Devices : address'[d] \in DOMAIN device_uuids'
                           /\ device_uuids'[address'[d]] = e.device_id

(* The relative moves of a touch, and of a pointer that reports positions, are
   the differences between its positions.  None spans two touches: neither an
   earlier one in the same slot nor one of a device that had the same UUID. *)
MovesAreDifferences ==
    [][\A i \in DOMAIN data' :
         LET e == data'[i]  d == DeviceOf(e)
         IN  /\ IsTouchEntry(e) /\ e.table = "move" =>
                   e.position = Difference(touch'[d][e.touch_id], touch[d][e.touch_id])
             /\ e.table = "absolute" /\ absolute[d] # None =>
                   e.position = Difference(absolute'[d], absolute[d])]_vars

(* A touch that begins is recorded as a press, one that ends, even by a cancel
   or with its device, as a release, and nothing else is. *)
TouchesAreClicked ==
    [][\A d \in Devices, s \in Slots :
         LET clicked(action) ==
                \E i \in DOMAIN data' : /\ data'[i].table = "click" /\ data'[i].touch_id = s
                                        /\ data'[i].action = action /\ DeviceOf(data'[i]) = d
         IN  /\ clicked("press")   = (touch[d][s] = None /\ touch'[d][s] # None)
             /\ clicked("release") = (touch[d][s] # None /\ touch'[d][s] = None)]_vars

(* Every entry, of whatever device, has the modifiers that are held on some
   keyboard before its event (a key does not modify itself), and the locks the
   session has turned since evget started.  A lock that was on before is
   therefore recorded the wrong way round, at every moment its key is up. *)
ModifiersAsInSession ==
    [][LET turned == {m \in Locks : (session[m] = "on") # (m \in startedOn)}
       IN  \A i \in DOMAIN data' :
             data'[i].modifiers = turned \cup UNION {held[d] : d \in Devices}]_vars

(* The intervals of one event's entries add up to the time since the last
   event of the device, and none is negative, when libinput's times go back
   too (a timer of libinput fires late). *)
IntervalsAddUp ==
    [][\A i \in DOMAIN data' :
         LET e == data'[i]  d == DeviceOf(e)
         IN  /\ e.interval # None => e.interval >= 0
             /\ i > 1 => e.interval = 0
             /\ i = 1 /\ latest[d] # None /\ latest'[d] >= latest[d]
                    => e.interval = latest'[d] - latest[d]]_vars

(* A device keeps its UUID from its first entry to its last, and devices that
   are plugged at the same time have different ones. *)
DeviceIdentities ==
    /\ \A d \in Devices : Cardinality(recordedAs[d]) <= 1
    /\ \A d, e \in Present : d # e => recordedAs[d] \cap recordedAs[e] = {}
=============================================================================
