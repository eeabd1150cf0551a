------------------------- MODULE XEventTransformer -------------------------
(***************************************************************************)
(* The X11 backend: EventTransformer, EventSwitch, EventSwitchPointerKey   *)
(* and EventSwitchTouch of evgetx11, fed by InputHandler.                  *)
(*                                                                         *)
(* The X server is external.  It sends raw events, which carry the id of   *)
(* the source device, and XI_DeviceChanged when another device of a master *)
(* is used; what happens between sending and reading them, evget cannot    *)
(* see.  An id may be used again for another device.  The transformer      *)
(* keeps what it was told about an id when it refreshed its devices, in    *)
(* two requests, of which it keeps the first type and name of an id.       *)
(*                                                                         *)
(* Left out: the windows, events without XI2 data, which give no entries,  *)
(* and the intervals and UUIDs, which are kept as in module                *)
(* EventTransformer, by id.                                                *)
(***************************************************************************)
EXTENDS Integers, Sequences, FiniteSets, SequencesExt

CONSTANTS
    Ids,           \* XI2 device ids, numbers
    Devices,       \* each is plugged and unplugged at most once
    Mice,          \* devices with a button, a wheel and the valuators for them
    Keyboards,
    Touchscreens,
    MaxQueue,      \* X events on their way, at most (a bound)
    MaxTouches,    \* touches, at most (a bound)
    Amount,        \* value of the first valuator of a motion
    None

ASSUME XEventTransformerAssumption ==
    /\ Ids \subseteq Nat
    /\ Devices = Mice \cup Keyboards \cup Touchscreens
    /\ MaxQueue \in Nat /\ MaxTouches \in Nat /\ Amount \in Int
    /\ None \notin Devices \cup {"mouse", "keyboard", "touchscreen"}

VARIABLES
    server,        \* X server: which device has each id
    plugged,       \* X server: devices plugged now, or earlier
    touching,      \* X server: the device of each touch that goes on
    touches,       \* X server: how many touches there were
    selected,      \* X server: whether the client has selected events
    queue,         \* X server: sent, and not yet read by XNextEvent
    pc,            \* where the transformer is
    listed,        \* what XListInputDevices returned
    devices,       \* EventTransformer::devices_: id -> type
    id_to_name,    \* EventSwitch::id_to_name_: id -> name
    button_map,    \* EventSwitch::button_map_: ids with labelled buttons
    scroll_map,    \* EventSwitchPointerKey::scroll_map_: ids with a wheel
    valuator_x,    \* EventSwitchPointerKey::valuator_x_
    data,          \* what TransformEvent returned last
    event,         \* the event it returned that for
    recorded       \* history: touches recorded as begun, and not as ended

serverVars == <<server, plugged, touching, touches, selected>>
cacheVars  == <<devices, id_to_name, button_map, scroll_map, valuator_x>>
vars == <<serverVars, queue, pc, listed, cacheVars, data, event, recorded>>

Type(d) == IF d \in Mice THEN "mouse" ELSE IF d \in Keyboards THEN "keyboard" ELSE "touchscreen"

IdsOf(d) == {i \in Ids : server[i] = d}
Touches  == 1..MaxTouches
NoDevices == [i \in Ids |-> None]

Button  == 1
WheelUp == 4     \* button
X       == 0     \* valuator
Wheel   == 2     \* valuator, of scroll type vertical

NoEvent == [type |-> "None", source |-> 0, detail |-> 0, flags |-> {}, values |-> << >>]

(* Backend::Create: the transformer is constructed, which refreshes its devices,
   and only then are the events selected. *)
Init ==
    /\ server \in [Ids -> Devices \cup {None}]
    /\ \A d \in Devices : \A i, j \in IdsOf(d) : i = j
    /\ plugged = {server[i] : i \in Ids} \ {None}
    /\ touching = [t \in Touches |-> None]
    /\ touches = 0
    /\ selected = FALSE
    /\ queue = << >>
    /\ pc = "list"
    /\ listed = NoDevices
    /\ devices = NoDevices
    /\ id_to_name = NoDevices
    /\ button_map = {} /\ scroll_map = {} /\ valuator_x = {}
    /\ data = << >>
    /\ event = NoEvent
    /\ recorded = {}

(***************************************************************************)
(* The X server.  What it sends before events are selected is not for this *)
(* client.  A touch, and a turn of the wheel, are sent a second time as    *)
(* what they would be on a mouse, flagged as emulated.                     *)
(***************************************************************************)
Raw(type, id, detail) == [NoEvent EXCEPT !.type = type, !.source = id, !.detail = detail]

Emulated(e) == [e EXCEPT !.flags = {"PointerEmulated"}]

Motion(id, mask) ==
    [Raw("RawMotion", id, 0) EXCEPT !.values = [v \in mask |-> IF v = X THEN Amount ELSE 2 * Amount]]

DeviceChanged == [NoEvent EXCEPT !.type = "DeviceChanged"]

Send(events) ==
    /\ queue' \in IF selected THEN {queue \o events, queue \o <<DeviceChanged>> \o events}
                              ELSE {queue}
    /\ Len(queue') <= MaxQueue
    /\ UNCHANGED <<pc, listed, cacheVars, data, event, recorded>>

UseMouse(d, id) ==
    /\ d \in Mice
    /\ \/ Send(<<Motion(id, {X})>>)
       \/ Send(<<Motion(id, {Wheel}), Emulated(Raw("RawButtonPress", id, WheelUp))>>)
       \/ Send(<<Raw("RawButtonPress", id, Button)>>)
       \/ Send(<<Raw("RawButtonRelease", id, Button)>>)
    /\ UNCHANGED serverVars

UseKeyboard(d, id) ==
    /\ d \in Keyboards
    /\ \/ Send(<<Raw("RawKeyPress", id, 0)>>)
       \/ Send(<<[Raw("RawKeyPress", id, 0) EXCEPT !.flags = {"KeyRepeat"}]>>)
       \/ Send(<<Raw("RawKeyRelease", id, 0)>>)
    /\ UNCHANGED serverVars

BeginTouch(d, id) ==
    /\ d \in Touchscreens /\ touches < MaxTouches
    /\ touches' = touches + 1
    /\ touching' = [touching EXCEPT ![touches'] = d]
    /\ Send(<<Raw("RawTouchBegin", id, touches'), Emulated(Raw("RawButtonPress", id, Button))>>)
    /\ UNCHANGED <<server, plugged, selected>>

UpdateTouch(d, id, t) ==
    /\ touching[t] = d
    /\ Send(<<Raw("RawTouchUpdate", id, t), Emulated(Motion(id, {X}))>>)
    /\ UNCHANGED serverVars

EndTouch(d, id, t) ==
    /\ touching[t] = d
    /\ touching' = [touching EXCEPT ![t] = None]
    /\ Send(<<Raw("RawTouchEnd", id, t), Emulated(Raw("RawButtonRelease", id, Button))>>)
    /\ UNCHANGED <<server, plugged, touches, selected>>

Plug(d, id) ==
    /\ d \notin plugged /\ server[id] = None
    /\ server' = [server EXCEPT ![id] = d]
    /\ plugged' = plugged \cup {d}
    /\ UNCHANGED <<touching, touches, selected, queue, pc, listed, cacheVars, data, event, recorded>>

(* A device is removed when its touches have ended.  XI_HierarchyChanged is
   not among the events that InputHandlerBuilder::SetMask selects. *)
Unplug(d, id) ==
    /\ \A t \in Touches : touching[t] # d
    /\ server' = [server EXCEPT ![id] = None]
    /\ UNCHANGED <<plugged, touching, touches, selected, queue, pc, listed, cacheVars, data, event,
                   recorded>>

ServerStep ==
    \/ \E d \in Devices : \E id \in IdsOf(d) :
          \/ UseMouse(d, id) \/ UseKeyboard(d, id) \/ BeginTouch(d, id) \/ Unplug(d, id)
          \/ \E t \in Touches : UpdateTouch(d, id, t) \/ EndTouch(d, id, t)
    \/ \E d \in Devices, id \in Ids : Plug(d, id)

(***************************************************************************)
(* RefreshDevices.  The classes come from the second request; a device     *)
(* that is in the first answer and not in the second is an exception, and  *)
(* the devices before it in the list (here: with lower ids) have been      *)
(* refreshed by then.  A pointer whose button mapping the server does not  *)
(* tell, or whose buttons have no labels, gets no names of buttons.        *)
(***************************************************************************)
ListInputDevices ==
    /\ pc = "list"
    /\ listed' = server
    /\ pc' = "query"
    /\ UNCHANGED <<serverVars, queue, cacheVars, data, event, recorded>>

Found == {i \in Ids : listed[i] # None}

Missing == {i \in Found : server[i] = None}

Refreshed == {i \in Found : \A j \in Missing : i < j}

EmplaceAnew(map, values) ==                         \* mutant: starts from empty maps
    [i \in Ids |-> IF i \in Refreshed THEN values[i] ELSE None]

Emplace(map, values) ==
    [i \in Ids |-> IF i \in Refreshed /\ map[i] = None THEN values[i] ELSE map[i]]

RefreshedTypes == Emplace(devices, [i \in Ids |-> Type(listed[i])])

NamesLost == id_to_name                             \* mutant: EventSwitch is not refreshed

NamesAssigned ==                                    \* mutant: insert_or_assign
    [i \in Ids |-> IF i \in Refreshed THEN listed[i] ELSE id_to_name[i]]

RefreshedNames == Emplace(id_to_name, listed)

HasPointer(i) == server[i] \in Mice \cup Touchscreens

RefreshDevices ==
    /\ pc = "query"
    /\ devices' = RefreshedTypes
    /\ id_to_name' = RefreshedNames
    /\ \E labelled \in SUBSET {i \in Refreshed : HasPointer(i)} :
          button_map' = button_map \cup labelled
    /\ valuator_x' = valuator_x \cup {i \in Refreshed : HasPointer(i)}
    /\ scroll_map' = scroll_map \cup {i \in Refreshed : server[i] \in Mice}
    /\ pc' = IF Missing # {} THEN "threw" ELSE IF selected THEN "next" ELSE "select"
    /\ listed' = NoDevices
    /\ UNCHANGED <<serverVars, queue, data, event, recorded>>

(* InputHandlerBuilder::Build, when the transformer is there. *)
SelectEvents ==
    /\ pc = "select"
    /\ selected' = TRUE
    /\ pc' = "next"
    /\ UNCHANGED <<server, plugged, touching, touches, queue, listed, cacheVars, data, event,
                   recorded>>

(***************************************************************************)
(* What an event is recorded as.  The name of a button is looked up, with  *)
(* an exception if there is none, before the source is.                    *)
(***************************************************************************)
HasDevice(id) == devices[id] # None

GetDevice(e) ==
    IF e.type \in {"RawKeyPress", "RawKeyRelease"} THEN "keyboard" ELSE devices[e.source]

Entry(table, e, action, amount) ==
    [table |-> table, name |-> id_to_name[e.source], device |-> GetDevice(e),
     action |-> action, amount |-> amount, detail |-> e.detail]

ButtonThrows(e) ==
    /\ e.type \in {"RawButtonPress", "RawButtonRelease"}
    /\ e.source \notin button_map

Records(e) == HasDevice(e.source) /\ "PointerEmulated" \notin e.flags

(* The first valuator's value is incremented once for each valuator that is
   read, and it is the only one read.  MotionEvent reads before ScrollEvent. *)
GetValuators(e, first) ==
    [v \in DOMAIN e.values |-> first + Cardinality({w \in DOMAIN e.values : w < v})]

FirstValue(e) == e.values[CHOOSE v \in DOMAIN e.values : \A w \in DOMAIN e.values : v <= w]

MotionEvent(e) ==
    IF Records(e) /\ e.source \in valuator_x /\ X \in DOMAIN e.values
    THEN <<Entry("move", e, None, None)>> ELSE << >>

ScrollEvent(e) ==
    LET first == FirstValue(e) + Cardinality(DOMAIN e.values)
    IN  IF Records(e) /\ e.source \in scroll_map /\ Wheel \in DOMAIN e.values
        THEN <<Entry("scroll", e, None, GetValuators(e, first)[Wheel])>> ELSE << >>

ButtonEvent(e, action) ==
    IF Records(e) /\ e.detail # WheelUp THEN <<Entry("click", e, action, None)>> ELSE << >>

(* evtype is that of a raw event, and is compared with XI_KeyRelease. *)
KeyAction(e) ==
    IF e.type = "KeyRelease" THEN "release"
    ELSE IF "KeyRepeat" \in e.flags THEN "repeat" ELSE "press"

KeyEvent(e) ==
    IF HasDevice(e.source) THEN <<Entry("key", e, KeyAction(e), None)>> ELSE << >>

TouchMotion(e) ==
    IF HasDevice(e.source) THEN <<Entry("move", e, None, None)>> ELSE << >>

TouchButton(e, action) ==
    IF HasDevice(e.source) THEN <<Entry("click", e, action, None)>> ELSE << >>

SwitchOnEvent(e) ==
    CASE e.type = "RawMotion"        -> MotionEvent(e) \o ScrollEvent(e)
      [] e.type = "RawButtonPress"   -> ButtonEvent(e, "press")
      [] e.type = "RawButtonRelease" -> ButtonEvent(e, "release")
      [] e.type \in {"RawKeyPress", "RawKeyRelease"} -> KeyEvent(e)
      [] e.type = "RawTouchBegin"    -> TouchMotion(e) \o TouchButton(e, "press")
      [] e.type = "RawTouchUpdate"   -> TouchMotion(e)
      [] e.type = "RawTouchEnd"      -> TouchMotion(e) \o TouchButton(e, "release")

(***************************************************************************)
(* TransformEvent                                                          *)
(***************************************************************************)
NextEvent ==
    /\ pc = "next" /\ queue # << >>
    /\ queue' = Tail(queue)
    /\ event' = Head(queue)

TransformDeviceChanged ==
    /\ NextEvent
    /\ event'.type = "DeviceChanged"
    /\ data' = << >>
    /\ pc' = "list"
    /\ UNCHANGED <<serverVars, listed, cacheVars, recorded>>

TransformThrows ==
    /\ NextEvent
    /\ ButtonThrows(event')
    /\ pc' = "threw"
    /\ data' = << >>
    /\ UNCHANGED <<serverVars, listed, cacheVars, recorded>>

TransformRaw ==
    /\ NextEvent
    /\ event'.type # "DeviceChanged" /\ ~ButtonThrows(event')
    /\ data' = SwitchOnEvent(event')
    /\ recorded' =
          CASE event'.type = "RawTouchBegin" /\ data' # << >> -> recorded \cup {event'.detail}
            [] event'.type = "RawTouchEnd" /\ data' # << >>   -> recorded \ {event'.detail}
            [] OTHER                                          -> recorded
    /\ UNCHANGED <<serverVars, pc, listed, cacheVars>>

Next ==
    \/ ServerStep
    \/ ListInputDevices \/ RefreshDevices \/ SelectEvents
    \/ TransformDeviceChanged \/ TransformThrows \/ TransformRaw

Spec == Init /\ [][Next]_vars

-----------------------------------------------------------------------------
(***************************************************************************)
(* Properties.                                                             *)
(***************************************************************************)
EventType == {"None", "DeviceChanged", "RawMotion", "RawButtonPress", "RawButtonRelease",
              "RawKeyPress", "RawKeyRelease", "RawTouchBegin", "RawTouchUpdate", "RawTouchEnd"}

(* Every variable has its type, and what GetDevice and SetDeviceNameFields look
   up with at() is there for every device that HasDevice knows. *)
TypeOK ==
    /\ server \in [Ids -> Devices \cup {None}]
    /\ plugged \subseteq Devices
    /\ touching \in [Touches -> Touchscreens \cup {None}]
    /\ touches \in 0..MaxTouches
    /\ selected \in BOOLEAN
    /\ \A i \in DOMAIN queue : queue[i].type \in EventType /\ queue[i].source \in Ids \cup {0}
    /\ pc \in {"list", "query", "select", "next", "threw"}
    /\ listed \in [Ids -> Devices \cup {None}]
    /\ devices \in [Ids -> {"mouse", "keyboard", "touchscreen", None}]
    /\ id_to_name \in [Ids -> Devices \cup {None}]
    /\ \A i \in Ids : devices[i] = None <=> id_to_name[i] = None
    /\ button_map \cup scroll_map \cup valuator_x \subseteq {i \in Ids : devices[i] # None}
    /\ recorded \subseteq Touches

(* The device_type of an entry is that of the device it names, whatever devices
   its id has stood for and however far a refresh has come, but for keys: a key
   of an id that was another device's before is recorded as a keyboard's under
   the name of that device. *)
TypeIsOfNamedDevice ==
    \A i \in DOMAIN data :
        data[i].device = IF data[i].table = "key" THEN "keyboard" ELSE Type(data[i].name)

(* A touch that is recorded as begun is recorded as ended when its end has been
   read, even if its device is gone by then and the devices are refreshed in
   between. *)
RecordedTouchesEnd ==
    \A t \in recorded :
        \/ touching[t] # None
        \/ \E i \in DOMAIN queue : queue[i].type = "RawTouchEnd" /\ queue[i].detail = t

(* ARCHITECTURE.md, X11: "scroll amounts are sourced from the raw event". *)
ScrollAmountIsSourced ==
    \A i \in DOMAIN data : data[i].table = "scroll" => data[i].amount = event.values[Wheel]
=============================================================================
