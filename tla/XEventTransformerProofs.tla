----------------------- MODULE XEventTransformerProofs -----------------------
(***************************************************************************)
(* For any devices, ids, touches and order of events: an entry has the     *)
(* type of the device it names, but for keys, and a recorded touch is      *)
(* recorded as ended.                                                      *)
(***************************************************************************)
EXTENDS XEventTransformer, TLAPS

(* What the two caches of devices have of an id is of one device.  It is not
   inductive unless types and names are known of the same ids: emplace() would
   give a new name to an id that kept an old type. *)
NameMatchesType == \A i \in Ids : id_to_name[i] # None => devices[i] = Type(id_to_name[i])

KnownTogether == \A i \in Ids : devices[i] = None <=> id_to_name[i] = None

IInv ==
    /\ devices \in [Ids -> {"mouse", "keyboard", "touchscreen", None}]
    /\ id_to_name \in [Ids -> Devices \cup {None}]
    /\ listed \in [Ids -> Devices \cup {None}]
    /\ server \in [Ids -> Devices \cup {None}]
    /\ KnownTogether
    /\ NameMatchesType

(* No device is known before the first refresh. *)
LEMMA InitIInv == Init => IInv
<1> SUFFICES ASSUME Init PROVE IInv
  OBVIOUS
<1> QED  BY DEF Init, IInv, KnownTogether, NameMatchesType, NoDevices

(* What emplace() leaves in a map of ids. *)
LEMMA EmplaceAt ==
    ASSUME NEW map, NEW values, NEW i \in Ids
    PROVE  Emplace(map, values)[i] =
             IF i \in Refreshed /\ map[i] = None THEN values[i] ELSE map[i]
BY DEF Emplace

(* Emplace keeps the values that a map may have. *)
LEMMA EmplaceTyped ==
    ASSUME NEW S, NEW map \in [Ids -> S], NEW values,
           \A i \in Refreshed : values[i] \in S
    PROVE  Emplace(map, values) \in [Ids -> S]
BY DEF Emplace

(* A refresh gives an id a type and a name of one device or neither. *)
LEMMA RefreshIInv == IInv /\ RefreshDevices => IInv'
<1> SUFFICES ASSUME IInv, RefreshDevices PROVE IInv'
  OBVIOUS
<1> DEFINE types == [i \in Ids |-> Type(listed[i])]
<1>1. /\ devices' = Emplace(devices, types)
      /\ id_to_name' = Emplace(id_to_name, listed)
      /\ listed' = NoDevices
      /\ server' = server
  BY DEF RefreshDevices, RefreshedTypes, RefreshedNames, serverVars
<1>2. \A i \in Refreshed : /\ i \in Ids
                           /\ listed[i] # None /\ listed[i] \in Devices
                           /\ types[i] = Type(listed[i])
  BY DEF IInv, Refreshed, Found
<1>3. \A d : Type(d) \in {"mouse", "keyboard", "touchscreen"}
  BY DEF Type
<1>4. devices' \in [Ids -> {"mouse", "keyboard", "touchscreen", None}]
  <2>1. \A i \in Refreshed : types[i] \in {"mouse", "keyboard", "touchscreen", None}
    BY <1>2, <1>3
  <2> HIDE DEF types
  <2> QED  BY <1>1, <2>1, EmplaceTyped DEF IInv
<1>5. id_to_name' \in [Ids -> Devices \cup {None}]
  <2>1. \A i \in Refreshed : listed[i] \in Devices \cup {None}
    BY <1>2
  <2> QED  BY <1>1, <2>1, EmplaceTyped DEF IInv
<1>6. listed' \in [Ids -> Devices \cup {None}] /\ server' \in [Ids -> Devices \cup {None}]
  BY <1>1 DEF IInv, NoDevices
<1>7. ASSUME NEW i \in Ids
      PROVE  /\ devices'[i] = None <=> id_to_name'[i] = None
             /\ id_to_name'[i] # None => devices'[i] = Type(id_to_name'[i])
  <2>1. /\ devices[i] = None <=> id_to_name[i] = None
        /\ id_to_name[i] # None => devices[i] = Type(id_to_name[i])
    BY DEF IInv, KnownTogether, NameMatchesType
  <2>2. CASE i \in Refreshed /\ devices[i] = None
    <3>1. devices'[i] = Type(listed[i]) /\ id_to_name'[i] = listed[i]
      BY <1>1, <1>2, <2>1, <2>2, EmplaceAt
    <3> QED  BY <1>2, <1>3, <2>2, <3>1, XEventTransformerAssumption
  <2>3. CASE ~(i \in Refreshed /\ devices[i] = None)
    <3>1. devices'[i] = devices[i] /\ id_to_name'[i] = id_to_name[i]
      BY <1>1, <2>1, <2>3, EmplaceAt
    <3> QED  BY <2>1, <3>1
  <2> QED  BY <2>2, <2>3
<1> QED  BY <1>4, <1>5, <1>6, <1>7 DEF IInv, KnownTogether, NameMatchesType

(* The X server changes which device has an id, and no cache. *)
LEMMA ServerIInv == IInv /\ ServerStep => IInv'
<1> SUFFICES ASSUME IInv, ServerStep PROVE IInv'
  OBVIOUS
<1> DEFINE Kept == /\ UNCHANGED <<devices, id_to_name, listed>>
                   /\ server' \in [Ids -> Devices \cup {None}]
<1>1. ASSUME NEW d \in Devices, NEW id \in Ids,
             UseMouse(d, id) \/ UseKeyboard(d, id)
      PROVE  Kept
  BY <1>1 DEF IInv, UseMouse, UseKeyboard, Send, cacheVars, serverVars
<1>2. ASSUME NEW d \in Devices, NEW id \in Ids, BeginTouch(d, id)
      PROVE  Kept
  BY <1>2 DEF IInv, BeginTouch, Send, cacheVars
<1>3. ASSUME NEW d \in Devices, NEW id \in Ids, NEW t \in Touches,
             UpdateTouch(d, id, t) \/ EndTouch(d, id, t)
      PROVE  Kept
  BY <1>3 DEF IInv, UpdateTouch, EndTouch, Send, cacheVars, serverVars
<1>4. ASSUME NEW d \in Devices, NEW id \in Ids, Plug(d, id) \/ Unplug(d, id)
      PROVE  Kept
  BY <1>4 DEF IInv, Plug, Unplug, cacheVars
<1>5. Kept
  <2>1. \A d \in Devices : IdsOf(d) \subseteq Ids
    BY DEF IdsOf
  <2> HIDE DEF Kept
  <2> QED  BY <1>1, <1>2, <1>3, <1>4, <2>1 DEF ServerStep
<1> QED  BY <1>5 DEF IInv, KnownTogether, NameMatchesType

(* Transforming an event changes no cache; listing sees what the server has. *)
LEMMA TransformIInv ==
    ASSUME IInv,
           ListInputDevices \/ SelectEvents \/ TransformDeviceChanged \/ TransformThrows \/ TransformRaw
               \/ UNCHANGED vars
    PROVE  IInv'
<1>1. UNCHANGED <<devices, id_to_name, server>> /\ (listed' = listed \/ listed' = server)
  BY DEF ListInputDevices, SelectEvents, TransformDeviceChanged, TransformThrows, TransformRaw, vars,
         serverVars, cacheVars
<1> QED  BY <1>1 DEF IInv, KnownTogether, NameMatchesType

-----------------------------------------------------------------------------
(***************************************************************************)
(* What the server sends.                                                  *)
(***************************************************************************)
TouchType == {"RawTouchBegin", "RawTouchUpdate", "RawTouchEnd"}

Values == UNION {[mask -> Int] : mask \in SUBSET {X, Wheel}}

EventRecord == [type : EventType, source : Ids \cup {0}, detail : Nat,
                flags : SUBSET {"PointerEmulated", "KeyRepeat"}, values : Values]

RawType == EventType \ {"None", "DeviceChanged"}

Event == {e \in EventRecord : /\ e.type \in RawType \cup {"DeviceChanged"}
                              /\ e.type \in RawType => e.source \in Ids
                              /\ e.type \in TouchType => e.detail \in Touches}

(* The events in which touches begin or end. *)
Bound(e) == e.type \in {"RawTouchBegin", "RawTouchEnd"}

LEMMA NoEventTyped == NoEvent \in EventRecord
<1>1. << >> \in [{} -> Int]
  OBVIOUS
<1>2. << >> \in Values
  BY <1>1 DEF Values
<1> QED  BY <1>2 DEF NoEvent, EventRecord, EventType

LEMMA RawTyped ==
    ASSUME NEW type \in RawType, NEW id \in Ids, NEW detail \in Nat,
           type \in TouchType => detail \in Touches
    PROVE  /\ Raw(type, id, detail) \in Event
           /\ Raw(type, id, detail).type = type
           /\ Raw(type, id, detail).source = id /\ Raw(type, id, detail).detail = detail
<1>1. /\ Raw(type, id, detail) \in EventRecord
      /\ Raw(type, id, detail).type = type
      /\ Raw(type, id, detail).source = id /\ Raw(type, id, detail).detail = detail
  BY NoEventTyped DEF Raw, EventRecord, RawType
<1> QED  BY <1>1 DEF Event

LEMMA EmulatedTyped ==
    ASSUME NEW e \in Event
    PROVE  Emulated(e) \in Event /\ Emulated(e).type = e.type
<1>1. /\ e \in EventRecord /\ e.type \in RawType \cup {"DeviceChanged"}
      /\ e.type \in RawType => e.source \in Ids
      /\ e.type \in TouchType => e.detail \in Touches
  BY DEF Event
<1>2. /\ Emulated(e) \in EventRecord
      /\ Emulated(e).type = e.type /\ Emulated(e).source = e.source /\ Emulated(e).detail = e.detail
  BY <1>1 DEF Emulated, EventRecord
<1> QED  BY <1>1, <1>2 DEF Event

LEMMA MotionTyped ==
    ASSUME NEW id \in Ids, NEW mask \in SUBSET {X, Wheel}
    PROVE  Motion(id, mask) \in Event /\ Motion(id, mask).type = "RawMotion"
<1> DEFINE values == [v \in mask |-> IF v = X THEN Amount ELSE 2 * Amount]
<1>1. values \in Values
  BY XEventTransformerAssumption DEF Values, XEventTransformerAssumption
<1>2. "RawMotion" \in RawType \ TouchType
  BY DEF RawType, EventType, TouchType
<1>3. /\ Raw("RawMotion", id, 0) \in EventRecord /\ Raw("RawMotion", id, 0).type = "RawMotion"
      /\ Raw("RawMotion", id, 0).source = id
  BY <1>2, RawTyped DEF Event
<1>4. Motion(id, mask) = [Raw("RawMotion", id, 0) EXCEPT !.values = values]
  BY DEF Motion
<1> HIDE DEF values
<1>5. /\ Motion(id, mask) \in EventRecord /\ Motion(id, mask).type = "RawMotion"
      /\ Motion(id, mask).source = id
  BY <1>1, <1>3, <1>4 DEF EventRecord
<1> QED  BY <1>2, <1>5 DEF Event

LEMMA DeviceChangedTyped == DeviceChanged \in Event /\ DeviceChanged.type = "DeviceChanged"
<1>1. DeviceChanged \in EventRecord /\ DeviceChanged.type = "DeviceChanged"
  BY NoEventTyped DEF DeviceChanged, EventRecord, EventType
<1> QED  BY <1>1 DEF Event, RawType, TouchType

(* What is sent comes at the end of the queue, or nowhere if nothing has been
   selected. *)
Sent(events) ==
    /\ queue' \in Seq(Event) /\ Len(queue) <= Len(queue')
    /\ \A i \in 1..Len(queue) : queue'[i] = queue[i]
    /\ \A i \in Len(queue) + 1..Len(queue') :
          queue'[i] = DeviceChanged \/ \E j \in 1..Len(events) : queue'[i] = events[j]
    /\ selected => \A j \in 1..Len(events) : \E i \in Len(queue) + 1..Len(queue') : queue'[i] = events[j]
    /\ ~selected => queue' = queue

LEMMA SendGives ==
    ASSUME queue \in Seq(Event), NEW events \in Seq(Event), Send(events)
    PROVE  Sent(events)
<1> DEFINE q == queue  r == queue'
<1>1. CASE ~selected
  BY <1>1 DEF Send, Sent
<1>2. CASE selected /\ queue' = queue \o events
  <2>1. /\ r \in Seq(Event) /\ Len(r) = Len(q) + Len(events)
        /\ \A i \in 1..Len(q) : r[i] = q[i]
        /\ \A i \in Len(q) + 1..Len(r) : r[i] = events[i - Len(q)]
    BY <1>2
  <2>2. Len(q) \in Nat /\ Len(events) \in Nat
    OBVIOUS
  <2> HIDE DEF q, r
  <2>3. ASSUME NEW i \in Len(q) + 1..Len(r) PROVE \E j \in 1..Len(events) : r[i] = events[j]
    <3>1. i - Len(q) \in 1..Len(events)
      BY <2>1, <2>2
    <3> QED  BY <2>1, <3>1
  <2>4. ASSUME NEW j \in 1..Len(events) PROVE \E i \in Len(q) + 1..Len(r) : r[i] = events[j]
    <3>1. Len(q) + j \in Len(q) + 1..Len(r) /\ (Len(q) + j) - Len(q) = j
      BY <2>1, <2>2
    <3> QED  BY <2>1, <3>1
  <2>5. Len(q) <= Len(r)
    BY <2>1, <2>2
  <2> QED  BY <1>2, <2>1, <2>3, <2>4, <2>5 DEF Sent, q, r
<1>3. CASE selected /\ queue' = (queue \o <<DeviceChanged>>) \o events
  <2> DEFINE p == q \o <<DeviceChanged>>
  <2>1. /\ p \in Seq(Event) /\ Len(p) = Len(q) + 1
        /\ \A i \in 1..Len(q) : p[i] = q[i]
        /\ p[Len(q) + 1] = DeviceChanged
    BY DeviceChangedTyped
  <2> HIDE DEF p
  <2>2. /\ r \in Seq(Event) /\ Len(r) = Len(p) + Len(events)
        /\ \A i \in 1..Len(p) : r[i] = p[i]
        /\ \A i \in Len(p) + 1..Len(r) : r[i] = events[i - Len(p)]
    BY <1>3, <2>1 DEF p
  <2>3. Len(q) \in Nat /\ Len(events) \in Nat
    OBVIOUS
  <2> HIDE DEF q, r
  <2>4. \A i \in 1..Len(q) : r[i] = q[i]
    BY <2>1, <2>2, <2>3
  <2>5. ASSUME NEW i \in Len(q) + 1..Len(r)
        PROVE  r[i] = DeviceChanged \/ \E j \in 1..Len(events) : r[i] = events[j]
    <3>1. CASE i = Len(q) + 1
      BY <2>1, <2>2, <2>3, <3>1
    <3>2. CASE i # Len(q) + 1
      <4>1. i \in Len(p) + 1..Len(r) /\ i - Len(p) \in 1..Len(events)
        BY <2>1, <2>2, <2>3, <3>2
      <4> QED  BY <2>2, <4>1
    <3> QED  BY <3>1, <3>2
  <2>6. ASSUME NEW j \in 1..Len(events) PROVE \E i \in Len(q) + 1..Len(r) : r[i] = events[j]
    <3>1. /\ Len(p) + j \in Len(p) + 1..Len(r) /\ (Len(p) + j) - Len(p) = j
          /\ Len(p) + j \in Len(q) + 1..Len(r)
      BY <2>1, <2>2, <2>3
    <3> QED  BY <2>2, <3>1
  <2>7. Len(q) <= Len(r)
    BY <2>1, <2>2, <2>3
  <2> QED  BY <1>3, <2>2, <2>4, <2>5, <2>6, <2>7 DEF Sent, q, r
<1> QED  BY <1>1, <1>2, <1>3 DEF Send

-----------------------------------------------------------------------------
(***************************************************************************)
(* The invariant of touches.  RecordedTouchesEnd is not inductive: that an *)
(* end that has been sent will be recorded needs that its id is known, and *)
(* that is so because an id that has begun a touch keeps its device until  *)
(* the touch has ended, and a known id is never forgotten.                 *)
(***************************************************************************)
TouchTypes ==
    /\ plugged \subseteq Devices
    /\ touching \in [Touches -> Touchscreens \cup {None}]
    /\ touches \in 0..MaxTouches
    /\ selected \in BOOLEAN
    /\ queue \in Seq(Event)
    /\ pc \in {"list", "query", "select", "next", "threw"}
    /\ button_map \cup scroll_map \cup valuator_x \subseteq {i \in Ids : devices[i] # None}
    /\ recorded \subseteq Touches

(* An id stands for a device, and a device has one id at most. *)
ServerInv ==
    /\ \A i, j \in Ids : server[i] = server[j] /\ server[i] # None => i = j
    /\ \A i \in Ids : server[i] # None => server[i] \in plugged
    /\ \A t \in Touches : touching[t] # None => touching[t] \in plugged /\ t <= touches

NotSelected == ~selected => queue = << >> /\ recorded = {}

(* A touch that is yet to come has left no trace. *)
Counted ==
    /\ \A i \in 1..Len(queue) : Bound(queue[i]) => queue[i].detail <= touches
    /\ \A t \in recorded : t <= touches

At(i, type, t) == i \in 1..Len(queue) /\ queue[i].type = type /\ queue[i].detail = t

(* Of a touch whose beginning has not been read. *)
BegunInv(t, i) ==
    /\ touching[t] # None => server[queue[i].source] = touching[t]
    /\ touching[t] # None \/ \E j \in 1..Len(queue) : j > i /\ At(j, "RawTouchEnd", t)
    /\ \A j \in 1..Len(queue) : At(j, "RawTouchEnd", t) => queue[j].source = queue[i].source

(* Of a touch that has been recorded. *)
RecordedInv(t) ==
    /\ touching[t] # None \/ \E j \in 1..Len(queue) : At(j, "RawTouchEnd", t)
    /\ \A i \in Ids : touching[t] # None /\ server[i] = touching[t] => devices[i] # None
    /\ \A j \in 1..Len(queue) : At(j, "RawTouchEnd", t) => devices[queue[j].source] # None

TouchInv ==
    /\ TouchTypes /\ ServerInv /\ NotSelected /\ Counted
    /\ \A t \in Touches : \A i \in 1..Len(queue) : At(i, "RawTouchBegin", t) => BegunInv(t, i)
    /\ \A t \in recorded : RecordedInv(t)

LEMMA InitTouchInv == Init => TouchInv
<1> SUFFICES ASSUME Init PROVE TouchInv
  OBVIOUS
<1>1. Len(<< >>) = 0 /\ << >> \in Seq(Event)
  OBVIOUS
<1>2. /\ touches = 0 /\ MaxTouches \in Nat /\ queue = << >> /\ recorded = {} /\ selected = FALSE
      /\ touching = [t \in Touches |-> None] /\ pc = "list"
      /\ button_map = {} /\ scroll_map = {} /\ valuator_x = {}
      /\ server \in [Ids -> Devices \cup {None}] /\ plugged = {server[i] : i \in Ids} \ {None}
  BY Zenon, XEventTransformerAssumption DEF Init
<1>3. TouchTypes
  <2>1. plugged \subseteq Devices /\ touches \in 0..MaxTouches
    BY <1>2
  <2>2. selected \in BOOLEAN
    BY <1>2, Zenon
  <2> QED  BY <1>1, <1>2, <2>1, <2>2 DEF TouchTypes
<1>4. ServerInv
  <2>1. ASSUME NEW i \in Ids, NEW j \in Ids, server[i] = server[j], server[i] # None PROVE i = j
    <3>1. server[i] \in Devices /\ i \in IdsOf(server[i]) /\ j \in IdsOf(server[i])
      BY <1>2, <2>1 DEF IdsOf
    <3> QED  BY <3>1 DEF Init
  <2> QED  BY <1>2, <2>1 DEF ServerInv
<1> QED  BY <1>1, <1>2, <1>3, <1>4 DEF TouchInv, NotSelected, Counted

(* Of the events that are sent together one at most begins or ends a touch: e. *)
Adds(e) ==
    /\ queue' \in Seq(Event) /\ Len(queue) <= Len(queue')
    /\ \A i \in 1..Len(queue) : queue'[i] = queue[i]
    /\ \A i \in Len(queue) + 1..Len(queue') : Bound(queue'[i]) => queue'[i] = e
    /\ selected /\ Bound(e) => \E i \in Len(queue) + 1..Len(queue') : queue'[i] = e
    /\ ~selected => queue' = queue

Unread == UNCHANGED <<pc, listed, cacheVars, data, event, recorded>>

LEMMA SendOne ==
    ASSUME queue \in Seq(Event), NEW a \in Event, Send(<<a>>)
    PROVE  Adds(a) /\ Unread
<1> DEFINE events == <<a>>
<1>1. events \in Seq(Event) /\ Len(events) = 1 /\ events[1] = a
  OBVIOUS
<1> HIDE DEF events
<1>2. Send(events)
  BY DEF events
<1>3. Sent(events)
  BY <1>1, <1>2, SendGives
<1>4. ~Bound(DeviceChanged)
  BY DeviceChangedTyped DEF Bound
<1>5. Unread
  BY <1>2 DEF Send, Unread
<1>6. \A j \in 1..Len(events) : events[j] = a
  BY <1>1
<1>7. 1 \in 1..Len(events)
  BY <1>1
<1> QED  BY <1>1, <1>3, <1>4, <1>5, <1>6, <1>7 DEF Sent, Adds

(* The second one is what the first would be on a mouse. *)
LEMMA SendTwo ==
    ASSUME queue \in Seq(Event), NEW a \in Event, NEW b \in Event, ~Bound(b), Send(<<a, b>>)
    PROVE  Adds(a) /\ Unread
<1> DEFINE events == <<a, b>>
<1>1. events \in Seq(Event) /\ Len(events) = 2 /\ events[1] = a /\ events[2] = b
  OBVIOUS
<1> HIDE DEF events
<1>2. Send(events)
  BY DEF events
<1>3. Sent(events)
  BY <1>1, <1>2, SendGives
<1>4. ~Bound(DeviceChanged)
  BY DeviceChangedTyped DEF Bound
<1>5. Unread
  BY <1>2 DEF Send, Unread
<1>6. \A j \in 1..Len(events) : events[j] = a \/ events[j] = b
  BY <1>1
<1>7. 1 \in 1..Len(events)
  BY <1>1
<1> QED  BY <1>1, <1>3, <1>4, <1>5, <1>6, <1>7 DEF Sent, Adds

(***************************************************************************)
(* The server.  Appending leaves the events that are there in their places.*)
(***************************************************************************)
LEMMA Appended ==
    ASSUME queue \in Seq(Event), NEW e \in Event, Adds(e)
    PROVE  /\ \A i : i \in 1..Len(queue) => i \in 1..Len(queue') /\ queue'[i] = queue[i]
           /\ \A i \in 1..Len(queue') : Bound(queue'[i]) =>
                 \/ i \in 1..Len(queue) /\ queue'[i] = queue[i]
                 \/ i > Len(queue) /\ selected /\ queue'[i] = e
<1>1. Len(queue) \in Nat /\ Len(queue') \in Nat /\ Len(queue) <= Len(queue')
  BY DEF Adds
<1>2. ASSUME NEW i \in 1..Len(queue'), Bound(queue'[i]), i \notin 1..Len(queue)
      PROVE  i > Len(queue) /\ selected /\ queue'[i] = e
  <2>1. i \in Len(queue) + 1..Len(queue')
    BY <1>1, <1>2
  <2>2. queue' # queue
    BY <1>2
  <2> QED  BY <1>1, <1>2, <2>1, <2>2 DEF Adds
<1> QED  BY <1>1, <1>2 DEF Adds

(* Events that neither begin nor end a touch. *)
LEMMA QuietKeeps ==
    ASSUME TouchInv, IInv, NEW e \in Event, ~Bound(e), Adds(e), Unread, UNCHANGED serverVars
    PROVE  TouchInv'
<1>1. queue \in Seq(Event) /\ queue' \in Seq(Event)
  BY DEF TouchInv, TouchTypes, Adds
<1>2. /\ UNCHANGED <<server, plugged, touching, touches, selected, recorded, devices, pc>>
      /\ UNCHANGED <<button_map, scroll_map, valuator_x>>
  BY DEF serverVars, Unread, cacheVars
<1>3. /\ \A i : i \in 1..Len(queue) => i \in 1..Len(queue') /\ queue'[i] = queue[i]
      /\ \A i \in 1..Len(queue') : Bound(queue'[i]) => i \in 1..Len(queue) /\ queue'[i] = queue[i]
  BY <1>1, Appended
<1>4. \A i, t : At(i, "RawTouchEnd", t)' <=> At(i, "RawTouchEnd", t)
  BY <1>3 DEF At, Bound
<1>5. \A i, t : At(i, "RawTouchBegin", t)' <=> At(i, "RawTouchBegin", t)
  BY <1>3 DEF At, Bound
<1>6. \A i, t : At(i, "RawTouchEnd", t) => i \in 1..Len(queue) /\ queue'[i] = queue[i]
  BY <1>3 DEF At
<1>7. \A i, t : At(i, "RawTouchBegin", t) => i \in 1..Len(queue) /\ queue'[i] = queue[i]
  BY <1>3 DEF At
<1>8. TouchTypes' /\ ServerInv' /\ NotSelected' /\ Counted'
  <2>1. TouchTypes' /\ ServerInv'
    BY <1>1, <1>2 DEF TouchInv, TouchTypes, ServerInv
  <2>2. NotSelected'
    BY <1>2 DEF TouchInv, NotSelected, Adds
  <2>3. Counted'
    BY <1>2, <1>3 DEF TouchInv, Counted
  <2> QED  BY <2>1, <2>2, <2>3
<1>9. ASSUME NEW t \in Touches, NEW i \in 1..Len(queue'), At(i, "RawTouchBegin", t)'
      PROVE  BegunInv(t, i)'
  <2>1. At(i, "RawTouchBegin", t) /\ i \in 1..Len(queue) /\ queue'[i] = queue[i] /\ BegunInv(t, i)
    BY <1>5, <1>7, <1>9 DEF TouchInv
  <2> QED  BY <1>2, <1>3, <1>4, <1>6, <2>1 DEF BegunInv
<1>10. ASSUME NEW t \in recorded PROVE RecordedInv(t)'
  <2>1. RecordedInv(t)
    BY DEF TouchInv
  <2> QED  BY <1>2, <1>3, <1>4, <1>6, <2>1 DEF RecordedInv
<1> QED  BY <1>2, <1>8, <1>9, <1>10 DEF TouchInv

LEMMA MouseKeeps ==
    ASSUME TouchInv, IInv, NEW d \in Devices, NEW id \in IdsOf(d), UseMouse(d, id)
    PROVE  TouchInv'
<1>1. id \in Ids /\ queue \in Seq(Event) /\ UNCHANGED serverVars
  BY DEF IdsOf, TouchInv, TouchTypes, UseMouse
<1>2. /\ "RawButtonPress" \in RawType \ TouchType /\ "RawButtonRelease" \in RawType \ TouchType
      /\ Button \in Nat /\ WheelUp \in Nat
  BY DEF RawType, EventType, TouchType, Button, WheelUp
<1> DEFINE Press(n) == Raw("RawButtonPress", id, n)  Release == Raw("RawButtonRelease", id, Button)
<1>3. /\ \A n \in {Button, WheelUp} : Press(n) \in Event /\ ~Bound(Press(n))
      /\ Release \in Event /\ ~Bound(Release)
  BY <1>1, <1>2, RawTyped DEF Bound
<1>4. \A mask \in SUBSET {X, Wheel} : Motion(id, mask) \in Event /\ ~Bound(Motion(id, mask))
  BY <1>1, MotionTyped DEF Bound
<1>5. Emulated(Press(WheelUp)) \in Event /\ ~Bound(Emulated(Press(WheelUp)))
  BY <1>3, EmulatedTyped DEF Bound
<1>6. \/ Send(<<Motion(id, {X})>>)
      \/ Send(<<Motion(id, {Wheel}), Emulated(Press(WheelUp))>>)
      \/ Send(<<Press(Button)>>)
      \/ Send(<<Release>>)
  BY DEF UseMouse
<1> HIDE DEF Press, Release
<1>7. \E e \in Event : ~Bound(e) /\ Adds(e) /\ Unread
  <2>1. CASE Send(<<Motion(id, {X})>>)
    BY <1>1, <1>4, <2>1, SendOne
  <2>2. CASE Send(<<Motion(id, {Wheel}), Emulated(Press(WheelUp))>>)
    BY <1>1, <1>4, <1>5, <2>2, SendTwo
  <2>3. CASE Send(<<Press(Button)>>) \/ Send(<<Release>>)
    BY <1>1, <1>3, <2>3, SendOne
  <2> QED  BY <1>6, <2>1, <2>2, <2>3
<1> QED  BY <1>1, <1>7, QuietKeeps

LEMMA KeyboardKeeps ==
    ASSUME TouchInv, IInv, NEW d \in Devices, NEW id \in IdsOf(d), UseKeyboard(d, id)
    PROVE  TouchInv'
<1>1. id \in Ids /\ queue \in Seq(Event) /\ UNCHANGED serverVars
  BY DEF IdsOf, TouchInv, TouchTypes, UseKeyboard
<1>2. "RawKeyPress" \in RawType \ TouchType /\ "RawKeyRelease" \in RawType \ TouchType
  BY DEF RawType, EventType, TouchType
<1> DEFINE Press == Raw("RawKeyPress", id, 0)  Release == Raw("RawKeyRelease", id, 0)
           Repeat == [Press EXCEPT !.flags = {"KeyRepeat"}]
<1>3. Press \in Event /\ ~Bound(Press) /\ Release \in Event /\ ~Bound(Release)
  BY <1>1, <1>2, RawTyped DEF Bound
<1>4. Press.type \in RawType \ TouchType /\ Press.source = id
  BY <1>1, <1>2, RawTyped
<1>5. Send(<<Press>>) \/ Send(<<Repeat>>) \/ Send(<<Release>>)
  BY DEF UseKeyboard
<1> HIDE DEF Press, Release
<1>6. Repeat \in EventRecord /\ Repeat.type = Press.type /\ Repeat.source = Press.source
  BY <1>3 DEF Event, EventRecord
<1>7. Repeat \in Event /\ ~Bound(Repeat)
  BY <1>1, <1>4, <1>6 DEF Event, Bound, TouchType
<1> HIDE DEF Repeat
<1>8. \E e \in Event : ~Bound(e) /\ Adds(e) /\ Unread
  BY <1>1, <1>3, <1>5, <1>7, SendOne
<1> QED  BY <1>1, <1>8, QuietKeeps

LEMMA UpdateTouchKeeps ==
    ASSUME TouchInv, IInv, NEW d \in Devices, NEW id \in IdsOf(d), NEW t \in Touches,
           UpdateTouch(d, id, t)
    PROVE  TouchInv'
<1>1. /\ id \in Ids /\ queue \in Seq(Event) /\ UNCHANGED serverVars
      /\ Send(<<Raw("RawTouchUpdate", id, t), Emulated(Motion(id, {X}))>>)
  BY DEF IdsOf, TouchInv, TouchTypes, UpdateTouch
<1>2. "RawTouchUpdate" \in RawType /\ t \in Nat
  BY XEventTransformerAssumption DEF RawType, EventType, Touches
<1>3. Raw("RawTouchUpdate", id, t) \in Event /\ ~Bound(Raw("RawTouchUpdate", id, t))
  BY <1>1, <1>2, RawTyped DEF Bound
<1>4. Emulated(Motion(id, {X})) \in Event /\ ~Bound(Emulated(Motion(id, {X})))
  BY <1>1, MotionTyped, EmulatedTyped DEF Bound
<1>5. Adds(Raw("RawTouchUpdate", id, t)) /\ Unread
  BY <1>1, <1>3, <1>4, SendTwo
<1> QED  BY <1>1, <1>3, <1>5, QuietKeeps

(* A touch that begins is new: nothing in the queue is of it. *)
LEMMA BeginTouchKeeps ==
    ASSUME TouchInv, IInv, NEW d \in Devices, NEW id \in IdsOf(d), BeginTouch(d, id)
    PROVE  TouchInv'
<1> DEFINE t == touches + 1  e == Raw("RawTouchBegin", id, t)  b == Raw("RawButtonPress", id, Button)
<1>1. /\ id \in Ids /\ server[id] = d /\ d # None /\ d \in Touchscreens
      /\ queue \in Seq(Event) /\ touches \in 0..MaxTouches /\ touches < MaxTouches
      /\ touches' = t /\ touching' = [touching EXCEPT ![t] = d]
      /\ UNCHANGED <<server, plugged, selected>>
      /\ Send(<<e, Emulated(b)>>)
  BY XEventTransformerAssumption DEF IdsOf, TouchInv, TouchTypes, BeginTouch
<1>2. t \in Touches /\ t \in Nat
  BY <1>1, XEventTransformerAssumption DEF Touches
<1>3. e \in Event /\ e.type = "RawTouchBegin" /\ e.source = id /\ e.detail = t
  BY <1>1, <1>2, RawTyped DEF RawType, EventType
<1>4. Emulated(b) \in Event /\ ~Bound(Emulated(b))
  <2>1. "RawButtonPress" \in RawType \ TouchType /\ Button \in Nat
    BY DEF RawType, EventType, TouchType, Button
  <2> QED  BY <1>1, <2>1, RawTyped, EmulatedTyped DEF Bound
<1> HIDE DEF e, b
<1>5. Adds(e) /\ Unread
  BY <1>1, <1>3, <1>4, SendTwo
<1>6. UNCHANGED <<recorded, devices, pc, button_map, scroll_map, valuator_x>>
  BY <1>5 DEF Unread, cacheVars
<1>7. /\ \A i : i \in 1..Len(queue) => i \in 1..Len(queue') /\ queue'[i] = queue[i]
      /\ \A i \in 1..Len(queue') : Bound(queue'[i]) =>
            \/ i \in 1..Len(queue) /\ queue'[i] = queue[i]
            \/ i > Len(queue) /\ selected /\ queue'[i] = e
  BY <1>1, <1>3, <1>5, Appended
<1>8. /\ \A i \in 1..Len(queue) : Bound(queue[i]) => queue[i].detail <= touches /\ queue[i].detail \in Nat
      /\ \A v \in recorded : v <= touches /\ v \in Touches /\ v \in Nat
  <2>1. \A i \in 1..Len(queue) : queue[i] \in Event
    BY <1>1
  <2>2. \A i \in 1..Len(queue) : queue[i].detail \in Nat
    BY <2>1 DEF Event, EventRecord
  <2>3. \A v \in Touches : v \in Nat
    BY DEF Touches
  <2> QED  BY <2>2, <2>3 DEF TouchInv, TouchTypes, Counted
<1>9. \A i, v : At(i, "RawTouchEnd", v)' <=> At(i, "RawTouchEnd", v)
  BY <1>3, <1>7 DEF At, Bound
<1>10. \A i, v : At(i, "RawTouchEnd", v) => i \in 1..Len(queue) /\ queue'[i] = queue[i] /\ v # t
  BY <1>1, <1>7, <1>8 DEF At, Bound
<1>11. /\ touching'[t] = d
       /\ \A v \in Touches : v # t => touching'[v] = touching[v]
  BY <1>1, <1>2 DEF TouchInv, TouchTypes
<1>12. TouchTypes'
  <2>1. touches' \in 0..MaxTouches
    BY <1>1, XEventTransformerAssumption
  <2>2. touching' \in [Touches -> Touchscreens \cup {None}]
    BY <1>1, <1>2 DEF TouchInv, TouchTypes
  <2> QED  BY <1>1, <1>5, <1>6, <2>1, <2>2 DEF TouchInv, TouchTypes, Adds
<1>13. ServerInv'
  <2>1. d \in plugged
    BY <1>1 DEF TouchInv, ServerInv
  <2>2. ASSUME NEW v \in Touches, touching'[v] # None PROVE touching'[v] \in plugged /\ v <= touches'
    <3>1. CASE v = t
      BY <1>1, <1>2, <1>11, <2>1, <3>1
    <3>2. CASE v # t
      <4>1. touching[v] \in plugged /\ v <= touches /\ v \in Nat
        BY <1>11, <2>2, <3>2 DEF TouchInv, ServerInv, Touches
      <4> QED  BY <1>1, <1>11, <3>2, <4>1
    <3> QED  BY <3>1, <3>2
  <2> QED  BY <1>1, <2>2 DEF TouchInv, ServerInv
<1>14. NotSelected' /\ Counted'
  <2>1. NotSelected'
    BY <1>1, <1>5, <1>6 DEF TouchInv, NotSelected, Adds
  <2>2. \A i \in 1..Len(queue') : Bound(queue'[i]) => queue'[i].detail <= touches'
    BY <1>1, <1>3, <1>7, <1>8
  <2>3. \A v \in recorded' : v <= touches'
    BY <1>1, <1>6, <1>8
  <2> QED  BY <2>1, <2>2, <2>3 DEF Counted
<1>15. ASSUME NEW v \in Touches, NEW i \in 1..Len(queue'), At(i, "RawTouchBegin", v)'
       PROVE  BegunInv(v, i)'
  <2>1. Bound(queue'[i])
    BY <1>15 DEF At, Bound
  <2>2. CASE i \in 1..Len(queue) /\ queue'[i] = queue[i]
    <3>1. At(i, "RawTouchBegin", v) /\ v # t
      BY <1>1, <1>8, <1>15, <2>2 DEF At, Bound
    <3>2. BegunInv(v, i)
      BY <2>2, <3>1 DEF TouchInv
    <3>3. touching[v] # None \/ \E j \in 1..Len(queue') : j > i /\ At(j, "RawTouchEnd", v)'
      BY <1>7, <1>9, <3>2 DEF BegunInv
    <3>4. \A j \in 1..Len(queue') : At(j, "RawTouchEnd", v)' => queue'[j].source = queue'[i].source
      BY <1>9, <1>10, <2>2, <3>2 DEF BegunInv
    <3> QED  BY <1>1, <1>11, <2>2, <3>1, <3>2, <3>3, <3>4 DEF BegunInv
  <2>3. CASE i > Len(queue) /\ selected /\ queue'[i] = e
    <3>1. v = t
      BY <1>3, <1>15, <2>3 DEF At
    <3> QED  BY <1>1, <1>3, <1>9, <1>10, <1>11, <2>3, <3>1 DEF BegunInv
  <2> QED  BY <1>7, <2>1, <2>2, <2>3
<1>16. ASSUME NEW v \in recorded PROVE RecordedInv(v)'
  <2>1. v # t /\ v \in Touches /\ RecordedInv(v)
    BY <1>1, <1>8 DEF TouchInv
  <2> QED  BY <1>1, <1>6, <1>7, <1>9, <1>10, <1>11, <2>1 DEF RecordedInv
<1> QED  BY <1>6, <1>12, <1>13, <1>14, <1>15, <1>16 DEF TouchInv

(* The end of a touch is sent with the id that its beginning had: the device that
   is touched has no other. *)
LEMMA EndTouchKeeps ==
    ASSUME TouchInv, IInv, NEW d \in Devices, NEW id \in IdsOf(d), NEW t \in Touches,
           EndTouch(d, id, t)
    PROVE  TouchInv'
<1> DEFINE e == Raw("RawTouchEnd", id, t)  b == Raw("RawButtonRelease", id, Button)
<1>1. /\ id \in Ids /\ server[id] = d /\ d # None /\ touching[t] = d
      /\ queue \in Seq(Event) /\ touching' = [touching EXCEPT ![t] = None]
      /\ UNCHANGED <<server, plugged, touches, selected>>
      /\ Send(<<e, Emulated(b)>>)
  BY XEventTransformerAssumption DEF IdsOf, TouchInv, TouchTypes, EndTouch
<1>2. t \in Nat /\ t <= touches
  BY <1>1, XEventTransformerAssumption DEF Touches, TouchInv, ServerInv
<1>3. e \in Event /\ e.type = "RawTouchEnd" /\ e.source = id /\ e.detail = t /\ Bound(e)
  BY <1>1, <1>2, RawTyped DEF RawType, EventType, Bound
<1>4. Emulated(b) \in Event /\ ~Bound(Emulated(b))
  <2>1. "RawButtonRelease" \in RawType \ TouchType /\ Button \in Nat
    BY DEF RawType, EventType, TouchType, Button
  <2> QED  BY <1>1, <2>1, RawTyped, EmulatedTyped DEF Bound
<1> HIDE DEF e, b
<1>5. Adds(e) /\ Unread
  BY <1>1, <1>3, <1>4, SendTwo
<1>6. UNCHANGED <<recorded, devices, pc, button_map, scroll_map, valuator_x>>
  BY <1>5 DEF Unread, cacheVars
<1>7. /\ \A i : i \in 1..Len(queue) => i \in 1..Len(queue') /\ queue'[i] = queue[i]
      /\ \A i \in 1..Len(queue') : Bound(queue'[i]) =>
            \/ i \in 1..Len(queue) /\ queue'[i] = queue[i]
            \/ i > Len(queue) /\ selected /\ queue'[i] = e
  BY <1>1, <1>3, <1>5, Appended
<1>8. \A i, v : At(i, "RawTouchBegin", v)' <=> At(i, "RawTouchBegin", v)
  BY <1>3, <1>7 DEF At, Bound
<1>9. \A i, v : At(i, "RawTouchEnd", v) => At(i, "RawTouchEnd", v)' /\ i \in 1..Len(queue) /\ queue'[i] = queue[i]
  BY <1>7 DEF At
<1>10. \A i, v : At(i, "RawTouchEnd", v)' =>
          \/ At(i, "RawTouchEnd", v) /\ queue'[i] = queue[i]
          \/ v = t /\ queue'[i] = e
  BY <1>3, <1>7 DEF At, Bound
<1>11. /\ touching'[t] = None
       /\ \A v \in Touches : v # t => touching'[v] = touching[v]
  BY <1>1 DEF TouchInv, TouchTypes
<1>12. selected => \E j \in 1..Len(queue') : j > Len(queue) /\ At(j, "RawTouchEnd", t)'
  <2>1. selected => \E j \in Len(queue) + 1..Len(queue') : queue'[j] = e
    BY <1>3, <1>5 DEF Adds
  <2>2. Len(queue) \in Nat /\ Len(queue') \in Nat
    BY <1>1, <1>5 DEF Adds
  <2>3. \A j \in Len(queue) + 1..Len(queue') : j \in 1..Len(queue') /\ j > Len(queue)
    BY <2>2
  <2> QED  BY <1>3, <2>1, <2>3 DEF At
<1>13. TouchTypes'
  <2>1. touching' \in [Touches -> Touchscreens \cup {None}]
    BY <1>1 DEF TouchInv, TouchTypes
  <2> QED  BY <1>1, <1>5, <1>6, <2>1 DEF TouchInv, TouchTypes, Adds
<1>14. ServerInv'
  BY <1>1, <1>11 DEF TouchInv, ServerInv
<1>15. NotSelected' /\ Counted'
  <2>1. NotSelected'
    BY <1>1, <1>5, <1>6 DEF TouchInv, NotSelected, Adds
  <2>2. Counted'
    BY <1>1, <1>2, <1>3, <1>6, <1>7 DEF TouchInv, Counted
  <2> QED  BY <2>1, <2>2
<1>16. ASSUME NEW v \in Touches, NEW i \in 1..Len(queue'), At(i, "RawTouchBegin", v)'
       PROVE  BegunInv(v, i)'
  <2>1. At(i, "RawTouchBegin", v) /\ i \in 1..Len(queue) /\ queue'[i] = queue[i] /\ BegunInv(v, i) /\ selected
    BY <1>7, <1>8, <1>16 DEF TouchInv, NotSelected, At
  <2>2. CASE v = t
    <3>1. queue[i].source = id
      <4>1. server[queue[i].source] = d
        BY <1>1, <2>1, <2>2 DEF BegunInv
      <4>2. queue[i].source \in Ids
        <5>1. queue[i] \in Event /\ queue[i].type = "RawTouchBegin"
          BY <1>1, <2>1 DEF At
        <5> QED  BY <5>1 DEF Event, TouchType
      <4> QED  BY <1>1, <4>1, <4>2 DEF TouchInv, ServerInv
    <3>2. \E j \in 1..Len(queue') : j > i /\ At(j, "RawTouchEnd", v)'
      <4>1. \A j \in 1..Len(queue') : j > Len(queue) => j > i
        BY <2>1
      <4> QED  BY <1>12, <2>1, <2>2, <4>1
    <3>3. \A j \in 1..Len(queue') : At(j, "RawTouchEnd", v)' => queue'[j].source = queue'[i].source
      BY <1>3, <1>9, <1>10, <2>1, <3>1 DEF BegunInv
    <3> QED  BY <1>11, <2>2, <3>2, <3>3 DEF BegunInv
  <2>3. CASE v # t
    BY <1>1, <1>7, <1>9, <1>10, <1>11, <2>1, <2>3 DEF BegunInv
  <2> QED  BY <2>2, <2>3
<1>17. ASSUME NEW v \in recorded PROVE RecordedInv(v)'
  <2>1. v \in Touches /\ RecordedInv(v) /\ selected
    BY DEF TouchInv, TouchTypes, NotSelected
  <2>2. CASE v = t
    BY <1>1, <1>3, <1>6, <1>9, <1>10, <1>11, <1>12, <2>1, <2>2 DEF RecordedInv
  <2>3. CASE v # t
    BY <1>1, <1>6, <1>7, <1>9, <1>10, <1>11, <2>1, <2>3 DEF RecordedInv
  <2> QED  BY <2>2, <2>3
<1> QED  BY <1>6, <1>13, <1>14, <1>15, <1>16, <1>17 DEF TouchInv

(* A new device gets an id that none had; only one that nobody touches goes. *)
LEMMA PlugKeeps ==
    ASSUME TouchInv, IInv, NEW d \in Devices, NEW id \in Ids, Plug(d, id) \/ (Unplug(d, id) /\ server[id] = d)
    PROVE  TouchInv'
<1>1. /\ UNCHANGED <<touching, touches, selected, queue, pc, recorded, devices>>
      /\ UNCHANGED <<button_map, scroll_map, valuator_x>>
  BY DEF Plug, Unplug, cacheVars
<1>2. d # None /\ server \in [Ids -> Devices \cup {None}] /\ plugged \subseteq Devices
  BY XEventTransformerAssumption DEF TouchInv, TouchTypes, IInv
<1>3. /\ plugged \subseteq plugged' /\ plugged' \subseteq Devices
      /\ \A i \in Ids : server'[i] \in {server[i], d, None} /\ (server'[i] # None => server'[i] \in plugged')
      /\ \A i, j \in Ids : server'[i] = server'[j] /\ server'[i] # None => i = j
  <2>1. CASE Plug(d, id)
    BY <1>2, <2>1 DEF Plug, TouchInv, ServerInv
  <2>2. CASE Unplug(d, id)
    BY <1>2, <2>2 DEF Unplug, TouchInv, ServerInv
  <2> QED  BY <2>1, <2>2
(* Who is touched keeps the id, and nobody else gets it. *)
<1>4. ASSUME NEW t \in Touches, touching[t] # None, NEW i \in Ids
      PROVE  server'[i] = touching[t] <=> server[i] = touching[t]
  <2>1. touching[t] \in plugged
    BY <1>4 DEF TouchInv, ServerInv
  <2>2. CASE Plug(d, id)
    BY <1>2, <1>4, <2>1, <2>2 DEF Plug
  <2>3. CASE Unplug(d, id) /\ server[id] = d
    BY <1>2, <1>4, <2>1, <2>3 DEF Unplug
  <2> QED  BY <2>2, <2>3
<1>5. TouchTypes' /\ ServerInv' /\ NotSelected' /\ Counted'
  BY <1>1, <1>3 DEF TouchInv, TouchTypes, ServerInv, NotSelected, Counted
<1>6. \A i, type, v : At(i, type, v)' <=> At(i, type, v)
  BY <1>1 DEF At
<1>7. ASSUME NEW v \in Touches, NEW i \in 1..Len(queue'), At(i, "RawTouchBegin", v)'
      PROVE  BegunInv(v, i)'
  <2>1. BegunInv(v, i)
    BY <1>1, <1>6, <1>7 DEF TouchInv
  <2>2. queue[i].source \in Ids
    <3>1. queue[i] \in Event /\ queue[i].type = "RawTouchBegin"
      BY <1>1, <1>7 DEF At, TouchInv, TouchTypes
    <3> QED  BY <3>1 DEF Event, TouchType
  <2>3. touching[v] # None => server'[queue[i].source] = touching[v]
    BY <1>4, <2>1, <2>2 DEF BegunInv
  <2> QED  BY <1>1, <1>6, <2>1, <2>3 DEF BegunInv
<1>8. ASSUME NEW v \in recorded PROVE RecordedInv(v)'
  <2>1. RecordedInv(v) /\ v \in Touches
    BY DEF TouchInv, TouchTypes
  <2> QED  BY <1>1, <1>4, <1>6, <2>1 DEF RecordedInv
<1> QED  BY <1>1, <1>5, <1>7, <1>8 DEF TouchInv

LEMMA ServerKeeps == TouchInv /\ IInv /\ ServerStep => TouchInv'
<1>1. \A d : IdsOf(d) \subseteq Ids /\ \A id \in IdsOf(d) : server[id] = d
  BY DEF IdsOf
<1> QED
  BY <1>1, MouseKeeps, KeyboardKeeps, UpdateTouchKeeps, BeginTouchKeeps, EndTouchKeeps, PlugKeeps
     DEF ServerStep

-----------------------------------------------------------------------------
(***************************************************************************)
(* The transformer.                                                        *)
(***************************************************************************)

(* A refresh forgets no device, and fills the maps for those it has seen. *)
LEMMA RefreshKeeps == TouchInv /\ IInv /\ RefreshDevices => TouchInv'
<1> SUFFICES ASSUME TouchInv, IInv, RefreshDevices PROVE TouchInv'
  OBVIOUS
<1> DEFINE types == [i \in Ids |-> Type(listed[i])]
<1>1. /\ devices' = Emplace(devices, types)
      /\ button_map' \subseteq button_map \cup Refreshed
      /\ valuator_x' = valuator_x \cup {i \in Refreshed : HasPointer(i)}
      /\ scroll_map' = scroll_map \cup {i \in Refreshed : server[i] \in Mice}
      /\ UNCHANGED <<server, plugged, touching, touches, selected, queue, recorded>>
  BY DEF RefreshDevices, RefreshedTypes, serverVars
<1>2. pc' \in {"list", "query", "select", "next", "threw"}
  BY DEF RefreshDevices
<1>3. \A d : Type(d) # None
  BY XEventTransformerAssumption DEF Type
<1>4. \A i \in Refreshed : i \in Ids /\ types[i] # None
  BY <1>3 DEF Refreshed, Found
<1> HIDE DEF types
<1>5. \A i \in Ids : /\ devices[i] # None => devices'[i] # None
                     /\ i \in Refreshed => devices'[i] # None
  BY <1>1, <1>4, EmplaceAt
<1>6. TouchTypes'
  <2>1. (button_map \cup scroll_map \cup valuator_x)' \subseteq {i \in Ids : devices[i] # None} \cup Refreshed
    BY <1>1 DEF TouchInv, TouchTypes
  <2>2. (button_map \cup scroll_map \cup valuator_x)' \subseteq {i \in Ids : devices'[i] # None}
    BY <1>4, <1>5, <2>1
  <2> QED  BY <1>1, <1>2, <2>2 DEF TouchInv, TouchTypes
<1>7. ServerInv' /\ NotSelected' /\ Counted'
  BY <1>1 DEF TouchInv, ServerInv, NotSelected, Counted
<1>8. \A i, type, v : At(i, type, v)' <=> At(i, type, v)
  BY <1>1 DEF At
<1>9. \A v \in Touches : \A i \in 1..Len(queue) : BegunInv(v, i)' <=> BegunInv(v, i)
  BY <1>1, <1>8 DEF BegunInv
<1>10. ASSUME NEW v \in recorded PROVE RecordedInv(v)'
  <2>1. RecordedInv(v)
    BY DEF TouchInv
  <2>2. ASSUME NEW j \in 1..Len(queue), At(j, "RawTouchEnd", v) PROVE queue[j].source \in Ids
    <3>1. queue[j] \in Event /\ queue[j].type = "RawTouchEnd"
      BY <2>2 DEF At, TouchInv, TouchTypes
    <3> QED  BY <3>1 DEF Event, TouchType
  <2> QED  BY <1>1, <1>5, <1>8, <2>1, <2>2 DEF RecordedInv
<1> QED  BY <1>1, <1>6, <1>7, <1>8, <1>9, <1>10 DEF TouchInv

(* Listing and selecting. *)
LEMMA StartKeeps == TouchInv /\ IInv /\ (ListInputDevices \/ SelectEvents \/ UNCHANGED vars) => TouchInv'
<1> SUFFICES ASSUME TouchInv, ListInputDevices \/ SelectEvents \/ UNCHANGED vars PROVE TouchInv'
  OBVIOUS
<1>1. /\ UNCHANGED <<server, plugged, touching, touches, queue, recorded, devices>>
      /\ UNCHANGED <<button_map, scroll_map, valuator_x>>
      /\ selected' \in BOOLEAN /\ (selected => selected')
      /\ pc' \in {"list", "query", "select", "next", "threw"}
  BY DEF ListInputDevices, SelectEvents, vars, serverVars, cacheVars, TouchInv, TouchTypes
<1>2. TouchTypes' /\ ServerInv' /\ NotSelected' /\ Counted'
  BY <1>1 DEF TouchInv, TouchTypes, ServerInv, NotSelected, Counted
<1>3. \A v \in Touches : \A i \in 1..Len(queue) :
         (At(i, "RawTouchBegin", v)' <=> At(i, "RawTouchBegin", v)) /\ (BegunInv(v, i)' <=> BegunInv(v, i))
  BY <1>1 DEF At, BegunInv
<1>4. \A v \in recorded : RecordedInv(v)' <=> RecordedInv(v)
  BY <1>1 DEF At, RecordedInv
<1> QED  BY <1>1, <1>2, <1>3, <1>4 DEF TouchInv

(* What reading an event may do to the touches that are recorded: one is added
   when its beginning is read of a device that is known, and the end of one, read
   of a device that is known, takes it away. *)
Recording(e) ==
    /\ \A t \in recorded' :
          t \in recorded \/ (e.type = "RawTouchBegin" /\ e.detail = t /\ HasDevice(e.source))
    /\ e.type = "RawTouchEnd" /\ HasDevice(e.source) => e.detail \notin recorded'

LEMMA ReadKeeps ==
    ASSUME TouchInv, IInv, NextEvent, Recording(Head(queue)), UNCHANGED <<serverVars, cacheVars>>,
           pc' \in {"next", "list", "threw"}
    PROVE  TouchInv'
<1> DEFINE e == Head(queue)
<1>1. /\ queue \in Seq(Event) /\ queue # << >> /\ queue' = Tail(queue)
      /\ UNCHANGED <<server, plugged, touching, touches, selected, devices>>
      /\ UNCHANGED <<button_map, scroll_map, valuator_x>>
  BY DEF TouchInv, TouchTypes, NextEvent, serverVars, cacheVars
<1>2. /\ queue' \in Seq(Event) /\ Len(queue) \in Nat /\ Len(queue') \in Nat
      /\ Len(queue') = Len(queue) - 1 /\ Len(queue) > 0
      /\ e = queue[1] /\ e \in Event /\ 1 \in 1..Len(queue)
      /\ \A i \in 1..Len(queue') : i + 1 \in 1..Len(queue) /\ queue'[i] = queue[i + 1]
  BY <1>1
<1> HIDE DEF e
<1>3. \A i \in 1..Len(queue) : i # 1 => i - 1 \in 1..Len(queue') /\ queue'[i - 1] = queue[i]
  <2> SUFFICES ASSUME NEW i \in 1..Len(queue), i # 1
               PROVE  i - 1 \in 1..Len(queue') /\ queue'[i - 1] = queue[i]
    OBVIOUS
  <2>1. i - 1 \in 1..Len(queue') /\ (i - 1) + 1 = i
    BY <1>2
  <2> QED  BY <1>2, <2>1
<1>4. ASSUME NEW i \in 1..Len(queue'), NEW type, NEW t
      PROVE  At(i, type, t)' <=> At(i + 1, type, t)
  BY <1>2 DEF At
<1>5. e.type \in TouchType => e.source \in Ids /\ e.detail \in Touches
  BY <1>2 DEF Event, RawType, EventType, TouchType
<1>6. \A t \in recorded' :
         t \in recorded \/ (e.type = "RawTouchBegin" /\ e.detail = t /\ devices[e.source] # None)
  BY DEF Recording, HasDevice, e
<1>7. e.type = "RawTouchEnd" /\ devices[e.source] # None => e.detail \notin recorded'
  BY DEF Recording, HasDevice, e
<1>8. TouchTypes' /\ ServerInv' /\ NotSelected' /\ Counted'
  <2>1. recorded' \subseteq Touches
    BY <1>5, <1>6 DEF TouchInv, TouchTypes, TouchType
  <2>2. TouchTypes' /\ ServerInv'
    BY <1>1, <1>2, <2>1 DEF TouchInv, TouchTypes, ServerInv
  <2>3. selected
    BY <1>1 DEF TouchInv, NotSelected
  <2>4. ASSUME NEW t \in recorded' PROVE t <= touches
    <3>1. CASE t \in recorded
      BY <3>1 DEF TouchInv, Counted
    <3>2. CASE e.type = "RawTouchBegin" /\ e.detail = t
      BY <1>2, <3>2 DEF TouchInv, Counted, Bound
    <3> QED  BY <1>6, <3>1, <3>2
  <2>5. Counted'
    BY <1>1, <1>2, <2>4 DEF TouchInv, Counted
  <2> QED  BY <1>1, <2>2, <2>3, <2>5 DEF NotSelected
(* An event of a touch that has begun follows its beginning, which stays ahead of it. *)
<1>9. ASSUME NEW v \in Touches, NEW i \in 1..Len(queue'), At(i, "RawTouchBegin", v)'
      PROVE  BegunInv(v, i)'
  <2>1. i + 1 \in 1..Len(queue) /\ queue'[i] = queue[i + 1] /\ BegunInv(v, i + 1)
    BY <1>2, <1>4, <1>9 DEF TouchInv
  <2>2. ASSUME NEW j \in 1..Len(queue), j > i + 1, At(j, "RawTouchEnd", v)
        PROVE  \E k \in 1..Len(queue') : k > i /\ At(k, "RawTouchEnd", v)'
    <3>1. j # 1 /\ j - 1 > i /\ (j - 1) + 1 = j
      BY <2>2
    <3>2. j - 1 \in 1..Len(queue')
      BY <1>3, <3>1
    <3> QED  BY <1>4, <2>2, <3>1, <3>2
  <2>3. \A j \in 1..Len(queue') : At(j, "RawTouchEnd", v)' => queue'[j].source = queue'[i].source
    BY <1>2, <1>4, <2>1 DEF BegunInv
  <2> QED  BY <1>1, <2>1, <2>2, <2>3 DEF BegunInv
<1>10. ASSUME NEW t \in recorded' PROVE RecordedInv(t)'
  <2>1. t \in recorded' /\ t \in Touches
    BY <1>8 DEF TouchTypes
  <2>2. CASE e.type = "RawTouchBegin" /\ e.detail = t /\ devices[e.source] # None
    <3>1. At(1, "RawTouchBegin", t)
      BY <1>2, <2>2 DEF At
    <3>2. BegunInv(t, 1)
      BY <1>2, <2>1, <3>1 DEF TouchInv
    <3>3. ASSUME NEW j \in 1..Len(queue), j > 1, At(j, "RawTouchEnd", t)
          PROVE  \E k \in 1..Len(queue') : At(k, "RawTouchEnd", t)'
      <4>1. j # 1 /\ (j - 1) + 1 = j
        BY <3>3
      <4>2. j - 1 \in 1..Len(queue')
        BY <1>3, <4>1
      <4> QED  BY <1>4, <3>3, <4>1, <4>2
    <3>4. touching[t] # None \/ \E k \in 1..Len(queue') : At(k, "RawTouchEnd", t)'
      BY <3>2, <3>3 DEF BegunInv
    <3>5. \A i \in Ids : touching[t] # None /\ server[i] = touching[t] => devices[i] # None
      <4>1. touching[t] # None => server[e.source] = touching[t]
        BY <1>2, <3>2 DEF BegunInv
      <4>2. e.source \in Ids
        BY <1>5, <2>2 DEF TouchType
      <4> QED  BY <2>2, <4>1, <4>2 DEF TouchInv, ServerInv
    <3>6. \A j \in 1..Len(queue') : At(j, "RawTouchEnd", t)' => devices[queue'[j].source] # None
      <4>1. \A j \in 1..Len(queue) : At(j, "RawTouchEnd", t) => queue[j].source = e.source
        BY <1>2, <3>2 DEF BegunInv
      <4> QED  BY <1>2, <1>4, <2>2, <4>1
    <3> QED  BY <1>1, <3>4, <3>5, <3>6 DEF RecordedInv
  <2>3. CASE t \in recorded
    <3>1. RecordedInv(t)
      BY <2>3 DEF TouchInv
    <3>2. ~At(1, "RawTouchEnd", t)
      BY <1>2, <1>7, <2>1, <3>1 DEF At, RecordedInv
    <3>3. ASSUME NEW j \in 1..Len(queue), At(j, "RawTouchEnd", t)
          PROVE  \E k \in 1..Len(queue') : At(k, "RawTouchEnd", t)'
      <4>1. j # 1 /\ (j - 1) + 1 = j
        BY <3>2, <3>3
      <4>2. j - 1 \in 1..Len(queue')
        BY <1>3, <4>1
      <4> QED  BY <1>4, <3>3, <4>1, <4>2
    <3>4. \A j \in 1..Len(queue') : At(j, "RawTouchEnd", t)' => devices[queue'[j].source] # None
      BY <1>2, <1>4, <3>1 DEF RecordedInv
    <3> QED  BY <1>1, <3>1, <3>3, <3>4 DEF RecordedInv
  <2> QED  BY <1>6, <2>2, <2>3
<1> QED  BY <1>8, <1>9, <1>10 DEF TouchInv

(* A touch of a known device is recorded, of an unknown one it is not. *)
LEMMA TouchRecorded ==
    ASSUME NEW e, e.type \in {"RawTouchBegin", "RawTouchEnd"}
    PROVE  SwitchOnEvent(e) # << >> <=> HasDevice(e.source)
<1>1. SwitchOnEvent(e) = TouchMotion(e) \o TouchButton(e, IF e.type = "RawTouchBegin" THEN "press" ELSE "release")
  BY DEF SwitchOnEvent
<1>2. CASE HasDevice(e.source)
  <2>1. \A a, b : <<a>> \o <<b>> # << >>
    OBVIOUS
  <2> QED  BY <1>1, <1>2, <2>1 DEF TouchMotion, TouchButton
<1>3. CASE ~HasDevice(e.source)
  <2>1. << >> \o << >> = << >>
    OBVIOUS
  <2> QED  BY <1>1, <1>3, <2>1 DEF TouchMotion, TouchButton
<1> QED  BY <1>2, <1>3

LEMMA TransformKeeps ==
    ASSUME TouchInv, IInv, TransformDeviceChanged \/ TransformThrows \/ TransformRaw
    PROVE  TouchInv'
<1> DEFINE e == Head(queue)
<1>1. NextEvent /\ event' = e /\ pc = "next"
  BY DEF TransformDeviceChanged, TransformThrows, TransformRaw, NextEvent
<1> HIDE DEF e
<1>2. UNCHANGED <<serverVars, cacheVars>> /\ pc' \in {"next", "list", "threw"}
  BY <1>1 DEF TransformDeviceChanged, TransformThrows, TransformRaw
<1>3. Recording(e)
  <2>1. CASE TransformDeviceChanged \/ TransformThrows
    BY <1>1, <2>1 DEF TransformDeviceChanged, TransformThrows, ButtonThrows, Recording
  <2>2. CASE TransformRaw
    <3>1. /\ data' = SwitchOnEvent(e)
          /\ recorded' = CASE e.type = "RawTouchBegin" /\ data' # << >> -> recorded \cup {e.detail}
                           [] e.type = "RawTouchEnd" /\ data' # << >>   -> recorded \ {e.detail}
                           [] OTHER                                      -> recorded
      BY <1>1, <2>2 DEF TransformRaw
    <3>2. CASE e.type = "RawTouchBegin"
      BY <3>1, <3>2, TouchRecorded DEF Recording
    <3>3. CASE e.type = "RawTouchEnd"
      BY <3>1, <3>3, TouchRecorded DEF Recording
    <3>4. CASE e.type \notin {"RawTouchBegin", "RawTouchEnd"}
      BY <3>1, <3>4 DEF Recording
    <3> QED  BY <3>2, <3>3, <3>4
  <2> QED  BY <2>1, <2>2
<1> QED  BY <1>1, <1>2, <1>3, ReadKeeps DEF e

LEMMA XInvariant == Spec => [](IInv /\ TouchInv)
<1>1. IInv /\ TouchInv /\ [Next]_vars => IInv' /\ TouchInv'
  BY RefreshIInv, ServerIInv, TransformIInv, ServerKeeps, RefreshKeeps, StartKeeps, TransformKeeps
     DEF Next
<1> QED  BY <1>1, InitIInv, InitTouchInv, PTL DEF Spec

(* Every variable has its type, and an id that is in one of the maps of devices is
   in all that at() is asked for, for any ids and devices. *)
THEOREM XEventTransformerTypeOK == Spec => []TypeOK
<1>1. IInv /\ TouchInv => TypeOK
  <2> SUFFICES ASSUME IInv, TouchInv PROVE TypeOK
    OBVIOUS
  <2>1. DOMAIN queue = 1..Len(queue) /\ \A i \in 1..Len(queue) : queue[i] \in Event
    BY DEF TouchInv, TouchTypes
  <2>2. \A i \in DOMAIN queue : queue[i].type \in EventType /\ queue[i].source \in Ids \cup {0}
    BY <2>1 DEF Event, EventRecord
  <2> QED  BY <2>2 DEF TypeOK, IInv, KnownTogether, TouchInv, TouchTypes
<1> QED  BY <1>1, XInvariant, PTL

(* A touch that was recorded as begun is recorded as ended by the time its end has
   been read, however the device's id, its removal and refreshes fall between. *)
THEOREM RecordedTouchesEndAlways == Spec => []RecordedTouchesEnd
<1>1. IInv /\ TouchInv => RecordedTouchesEnd
  <2> SUFFICES ASSUME TouchInv PROVE RecordedTouchesEnd
    OBVIOUS
  <2>1. DOMAIN queue = 1..Len(queue)
    BY DEF TouchInv, TouchTypes
  <2> QED  BY <2>1 DEF RecordedTouchesEnd, TouchInv, RecordedInv, At
<1> QED  BY <1>1, XInvariant, PTL
-----------------------------------------------------------------------------
(***************************************************************************)
(* What the entries of an event say of their device.                       *)
(***************************************************************************)
Right(entry) == entry.device = IF entry.table = "key" THEN "keyboard" ELSE Type(entry.name)

KeyType == {"RawKeyPress", "RawKeyRelease"}

(* An entry takes type and name from the caches, or it is about a key. *)
LEMMA EntryRight ==
    ASSUME IInv, NEW e, e.source \in Ids, HasDevice(e.source),
           NEW table, NEW action, NEW amount, table = "key" <=> e.type \in KeyType
    PROVE  Right(Entry(table, e, action, amount))
<1>1. devices[e.source] = Type(id_to_name[e.source])
  BY DEF IInv, KnownTogether, NameMatchesType, HasDevice
<1> QED  BY <1>1 DEF Right, Entry, GetDevice, KeyType

(* Each half of what an event is recorded as has one entry at most. *)
Half(s) == s = << >> \/ \E entry : Right(entry) /\ s = <<entry>>

AllRight(s) == \A i \in DOMAIN s : Right(s[i])

LEMMA HalvesRight ==
    ASSUME NEW s, NEW t, Half(s), Half(t)
    PROVE  AllRight(s) /\ AllRight(s \o t)
<1>1. PICK S : S = {entry \in {s[1], t[1]} : Right(entry)}
  OBVIOUS
<1>2. s \in Seq(S) /\ t \in Seq(S)
  <2>1. \A r : r = << >> => r \in Seq(S)
    OBVIOUS
  <2>2. \A entry : <<entry>>[1] = entry /\ (entry \in S => <<entry>> \in Seq(S))
    OBVIOUS
  <2> QED  BY <1>1, <2>1, <2>2 DEF Half
<1>3. \A r \in Seq(S) : AllRight(r)
  <2> SUFFICES ASSUME NEW r \in Seq(S), NEW i \in DOMAIN r PROVE Right(r[i])
    BY DEF AllRight
  <2>1. r[i] \in S
    OBVIOUS
  <2> QED  BY <1>1, <2>1
<1>4. s \o t \in Seq(S)
  BY <1>2
<1> QED  BY <1>2, <1>3, <1>4

LEMMA EventRight ==
    ASSUME IInv, NEW e \in Event, e.type # "DeviceChanged"
    PROVE  AllRight(SwitchOnEvent(e))
<1>1. e.source \in Ids /\ e.type \in RawType
  BY DEF Event
<1>2. ASSUME e.type \notin KeyType
      PROVE  /\ Half(MotionEvent(e)) /\ Half(ScrollEvent(e)) /\ Half(TouchMotion(e))
             /\ \A action : Half(ButtonEvent(e, action)) /\ Half(TouchButton(e, action))
  <2>1. \A table \in {"move", "scroll", "click"} : \A action, amount :
           HasDevice(e.source) => Right(Entry(table, e, action, amount))
    BY <1>1, <1>2, EntryRight
  <2> QED  BY <2>1 DEF Half, MotionEvent, ScrollEvent, ButtonEvent, TouchMotion, TouchButton, Records
<1>3. e.type \in KeyType => Half(KeyEvent(e))
  BY <1>1, EntryRight DEF Half, KeyEvent
<1>4. CASE e.type \in KeyType
  BY <1>3, <1>4, HalvesRight DEF SwitchOnEvent, KeyType
<1>5. CASE e.type = "RawMotion"
  BY <1>2, <1>5, HalvesRight DEF SwitchOnEvent, KeyType
<1>6. CASE e.type \in {"RawButtonPress", "RawButtonRelease"}
  BY <1>2, <1>6, HalvesRight DEF SwitchOnEvent, KeyType
<1>7. CASE e.type \in TouchType
  BY <1>2, <1>7, HalvesRight DEF SwitchOnEvent, KeyType, TouchType
<1> QED  BY <1>1, <1>4, <1>5, <1>6, <1>7 DEF RawType, EventType, KeyType, TouchType

(* Only an event that is transformed makes entries. *)
EntriesRight == AllRight(data)

LEMMA EntriesStayRight ==
    IInv /\ TouchInv /\ EntriesRight /\ [Next]_vars => EntriesRight'
<1> SUFFICES ASSUME IInv, TouchInv, AllRight(data), [Next]_vars PROVE AllRight(data')
  BY DEF EntriesRight
<1>1. ASSUME TransformDeviceChanged \/ TransformThrows PROVE AllRight(data')
  BY <1>1 DEF TransformDeviceChanged, TransformThrows, AllRight
<1>2. ASSUME TransformRaw PROVE AllRight(data')
  <2>1. queue \in Seq(Event) /\ queue # << >>
    BY <1>2 DEF TransformRaw, NextEvent, TouchInv, TouchTypes
  <2>2. Head(queue) \in Event
    BY <2>1
  <2> QED  BY <1>2, <2>2, EventRight DEF TransformRaw, NextEvent
<1>3. ASSUME ServerStep PROVE data' = data
  BY <1>3 DEF ServerStep, UseMouse, UseKeyboard, BeginTouch, UpdateTouch, EndTouch, Send, Plug, Unplug
<1>4. ASSUME ListInputDevices \/ RefreshDevices \/ SelectEvents \/ UNCHANGED vars PROVE data' = data
  BY <1>4 DEF ListInputDevices, RefreshDevices, SelectEvents, vars
<1> QED  BY <1>1, <1>2, <1>3, <1>4 DEF Next

(* Whatever devices an id has stood for, and whatever happens between the two
   requests of a refresh, an entry has the type of the device it names, or is of
   a key and has the type of a keyboard. *)
THEOREM TypeIsOfNamedDeviceAlways == Spec => []TypeIsOfNamedDevice
<1>1. Init => EntriesRight
  BY DEF Init, EntriesRight, AllRight
<1>2. EntriesRight => TypeIsOfNamedDevice
  BY DEF EntriesRight, AllRight, Right, TypeIsOfNamedDevice
<1> QED  BY <1>1, <1>2, EntriesStayRight, XInvariant, PTL DEF Spec
=============================================================================
