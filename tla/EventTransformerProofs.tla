----------------------- MODULE EventTransformerProofs -----------------------
(***************************************************************************)
(* Proofs about the libinput transformer, for any devices, addresses,      *)
(* slots, modifiers, positions and times.                                  *)
(***************************************************************************)
EXTENDS EventTransformer, FiniteSetTheorems, TLAPS

-----------------------------------------------------------------------------
(***************************************************************************)
(* Identities.                                                             *)
(***************************************************************************)

(* UUIDs are given out by counting, one to an address. *)
UuidsInv ==
    /\ IsFiniteSet(DOMAIN device_uuids)
    /\ device_uuids \in [DOMAIN device_uuids -> 1..Cardinality(DOMAIN device_uuids)]
    /\ \A a, b \in DOMAIN device_uuids : device_uuids[a] = device_uuids[b] => a = b

(* Devices that are plugged have an address each. *)
AddressInv ==
    /\ address \in [Devices -> Addresses \cup {None}]
    /\ None \notin DOMAIN device_uuids
    /\ Present \subseteq plugged
    /\ \A d, e \in Present : address[d] = address[e] => d = e

(* What has been recorded of a device: nothing before it is plugged, the UUID of
   its address while it is, and no second UUID when it is gone. *)
RecordedInv ==
    /\ recordedAs \in [Devices -> SUBSET Nat]
    /\ \A d \in Devices : \E u \in Nat : recordedAs[d] \subseteq {u}
    /\ \A d \in Devices \ plugged : recordedAs[d] = {}
    /\ \A d \in Present : \A u \in recordedAs[d] :
          address[d] \in DOMAIN device_uuids /\ device_uuids[address[d]] = u

IdentityInv == UuidsInv /\ AddressInv /\ RecordedInv

LEMMA InitIdentity == Init => IdentityInv
<1> SUFFICES ASSUME Init PROVE IdentityInv
  OBVIOUS
<1>1. DOMAIN device_uuids = {} /\ device_uuids = [a \in {} |-> 0]
  BY DEF Init
<1>2. UuidsInv
  BY <1>1, FS_EmptySet DEF UuidsInv
<1>3. Present = {}
  BY DEF Init, Present
<1>4. AddressInv
  BY <1>3 DEF Init, AddressInv
<1>5. RecordedInv
  BY <1>3 DEF Init, RecordedInv
<1> QED  BY <1>2, <1>4, <1>5 DEF IdentityInv

(* DeviceId::Uuid gives an address that it has not seen a UUID of its own, and
   changes no other. *)
LEMMA Remembered ==
    ASSUME UuidsInv, NEW d \in Devices, RememberUuid(d)
    PROVE  /\ UuidsInv'
           /\ Uuid(d) \in Nat
           /\ DOMAIN device_uuids' = DOMAIN device_uuids \cup {address[d]}
           /\ \A a \in DOMAIN device_uuids : device_uuids'[a] = device_uuids[a]
           /\ device_uuids'[address[d]] = Uuid(d)
           /\ address[d] \notin DOMAIN device_uuids =>
                 \A a \in DOMAIN device_uuids : device_uuids[a] # Uuid(d)
<1> DEFINE D == DOMAIN device_uuids  n == Cardinality(D)
<1>1. n \in Nat
  BY FS_CardinalityType DEF UuidsInv
<1>2. /\ DOMAIN device_uuids' = D \cup {address[d]}
      /\ device_uuids' = [k \in D \cup {address[d]} |-> IF k = address[d] THEN Uuid(d)
                                                                      ELSE device_uuids[k]]
  BY DEF RememberUuid, Set
<1>3. CASE address[d] \in D
  <2>1. Uuid(d) = device_uuids[address[d]] /\ D \cup {address[d]} = D
    BY <1>3 DEF Uuid
  <2>2. device_uuids' = device_uuids
    BY <1>2, <2>1 DEF UuidsInv
  <2> QED  BY <1>1, <1>2, <1>3, <2>1, <2>2 DEF UuidsInv
<1>4. CASE address[d] \notin D
  <2>1. Uuid(d) = n + 1
    BY <1>4 DEF Uuid
  <2>2. IsFiniteSet(D \cup {address[d]}) /\ Cardinality(D \cup {address[d]}) = n + 1
    BY <1>4, FS_AddElement DEF UuidsInv
  <2>3. \A a \in D : device_uuids[a] \in 1..n
    BY DEF UuidsInv
  <2>4. UuidsInv'
    <3>1. device_uuids' \in [DOMAIN device_uuids' -> 1..(n + 1)]
      BY <1>1, <1>2, <2>1, <2>3
    <3>2. \A a, b \in DOMAIN device_uuids' : device_uuids'[a] = device_uuids'[b] => a = b
      BY <1>1, <1>2, <2>1, <2>3 DEF UuidsInv
    <3> QED  BY <1>2, <2>2, <3>1, <3>2 DEF UuidsInv
  <2> QED  BY <1>1, <1>2, <1>4, <2>1, <2>3, <2>4
<1> QED  BY <1>3, <1>4

(* What a step does to addresses, UUIDs and what has been recorded. *)
Transforms(d) ==
    /\ d \in Present /\ RememberUuid(d)
    /\ UNCHANGED <<address, plugged>>
    /\ recordedAs' \in {recordedAs, [recordedAs EXCEPT ![d] = @ \cup {Uuid(d)}]}

LEMMA EventsTransform ==
    ASSUME IdentityInv, NEW d \in Devices, NEW time \in Times,
           PointerEvent(d, time) \/ TouchEvent(d, time) \/ KeyEvent(d, time) \/ Ignored(d)
    PROVE  Transforms(d)
<1> USE DEF Returns, Transforms
<1>1. CASE PointerEvent(d, time)
  BY <1>1 DEF PointerEvent, RelativeMove, MotionAbsolute, OneEntry, TabletToolTip
<1>2. CASE TouchEvent(d, time)
  BY <1>2 DEF TouchEvent, TouchDown, TouchMotion, TouchRelease
<1>3. CASE KeyEvent(d, time)
  BY <1>3 DEF KeyEvent, KeyboardKey
<1>4. CASE Ignored(d)
  BY <1>4 DEF Ignored, libinputVars, history
<1> QED  BY <1>1, <1>2, <1>3, <1>4

LEMMA TransformsKeepIdentity ==
    ASSUME IdentityInv, NEW d \in Devices, Transforms(d)
    PROVE  IdentityInv'
<1> USE DEF IdentityInv
<1>1. /\ UuidsInv' /\ Uuid(d) \in Nat
      /\ DOMAIN device_uuids' = DOMAIN device_uuids \cup {address[d]}
      /\ \A a \in DOMAIN device_uuids : device_uuids'[a] = device_uuids[a]
      /\ device_uuids'[address[d]] = Uuid(d)
  BY Remembered DEF Transforms
<1>2. Present' = Present /\ AddressInv'
  BY <1>1 DEF Transforms, Present, AddressInv
<1>3. \A u \in recordedAs[d] : u = Uuid(d)
  BY DEF RecordedInv, Transforms, Uuid
<1>4. recordedAs' \in [Devices -> SUBSET Nat]
  BY <1>1 DEF RecordedInv, Transforms
<1>5. \A e \in Devices : e # d => recordedAs'[e] = recordedAs[e]
  BY DEF RecordedInv, Transforms
<1>6. recordedAs'[d] \subseteq {Uuid(d)}
  BY <1>3 DEF RecordedInv, Transforms
<1>7. \A e \in Devices : \E u \in Nat : recordedAs'[e] \subseteq {u}
  BY <1>1, <1>5, <1>6 DEF RecordedInv
<1>8. \A e \in Devices \ plugged' : recordedAs'[e] = {}
  BY <1>5 DEF RecordedInv, AddressInv, Transforms
<1>9. \A e \in Present' : \A u \in recordedAs'[e] :
          address'[e] \in DOMAIN device_uuids' /\ device_uuids'[address'[e]] = u
  <2> SUFFICES ASSUME NEW e \in Present, NEW u \in recordedAs'[e]
               PROVE  address[e] \in DOMAIN device_uuids' /\ device_uuids'[address[e]] = u
    BY <1>2 DEF Transforms
  <2>1. CASE e = d
    BY <1>1, <1>6, <2>1
  <2>2. CASE e # d
    BY <1>1, <1>5, <2>2 DEF RecordedInv, Present
  <2> QED  BY <2>1, <2>2
<1> QED  BY <1>1, <1>2, <1>4, <1>7, <1>8, <1>9 DEF RecordedInv

LEMMA UnplugKeepsIdentity ==
    ASSUME IdentityInv, NEW d \in Devices, Unplug(d)
    PROVE  IdentityInv'
<1> USE DEF IdentityInv
<1>1. /\ UuidsInv'
      /\ DOMAIN device_uuids' = DOMAIN device_uuids \cup {address[d]}
      /\ \A a \in DOMAIN device_uuids : device_uuids'[a] = device_uuids[a]
  BY Remembered DEF Unplug
<1>2. address' = [address EXCEPT ![d] = None] /\ plugged' = plugged
  BY DEF Unplug
<1>3. Present' = Present \ {d} /\ \A e \in Present' : address'[e] = address[e]
  BY <1>2 DEF Present, AddressInv
<1>4. AddressInv'
  <2>1. address' \in [Devices -> Addresses \cup {None}]
    BY <1>2 DEF AddressInv
  <2> QED  BY <1>1, <1>2, <1>3, <2>1 DEF AddressInv, Unplug, Present
<1>5. UNCHANGED <<recordedAs, plugged>>
  BY DEF Unplug, history
<1>6. RecordedInv'
  BY <1>1, <1>3, <1>5 DEF RecordedInv
<1> QED  BY <1>1, <1>4, <1>6

LEMMA PlugKeepsIdentity ==
    ASSUME IdentityInv, NEW d \in Devices, NEW a \in Addresses, Plug(d, a)
    PROVE  IdentityInv'
<1> USE DEF IdentityInv
<1>1. UNCHANGED <<recordedAs, device_uuids>>
  BY DEF Plug, history
<1>2. Present' \subseteq Present \cup {d} /\ address'[d] = a
      /\ \A e \in Devices : e # d => address'[e] = address[e]
  BY DEF Plug, Present, AddressInv
<1>3. AddressInv'
  BY <1>1, <1>2 DEF Plug, AddressInv, Present
<1>4. recordedAs[d] = {}
  BY DEF Plug, RecordedInv
<1>5. RecordedInv'
  BY <1>1, <1>2, <1>4 DEF RecordedInv, Plug, Present
<1> QED  BY <1>1, <1>3, <1>5 DEF UuidsInv

LEMMA NextIdentity == IdentityInv /\ [Next]_vars => IdentityInv'
<1> SUFFICES ASSUME IdentityInv, [Next]_vars PROVE IdentityInv'
  OBVIOUS
<1>1. CASE UNCHANGED vars
  BY <1>1 DEF vars, libinputVars, history, IdentityInv, UuidsInv, AddressInv, RecordedInv, Present
<1>2. ASSUME NEW d \in Devices, Ignored(d) PROVE IdentityInv'
  <2>1. Transforms(d)
    BY <1>2 DEF Ignored, Transforms, libinputVars, history
  <2> QED  BY <2>1, TransformsKeepIdentity
<1> QED
  BY <1>1, <1>2, EventsTransform, TransformsKeepIdentity, UnplugKeepsIdentity, PlugKeepsIdentity
     DEF Next

(* A device keeps its UUID from its first entry to its last, and no two devices
   that are plugged at the same time share one, although the library uses the
   addresses of removed devices again. *)
THEOREM DeviceIdentitiesAlways == Spec => []DeviceIdentities
<1>1. ASSUME IdentityInv PROVE DeviceIdentities
  <2>1. ASSUME NEW d \in Devices PROVE Cardinality(recordedAs[d]) <= 1
    <3>1. PICK u : recordedAs[d] \subseteq {u}
      BY <1>1 DEF IdentityInv, RecordedInv
    <3>2. recordedAs[d] = {} \/ recordedAs[d] = {u}
      BY <3>1
    <3>3. Cardinality({}) = 0 /\ Cardinality({u}) = 1
      BY FS_EmptySet, FS_Singleton
    <3>4. CASE recordedAs[d] = {}
      BY <3>3, <3>4
    <3>5. CASE recordedAs[d] = {u}
      BY <3>3, <3>5
    <3> QED  BY <3>2, <3>4, <3>5
  <2>2. ASSUME NEW d \in Present, NEW e \in Present, d # e
        PROVE  recordedAs[d] \cap recordedAs[e] = {}
    BY <1>1, <2>2 DEF IdentityInv, RecordedInv, AddressInv, UuidsInv
  <2> QED  BY <2>1, <2>2 DEF DeviceIdentities
<1> QED  BY <1>1, InitIdentity, NextIdentity, PTL DEF Spec

-----------------------------------------------------------------------------
(***************************************************************************)
(* Modifiers.                                                              *)
(***************************************************************************)

(* Xkb counts the keyboards on which a key is down. *)
HeldInv ==
    /\ held \in [Devices -> SUBSET Modifiers]
    /\ xkb \in [Modifiers -> Nat]
    /\ \A m \in Modifiers : xkb[m] = Holding(m)

LockStates == {"off", "on", "ending"}

(* The xkb_state and the session go through the same turns, from the same state,
   or one turn apart; a lock is about to end only while its key is down. *)
LocksInv ==
    /\ lock \in [Locks -> LockStates] /\ session \in [Locks -> LockStates]
    /\ \A m \in Locks :
          /\ lock[m] = "ending" \/ session[m] = "ending" => Holding(m) > 0
          /\ m \notin startedOn => session[m] = lock[m]
          /\ m \in startedOn => \/ session[m] = "on" /\ lock[m] # "on"
                                \/ session[m] # "on" /\ lock[m] = "on"

KeysInv == HeldInv /\ LocksInv

LEMMA HoldingCounts ==
    ASSUME NEW m
    PROVE  /\ Holding(m) \in Nat
           /\ Holding(m) = 0 <=> \A d \in Devices : m \notin held[d]
<1>1. IsFiniteSet({d \in Devices : m \in held[d]})
  BY EventTransformerAssumption, FS_Subset DEF EventTransformerAssumption
<1> QED  BY <1>1, FS_CardinalityType, FS_EmptySet DEF Holding

LEMMA InitKeys == Init => KeysInv
<1> SUFFICES ASSUME Init PROVE KeysInv
  OBVIOUS
<1>1. \A m : Holding(m) = 0
  BY HoldingCounts DEF Init
<1>2. HeldInv
  BY <1>1 DEF Init, HeldInv
<1>3. LocksInv
  BY <1>1 DEF Init, LocksInv, LockStates
<1> QED  BY <1>2, <1>3 DEF KeysInv

(* A stroke counts for its own key only. *)
LEMMA StrokeHolding ==
    ASSUME HeldInv, NEW d \in Devices, NEW m \in Modifiers, NEW down \in BOOLEAN,
           KeyState(d, m, down)
    PROVE  /\ held' \in [Devices -> SUBSET Modifiers]
           /\ Holding(m)' = IF down THEN Holding(m) + 1 ELSE Holding(m) - 1
           /\ ~down => Holding(m) > 0
           /\ \A n \in Modifiers : n # m => Holding(n)' = Holding(n)
<1> DEFINE H(n) == {e \in Devices : n \in held[e]}
<1>1. /\ held' = [held EXCEPT ![d] = IF down THEN @ \cup {m} ELSE @ \ {m}]
      /\ down = (m \notin held[d])
  BY DEF KeyState
<1>2. held' \in [Devices -> SUBSET Modifiers]
  BY <1>1 DEF HeldInv
<1>3. \A n \in Modifiers : n # m => {e \in Devices : n \in held'[e]} = H(n)
  BY <1>1 DEF HeldInv
<1>4. IsFiniteSet(H(m)) /\ Cardinality(H(m)) \in Nat
  BY EventTransformerAssumption, FS_Subset, FS_CardinalityType DEF EventTransformerAssumption
<1>5. CASE down
  <2>1. {e \in Devices : m \in held'[e]} = H(m) \cup {d} /\ d \notin H(m)
    BY <1>1, <1>5 DEF HeldInv
  <2>2. Cardinality(H(m) \cup {d}) = Cardinality(H(m)) + 1
    BY <1>4, <2>1, FS_AddElement
  <2> QED  BY <1>2, <1>3, <1>5, <2>1, <2>2 DEF Holding
<1>6. CASE ~down
  <2>1. {e \in Devices : m \in held'[e]} = H(m) \ {d} /\ d \in H(m)
    BY <1>1, <1>6 DEF HeldInv
  <2>2. Cardinality(H(m) \ {d}) = Cardinality(H(m)) - 1
    BY <1>4, <2>1, FS_RemoveElement
  <2>3. Cardinality(H(m)) > 0
    BY <1>4, <2>1, FS_EmptySet
  <2> QED  BY <1>2, <1>3, <1>6, <2>1, <2>2, <2>3 DEF Holding
<1> QED  BY <1>5, <1>6

(* Both sides of a lock make the same turn, at the first press and at the last
   release: xkb counts what is held. *)
LEMMA StrokeKeepsKeys ==
    ASSUME KeysInv, NEW d \in Devices, NEW m \in Modifiers, NEW down \in BOOLEAN,
           KeyState(d, m, down), UpdateKeyState(m, down)
    PROVE  KeysInv'
<1> USE DEF KeysInv
<1>1. /\ held' \in [Devices -> SUBSET Modifiers]
      /\ Holding(m)' = IF down THEN Holding(m) + 1 ELSE Holding(m) - 1
      /\ ~down => Holding(m) > 0
      /\ \A n \in Modifiers : n # m => Holding(n)' = Holding(n)
  BY StrokeHolding
<1>2. \A n : Holding(n) \in Nat
  BY HoldingCounts
<1>3. xkb' = [xkb EXCEPT ![m] = IF down THEN @ + 1 ELSE @ - 1]
  BY DEF UpdateKeyState
<1>4. HeldInv'
  BY <1>1, <1>2, <1>3 DEF HeldInv
<1>5. /\ lock' = IF Turns(m, down, Holding(m))
                 THEN [lock EXCEPT ![m] = Turn(lock[m], down)] ELSE lock
      /\ session' = IF Turns(m, down, Holding(m))
                    THEN [session EXCEPT ![m] = Turn(session[m], down)] ELSE session
      /\ startedOn' = startedOn
  BY DEF KeyState, UpdateKeyState, UpdateLock, HeldInv
<1>6. \A state \in LockStates : Turn(state, down) =
          IF down THEN IF state = "off" THEN "on" ELSE IF state = "on" THEN "ending" ELSE state
                  ELSE IF state = "ending" THEN "off" ELSE state
  BY DEF Turn, LockStates
<1>7. Locks \subseteq Modifiers
  BY EventTransformerAssumption DEF EventTransformerAssumption
<1>8. CASE Turns(m, down, Holding(m))
  <2>1. m \in Locks /\ Holding(m) = IF down THEN 0 ELSE 1
    BY <1>8 DEF Turns
  <2>2. /\ \A n \in Locks : n # m => lock'[n] = lock[n] /\ session'[n] = session[n]
        /\ lock'[m] = Turn(lock[m], down) /\ session'[m] = Turn(session[m], down)
    BY <1>5, <1>8, <2>1 DEF LocksInv
  <2>3. lock[m] \in LockStates /\ session[m] \in LockStates
    BY <2>1 DEF LocksInv
  <2>4. Turn(lock[m], down) \in LockStates /\ Turn(session[m], down) \in LockStates
    BY <1>6, <2>3 DEF LockStates
  <2>5. lock' \in [Locks -> LockStates] /\ session' \in [Locks -> LockStates]
    BY <1>5, <1>8, <2>4 DEF LocksInv
  <2>6. /\ lock[m] = "ending" \/ session[m] = "ending" => Holding(m) > 0
        /\ m \notin startedOn => session[m] = lock[m]
        /\ m \in startedOn => \/ session[m] = "on" /\ lock[m] # "on"
                              \/ session[m] # "on" /\ lock[m] = "on"
    BY <2>1 DEF LocksInv
  <2>7. /\ lock'[m] = "ending" \/ session'[m] = "ending" => Holding(m)' > 0
        /\ m \notin startedOn => session'[m] = lock'[m]
        /\ m \in startedOn => \/ session'[m] = "on" /\ lock'[m] # "on"
                              \/ session'[m] # "on" /\ lock'[m] = "on"
    BY <1>1, <1>6, <2>1, <2>2, <2>3, <2>6 DEF LockStates
  <2>8. \A n \in Locks : n # m => Holding(n)' = Holding(n)
    BY <1>1, <1>7
  <2> QED  BY <1>4, <1>5, <2>2, <2>5, <2>7, <2>8 DEF LocksInv
<1>9. CASE ~Turns(m, down, Holding(m))
  <2>1. lock' = lock /\ session' = session /\ startedOn' = startedOn
    BY <1>5, <1>9
  <2>2. m \in Locks /\ Holding(m) > 0 => Holding(m)' > 0
    BY <1>1, <1>2, <1>9 DEF Turns
  <2>3. \A n \in Locks : Holding(n) > 0 => Holding(n)' > 0
    BY <1>1, <1>7, <2>2
  <2> QED  BY <1>4, <2>1, <2>3 DEF LocksInv
<1> QED  BY <1>8, <1>9

(* Only strokes change keys. *)
LEMMA NextKeys == KeysInv /\ [Next]_vars => KeysInv'
<1> SUFFICES ASSUME KeysInv, [Next]_vars PROVE KeysInv'
  OBVIOUS
<1>1. ASSUME UNCHANGED <<held, keyboard>> PROVE KeysInv'
  BY <1>1 DEF KeysInv, HeldInv, LocksInv, Holding, keyboard
<1>2. ASSUME NEW d \in Devices, NEW time \in Times, KeyEvent(d, time) PROVE KeysInv'
  BY <1>2, StrokeKeepsKeys DEF KeyEvent, KeyboardKey
<1>3. ASSUME NEW d \in Devices, NEW time \in Times, PointerEvent(d, time)
      PROVE  UNCHANGED <<held, keyboard>>
  BY <1>3 DEF PointerEvent, RelativeMove, MotionAbsolute, OneEntry, TabletToolTip
<1>4. ASSUME NEW d \in Devices, NEW time \in Times, TouchEvent(d, time)
      PROVE  UNCHANGED <<held, keyboard>>
  BY <1>4 DEF TouchEvent, TouchDown, TouchMotion, TouchRelease, Touches
<1>5. ASSUME NEW d \in Devices, Ignored(d) \/ Unplug(d) PROVE UNCHANGED <<held, keyboard>>
  BY <1>5 DEF Ignored, Unplug, libinputVars
<1>6. ASSUME NEW d \in Devices, NEW a \in Addresses, Plug(d, a)
      PROVE  UNCHANGED <<held, keyboard>>
  BY <1>6 DEF Plug
<1>7. ASSUME UNCHANGED vars PROVE UNCHANGED <<held, keyboard>>
  BY <1>7 DEF vars, libinputVars
<1> QED  BY <1>1, <1>2, <1>3, <1>4, <1>5, <1>6, <1>7 DEF Next

LEMMA ActiveIsInSession ==
    ASSUME KeysInv
    PROVE  ActiveModifiers = {m \in Locks : (session[m] = "on") # (m \in startedOn)}
                             \cup UNION {held[d] : d \in Devices}
<1> DEFINE turned == {m \in Locks : (session[m] = "on") # (m \in startedOn)}
           down   == UNION {held[d] : d \in Devices}
<1>1. down \subseteq Modifiers /\ \A m \in Modifiers : m \in down <=> xkb[m] > 0
  BY HoldingCounts DEF KeysInv, HeldInv
<1>2. Locks \subseteq Modifiers
  BY EventTransformerAssumption DEF EventTransformerAssumption
<1>3. \A m \in Locks : m \in turned => lock[m] # "off"
  BY DEF KeysInv, LocksInv
<1>4. \A m \in Locks : lock[m] # "off" => m \in turned \/ m \in down
  <2> SUFFICES ASSUME NEW m \in Locks, lock[m] # "off", m \notin down PROVE m \in turned
    OBVIOUS
  <2>1. lock[m] # "ending" /\ lock[m] \in LockStates
    BY <1>1, <1>2 DEF KeysInv, LocksInv, HeldInv
  <2> QED  BY <2>1 DEF KeysInv, LocksInv, LockStates
<1> QED  BY <1>1, <1>2, <1>3, <1>4 DEF ActiveModifiers

(* What SetBaseFields and SetModifierValues give the entries of an event: the
   identity of its device, the interval or none, and the modifiers before it. *)
Stamps(e, d, interval) ==
    /\ e.device_id = Uuid(d)
    /\ e.interval = interval
    /\ e.modifiers = ActiveModifiers

Stamped(d, time, entries) ==
    \A i \in DOMAIN entries :
        /\ i \in Nat \ {0}
        /\ Stamps(entries[i], d, IF i = 1 THEN Interval(Find(device_intervals, Uuid(d)), time)
                                          ELSE Interval(time, time))

Event(d, time) == PointerEvent(d, time) \/ TouchEvent(d, time) \/ KeyEvent(d, time)

LEMMA StampedEntries ==
    ASSUME NEW d, NEW time
    PROVE  /\ \A e : Stamps(e, d, Interval(Find(device_intervals, Uuid(d)), time))
                       => Stamped(d, time, <<e>>)
           /\ \A e, f : Stamps(e, d, Interval(Find(device_intervals, Uuid(d)), time))
                        /\ Stamps(f, d, Interval(time, time))
                       => Stamped(d, time, <<e, f>>)
<1> QED  BY DEF Stamped

LEMMA PointerStamps ==
    ASSUME NEW d \in Devices, NEW time \in Times, PointerEvent(d, time)
    PROVE  Stamped(d, time, data')
<1> DEFINE interval == Interval(Find(device_intervals, Uuid(d)), time)
<1>1. CASE RelativeMove(d, time)
  <2>1. data' = <<First("move", d, time)>>
    BY <1>1 DEF RelativeMove, Returns
  <2>2. Stamps(First("move", d, time), d, interval)
    BY DEF First, Entry, Stamps
  <2> QED  BY <2>1, <2>2, StampedEntries
<1>2. ASSUME NEW x \in Positions, MotionAbsolute(d, time, x) PROVE Stamped(d, time, data')
  <2> DEFINE move == First("absolute", d, time)
             e    == IF Find(previous_absolute, Uuid(d)) = None THEN move
                     ELSE [move EXCEPT !.position = x - Find(previous_absolute, Uuid(d))]
  <2>1. data' = <<e>>
    BY <1>2 DEF MotionAbsolute, Returns
  <2>2. Stamps(e, d, interval)
    BY DEF First, Entry, Stamps
  <2> HIDE DEF e
  <2> QED  BY <2>1, <2>2, StampedEntries
<1>3. ASSUME NEW table \in {"click", "scroll", "padKey"}, OneEntry(d, time, table, None)
      PROVE  Stamped(d, time, data')
  <2> DEFINE e == [First(table, d, time) EXCEPT !.action = None]
  <2>1. data' = <<e>>
    BY <1>3 DEF OneEntry, Returns
  <2>2. Stamps(e, d, interval)
    BY DEF First, Entry, Stamps
  <2> HIDE DEF e
  <2> QED  BY <2>1, <2>2, StampedEntries
<1>4. ASSUME NEW action \in {"press", "release"}, TabletToolTip(d, time, action)
      PROVE  Stamped(d, time, data')
  <2> DEFINE e == First("move", d, time)
             f == [Second("click", d, time) EXCEPT !.action = action]
  <2>1. data' = <<e, f>>
    BY <1>4 DEF TabletToolTip, Returns
  <2>2. Stamps(e, d, interval) /\ Stamps(f, d, Interval(time, time))
    BY DEF First, Second, Entry, Stamps
  <2> HIDE DEF e, f
  <2> QED  BY <2>1, <2>2, StampedEntries
<1> QED  BY <1>1, <1>2, <1>3, <1>4 DEF PointerEvent

LEMMA TouchStamps ==
    ASSUME NEW d \in Devices, NEW time \in Times, TouchEvent(d, time)
    PROVE  Stamped(d, time, data')
<1> DEFINE interval == Interval(Find(device_intervals, Uuid(d)), time)
<1> PICK s \in Slots : \/ \E x \in Positions : TouchDown(d, time, s, x) \/ TouchMotion(d, time, s, x)
                       \/ TouchRelease(d, time, s)
  BY DEF TouchEvent
<1>1. \A x : Stamps(TouchMove(d, time, s, x), d, interval)
  BY DEF TouchMove, First, Entry, Stamps
<1>2. \A action : Stamps(TouchClick(d, time, s, action), d, Interval(time, time))
  BY DEF TouchClick, Second, Entry, Stamps
<1>3. ASSUME NEW x \in Positions, TouchDown(d, time, s, x) PROVE Stamped(d, time, data')
  <2>1. data' = <<TouchMove(d, time, s, x), TouchClick(d, time, s, "press")>>
    BY <1>3 DEF TouchDown, Returns
  <2> QED  BY <1>1, <1>2, <2>1, StampedEntries
<1>4. ASSUME NEW x \in Positions, TouchMotion(d, time, s, x) PROVE Stamped(d, time, data')
  <2>1. data' = <<TouchMove(d, time, s, x)>>
    BY <1>4 DEF TouchMotion, Returns
  <2> QED  BY <1>1, <2>1, StampedEntries
<1>5. CASE TouchRelease(d, time, s)
  <2> DEFINE e == [First("move", d, time) EXCEPT !.touch_id = s]
  <2>1. data' = <<e, TouchClick(d, time, s, "release")>>
    BY <1>5 DEF TouchRelease, Returns
  <2>2. Stamps(e, d, interval)
    BY DEF First, Entry, Stamps
  <2> HIDE DEF e
  <2> QED  BY <1>2, <2>1, <2>2, StampedEntries
<1> QED  BY <1>3, <1>4, <1>5

LEMMA KeyStamps ==
    ASSUME NEW d \in Devices, NEW time \in Times, KeyEvent(d, time)
    PROVE  Stamped(d, time, data')
<1> PICK m \in Modifiers, down \in BOOLEAN : KeyboardKey(d, time, m, down)
  BY DEF KeyEvent
<1> DEFINE e == [First("key", d, time) EXCEPT !.action = IF down THEN "press" ELSE "release"]
<1>1. data' = <<e>>
  BY DEF KeyboardKey, Returns
<1>2. Stamps(e, d, Interval(Find(device_intervals, Uuid(d)), time))
  BY DEF First, Entry, Stamps
<1> HIDE DEF e
<1> QED  BY <1>1, <1>2, StampedEntries

(* A step transforms an event that is stamped, or has nothing to say. *)
LEMMA NextStamps ==
    Next => \/ \E d \in Devices, time \in Times : Event(d, time) /\ Stamped(d, time, data')
            \/ data' = << >>
<1> SUFFICES ASSUME Next
             PROVE  \/ \E d \in Devices, time \in Times : Event(d, time) /\ Stamped(d, time, data')
                    \/ data' = << >>
  OBVIOUS
<1>1. ASSUME NEW d \in Devices, Ignored(d) \/ Unplug(d) PROVE data' = << >>
  BY <1>1 DEF Ignored, Unplug
<1>2. ASSUME NEW d \in Devices, NEW a \in Addresses, Plug(d, a) PROVE data' = << >>
  BY <1>2 DEF Plug
<1>3. ASSUME NEW d \in Devices, NEW time \in Times, Event(d, time)
      PROVE  Stamped(d, time, data')
  BY <1>3, PointerStamps, TouchStamps, KeyStamps DEF Event
<1> QED  BY <1>1, <1>2, <1>3 DEF Next, Event

(* Every entry has the modifiers that are held on some keyboard, and the locks
   that the session has turned since evget started: the recorded state of a lock
   is wrong for ever if it was on then, and right for ever if it was off. *)
THEOREM ModifiersAlways == Spec => ModifiersAsInSession
<1>1. KeysInv /\ [Next]_vars =>
        [LET turned == {m \in Locks : (session[m] = "on") # (m \in startedOn)}
         IN  \A i \in DOMAIN data' :
               data'[i].modifiers = turned \cup UNION {held[d] : d \in Devices}]_vars
  BY ActiveIsInSession, NextStamps DEF Stamped, Stamps
<1> QED  BY <1>1, InitKeys, NextKeys, PTL DEF Spec, ModifiersAsInSession

-----------------------------------------------------------------------------
(***************************************************************************)
(* What is remembered under the UUID of a device.                          *)
(***************************************************************************)
Known(d) == address[d] \in DOMAIN device_uuids

(* Every event with entries goes through Returns. *)
LEMMA EventsReturn ==
    ASSUME NEW d \in Devices, NEW time \in Times, Event(d, time)
    PROVE  Returns(d, time, data')
<1>1. ASSUME NEW entries, Returns(d, time, entries) PROVE Returns(d, time, data')
  BY <1>1 DEF Returns
<1>2. CASE PointerEvent(d, time)
  BY <1>1, <1>2 DEF PointerEvent, RelativeMove, MotionAbsolute, OneEntry, TabletToolTip
<1>3. CASE TouchEvent(d, time)
  BY <1>1, <1>3 DEF TouchEvent, TouchDown, TouchMotion, TouchRelease
<1>4. CASE KeyEvent(d, time)
  BY <1>1, <1>4 DEF KeyEvent, KeyboardKey
<1> QED  BY <1>2, <1>3, <1>4 DEF Event

(* Uuid of one device is no other's, and what others were given stays. *)
LEMMA OwnUuid ==
    ASSUME IdentityInv, NEW d \in Present, RememberUuid(d), UNCHANGED address
    PROVE  /\ Present' = Present
           /\ Known(d)' /\ device_uuids'[address'[d]] = Uuid(d)
           /\ Known(d) => device_uuids[address[d]] = Uuid(d)
           /\ \A e \in Devices : Known(e) =>
                 Known(e)' /\ device_uuids'[address'[e]] = device_uuids[address[e]]
           /\ \A e \in Present : e # d /\ Known(e) => device_uuids[address[e]] # Uuid(d)
           /\ \A e \in Present : e # d => (Known(e)' <=> Known(e))
<1> USE DEF IdentityInv
<1>0. d \in Devices
  BY DEF Present
<1>1. /\ DOMAIN device_uuids' = DOMAIN device_uuids \cup {address[d]}
      /\ \A a \in DOMAIN device_uuids : device_uuids'[a] = device_uuids[a]
      /\ device_uuids'[address[d]] = Uuid(d)
      /\ address[d] \notin DOMAIN device_uuids =>
            \A a \in DOMAIN device_uuids : device_uuids[a] # Uuid(d)
  BY <1>0, Remembered
<1>2. Known(d) => device_uuids[address[d]] = Uuid(d)
  BY DEF Known, Uuid
<1>3. \A e \in Present : e # d => address[e] # address[d]
  BY DEF AddressInv
<1>4. ASSUME NEW e \in Present, e # d, Known(e) PROVE device_uuids[address[e]] # Uuid(d)
  BY <1>1, <1>2, <1>3, <1>4 DEF Known, UuidsInv
<1> QED  BY <1>1, <1>2, <1>3, <1>4 DEF Known, Present

(* The device of an entry is the one whose event is transformed. *)
LEMMA EntryDevice ==
    ASSUME IdentityInv, IdentityInv', NEW d \in Present, RememberUuid(d), UNCHANGED address,
           NEW e, e.device_id = Uuid(d)
    PROVE  DeviceOf(e) = d
<1> DEFINE Is(c) == address'[c] \in DOMAIN device_uuids' /\ device_uuids'[address'[c]] = e.device_id
<1>1. d \in Devices /\ Is(d)
  BY OwnUuid DEF Known, Present
<1>2. ASSUME NEW c \in Devices, Is(c) PROVE c = d
  <2>1. address'[c] = address'[d]
    BY <1>1, <1>2 DEF IdentityInv, UuidsInv
  <2>2. address'[c] # None
    BY <1>2 DEF IdentityInv, AddressInv
  <2>3. c \in Present' /\ d \in Present'
    BY <1>1, <2>1, <2>2 DEF Present
  <2> QED  BY <2>1, <2>3 DEF IdentityInv, AddressInv
<1> QED  BY <1>1, <1>2 DEF DeviceOf

-----------------------------------------------------------------------------
(***************************************************************************)
(* Intervals.                                                              *)
(***************************************************************************)

(* IntervalTracker has the time of the last entry of every plugged device. *)
IntervalsInv ==
    /\ \A u \in DOMAIN device_intervals : device_intervals[u] \in Nat
    /\ latest \in [Devices -> Nat \cup {None}]
    /\ \A d \in Devices : latest[d] # None => d \in plugged
    /\ \A d \in Present : latest[d] # None =>
          /\ Known(d)
          /\ device_uuids[address[d]] \in DOMAIN device_intervals
          /\ device_intervals[device_uuids[address[d]]] = latest[d]

LEMMA InitIntervals == Init => IntervalsInv
<1> SUFFICES ASSUME Init PROVE IntervalsInv
  OBVIOUS
<1>1. DOMAIN device_intervals = {} /\ latest = [d \in Devices |-> None]
  BY DEF Init
<1> QED  BY <1>1 DEF IntervalsInv, Present

LEMMA EventsKeepIntervals ==
    ASSUME IdentityInv, IntervalsInv, NEW d \in Devices, NEW time \in Times, Event(d, time)
    PROVE  IntervalsInv'
<1> USE DEF IntervalsInv
<1>1. /\ d \in Present /\ RememberUuid(d) /\ UNCHANGED <<address, plugged>>
      /\ device_intervals' = Set(device_intervals, Uuid(d), time)
      /\ latest' = [latest EXCEPT ![d] = time]
  BY EventsReturn DEF Returns
<1>2. /\ Present' = Present
      /\ Known(d)' /\ device_uuids'[address'[d]] = Uuid(d)
      /\ \A e \in Devices : Known(e) =>
            Known(e)' /\ device_uuids'[address'[e]] = device_uuids[address[e]]
      /\ \A e \in Present : e # d /\ Known(e) => device_uuids[address[e]] # Uuid(d)
  BY <1>1, OwnUuid
<1>3. time \in Nat
  BY EventTransformerAssumption DEF EventTransformerAssumption, Times
<1>4. /\ DOMAIN device_intervals' = DOMAIN device_intervals \cup {Uuid(d)}
      /\ device_intervals'[Uuid(d)] = time
      /\ \A u \in DOMAIN device_intervals : u # Uuid(d) => device_intervals'[u] = device_intervals[u]
  BY <1>1 DEF Set
<1>5. latest'[d] = time /\ \A e \in Devices : e # d => latest'[e] = latest[e]
  BY <1>1
<1>6. latest' \in [Devices -> Nat \cup {None}]
  BY <1>1, <1>3
<1>7. \A u \in DOMAIN device_intervals' : device_intervals'[u] \in Nat
  BY <1>3, <1>4
<1>8. d \in plugged
  BY <1>1 DEF IdentityInv, AddressInv
<1>9. ASSUME NEW e \in Present', latest'[e] # None
      PROVE  /\ Known(e)'
             /\ device_uuids'[address'[e]] \in DOMAIN device_intervals'
             /\ device_intervals'[device_uuids'[address'[e]]] = latest'[e]
  <2>1. CASE e = d
    BY <1>2, <1>4, <1>5, <2>1
  <2>2. CASE e # d
    <3>1. e \in Present /\ e \in Devices /\ latest[e] # None /\ latest'[e] = latest[e]
      BY <1>2, <1>5, <1>9, <2>2 DEF Present
    <3> QED  BY <1>2, <1>4, <2>2, <3>1
  <2> QED  BY <2>1, <2>2
<1> QED  BY <1>1, <1>5, <1>6, <1>7, <1>8, <1>9

LEMMA NextIntervals == IdentityInv /\ IntervalsInv /\ [Next]_vars => IntervalsInv'
<1> SUFFICES ASSUME IdentityInv, IntervalsInv, [Next]_vars PROVE IntervalsInv'
  OBVIOUS
<1> USE DEF IntervalsInv
<1>1. ASSUME UNCHANGED vars PROVE IntervalsInv'
  BY <1>1 DEF vars, libinputVars, history, Present, Known
<1>2. ASSUME NEW d \in Devices, Ignored(d) PROVE IntervalsInv'
  <2>1. d \in Present /\ RememberUuid(d) /\ UNCHANGED <<address, plugged, device_intervals, latest>>
    BY <1>2 DEF Ignored, libinputVars, history
  <2>2. /\ Present' = Present
        /\ \A e \in Devices : Known(e) =>
              Known(e)' /\ device_uuids'[address'[e]] = device_uuids[address[e]]
    BY <2>1, OwnUuid
  <2> QED  BY <2>1, <2>2 DEF Present
<1>3. ASSUME NEW d \in Devices, Unplug(d) PROVE IntervalsInv'
  <2>1. /\ d \in Present /\ RememberUuid(d) /\ UNCHANGED <<plugged, device_intervals, latest>>
        /\ address' = [address EXCEPT ![d] = None]
    BY <1>3 DEF Unplug, history
  <2>2. /\ DOMAIN device_uuids \subseteq DOMAIN device_uuids'
        /\ \A a \in DOMAIN device_uuids : device_uuids'[a] = device_uuids[a]
    BY <2>1, Remembered DEF IdentityInv
  <2>3. Present' \subseteq Present /\ \A e \in Present' : address'[e] = address[e]
    BY <2>1 DEF Present, IdentityInv, AddressInv
  <2> QED  BY <2>1, <2>2, <2>3 DEF Known
<1>4. ASSUME NEW d \in Devices, NEW a \in Addresses, Plug(d, a) PROVE IntervalsInv'
  <2>1. /\ d \notin plugged /\ plugged' = plugged \cup {d}
        /\ address' = [address EXCEPT ![d] = a]
        /\ UNCHANGED <<device_uuids, device_intervals, latest>>
    BY <1>4 DEF Plug, history
  <2>2. Present' \subseteq Present \cup {d} /\ \A e \in Devices : e # d => address'[e] = address[e]
    BY <2>1 DEF Present, IdentityInv, AddressInv
  <2>3. latest[d] = None
    BY <2>1
  <2> QED  BY <2>1, <2>2, <2>3 DEF Known, Present
<1> QED  BY <1>1, <1>2, <1>3, <1>4, EventsKeepIntervals DEF Next, Event

(* The first entry of an event has the time since the last event of its device,
   unless libinput's time went back; a second one has 0. *)
LEMMA StampedIntervals ==
    ASSUME IdentityInv, IdentityInv', IntervalsInv, NEW d \in Devices, NEW time \in Times,
           Event(d, time), Stamped(d, time, data'), NEW i \in DOMAIN data'
    PROVE  /\ data'[i].interval # None => data'[i].interval >= 0
           /\ i > 1 => data'[i].interval = 0
           /\ i = 1 /\ latest[DeviceOf(data'[i])] # None
                    /\ latest'[DeviceOf(data'[i])] >= latest[DeviceOf(data'[i])]
                 => data'[i].interval = latest'[DeviceOf(data'[i])] - latest[DeviceOf(data'[i])]
<1>1. d \in Present /\ RememberUuid(d) /\ UNCHANGED address /\ latest'[d] = time
  BY EventsReturn DEF Returns, IntervalsInv
<1>2. /\ i \in Nat \ {0}
      /\ data'[i].device_id = Uuid(d)
      /\ data'[i].interval = IF i = 1 THEN Interval(Find(device_intervals, Uuid(d)), time)
                                      ELSE Interval(time, time)
  BY DEF Stamped, Stamps
<1>3. DeviceOf(data'[i]) = d
  BY <1>1, <1>2, EntryDevice
<1>4. time \in Nat /\ None \notin Int
  BY EventTransformerAssumption DEF EventTransformerAssumption, Times
<1> DEFINE p == Find(device_intervals, Uuid(d))
<1>5. p = None \/ p \in Nat
  BY DEF Find, IntervalsInv
<1>6. latest[d] # None => p = latest[d]
  BY <1>1, OwnUuid DEF Find, IntervalsInv
<1>7. Interval(time, time) = 0
  BY <1>4 DEF Interval
<1>8. Interval(p, time) # None => Interval(p, time) >= 0
  BY <1>4, <1>5 DEF Interval
<1>9. p # None /\ time >= p => Interval(p, time) = time - p
  BY <1>4, <1>5 DEF Interval
<1> HIDE DEF p
<1> QED  BY <1>1, <1>2, <1>3, <1>6, <1>7, <1>8, <1>9 DEF p

(* The intervals of one event's entries add up to the time since the last event
   of its device, whatever has been plugged and unplugged, and none is negative
   when the times go back. *)
THEOREM IntervalsAlways == Spec => IntervalsAddUp
<1>1. IdentityInv /\ IdentityInv' /\ IntervalsInv /\ [Next]_vars =>
        [\A i \in DOMAIN data' :
           LET e == data'[i]  d == DeviceOf(e)
           IN  /\ e.interval # None => e.interval >= 0
               /\ i > 1 => e.interval = 0
               /\ i = 1 /\ latest[d] # None /\ latest'[d] >= latest[d]
                      => e.interval = latest'[d] - latest[d]]_vars
  BY StampedIntervals, NextStamps
<1> QED
  BY <1>1, InitIdentity, NextIdentity, InitIntervals, NextIntervals, PTL DEF Spec, IntervalsAddUp

-----------------------------------------------------------------------------
(***************************************************************************)
(* Relative moves.                                                         *)
(***************************************************************************)

(* previous_absolute has the last position of every plugged device that
   reported one. *)
AbsoluteInv ==
    /\ \A u \in DOMAIN previous_absolute : previous_absolute[u] \in Int
    /\ absolute \in [Devices -> Int \cup {None}]
    /\ \A d \in Devices : absolute[d] # None => d \in plugged
    /\ \A d \in Present : absolute[d] # None =>
          /\ Known(d)
          /\ device_uuids[address[d]] \in DOMAIN previous_absolute
          /\ previous_absolute[device_uuids[address[d]]] = absolute[d]

(* previous_touch has the position of every touch, and of nothing else. *)
TouchInv ==
    /\ touch \in [Devices -> [Slots -> Int \cup {None}]]
    /\ \A d \in Devices, s \in Slots : touch[d][s] # None =>
          /\ d \in Present /\ Known(d)
          /\ <<device_uuids[address[d]], s>> \in DOMAIN previous_touch
          /\ previous_touch[<<device_uuids[address[d]], s>>] = touch[d][s]
    /\ \A k \in DOMAIN previous_touch : \E d \in Present, s \in Slots :
          touch[d][s] # None /\ k = <<device_uuids[address[d]], s>>

PositionsInv == AbsoluteInv /\ TouchInv

LEMMA InitPositions == Init => PositionsInv
<1> SUFFICES ASSUME Init PROVE PositionsInv
  OBVIOUS
<1>1. DOMAIN previous_absolute = {} /\ absolute = [d \in Devices |-> None]
  BY DEF Init
<1>2. AbsoluteInv
  BY <1>1 DEF AbsoluteInv, Present
<1>3. DOMAIN previous_touch = {} /\ touch = [d \in Devices |-> [s \in Slots |-> None]]
  BY DEF Init
<1>4. TouchInv
  <2>1. touch \in [Devices -> [Slots -> Int \cup {None}]]
    BY <1>3
  <2>2. \A d \in Devices, s \in Slots : touch[d][s] = None
    BY <1>3
  <2> QED  BY <1>3, <2>1, <2>2 DEF TouchInv
<1> QED  BY <1>2, <1>4 DEF PositionsInv

(* A UUID given out, a device plugged or one without touches unplugged changes
   nothing of what is remembered of the others. *)
LEMMA DevicesKeepAbsolute ==
    ASSUME IdentityInv, AbsoluteInv, NEW d \in Devices, UNCHANGED <<previous_absolute, absolute>>,
           \/ d \in Present /\ RememberUuid(d) /\ UNCHANGED <<address, plugged>>
           \/ Unplug(d)
           \/ \E a \in Addresses : Plug(d, a)
    PROVE  AbsoluteInv'
<1> USE DEF AbsoluteInv
<1>1. CASE d \in Present /\ RememberUuid(d) /\ UNCHANGED <<address, plugged>>
  <2>1. /\ Present' = Present
        /\ \A e \in Devices : Known(e) =>
              Known(e)' /\ device_uuids'[address'[e]] = device_uuids[address[e]]
    BY <1>1, OwnUuid
  <2> QED  BY <1>1, <2>1 DEF Present
<1>2. CASE Unplug(d)
  <2>1. d \in Present /\ RememberUuid(d) /\ plugged' = plugged
        /\ address' = [address EXCEPT ![d] = None]
    BY <1>2 DEF Unplug
  <2>2. /\ DOMAIN device_uuids \subseteq DOMAIN device_uuids'
        /\ \A a \in DOMAIN device_uuids : device_uuids'[a] = device_uuids[a]
    BY <2>1, Remembered DEF IdentityInv
  <2>3. Present' \subseteq Present /\ \A e \in Present' : address'[e] = address[e]
    BY <2>1 DEF Present, IdentityInv, AddressInv
  <2> QED  BY <2>1, <2>2, <2>3 DEF Known
<1>3. ASSUME NEW a \in Addresses, Plug(d, a) PROVE AbsoluteInv'
  <2>1. /\ d \notin plugged /\ plugged' = plugged \cup {d}
        /\ address' = [address EXCEPT ![d] = a] /\ UNCHANGED device_uuids
    BY <1>3 DEF Plug
  <2>2. Present' \subseteq Present \cup {d} /\ \A e \in Devices : e # d => address'[e] = address[e]
    BY <2>1 DEF Present, IdentityInv, AddressInv
  <2>3. absolute[d] = None
    BY <2>1
  <2> QED  BY <2>1, <2>2, <2>3 DEF Known, Present
<1> QED  BY <1>1, <1>2, <1>3

LEMMA DevicesKeepTouches ==
    ASSUME IdentityInv, TouchInv, NEW d \in Devices, UNCHANGED <<previous_touch, touch>>,
           \/ d \in Present /\ RememberUuid(d) /\ UNCHANGED address
           \/ Unplug(d)
           \/ \E a \in Addresses : Plug(d, a)
    PROVE  TouchInv'
<1>1. ASSUME \A e \in Present, s \in Slots : touch[e][s] # None =>
                e \in Present' /\ Known(e)' /\ device_uuids'[address'[e]] = device_uuids[address[e]]
      PROVE  TouchInv'
  <2>1. touch' = touch /\ previous_touch' = previous_touch
    OBVIOUS
  <2>2. \A e \in Devices, s \in Slots : touch'[e][s] # None =>
          /\ e \in Present' /\ Known(e)'
          /\ <<device_uuids'[address'[e]], s>> \in DOMAIN previous_touch'
          /\ previous_touch'[<<device_uuids'[address'[e]], s>>] = touch'[e][s]
    <3> SUFFICES ASSUME NEW e \in Devices, NEW s \in Slots, touch[e][s] # None
                 PROVE  /\ e \in Present' /\ Known(e)'
                        /\ <<device_uuids'[address'[e]], s>> \in DOMAIN previous_touch
                        /\ previous_touch[<<device_uuids'[address'[e]], s>>] = touch[e][s]
      BY <2>1
    <3>1. /\ e \in Present
          /\ <<device_uuids[address[e]], s>> \in DOMAIN previous_touch
          /\ previous_touch[<<device_uuids[address[e]], s>>] = touch[e][s]
      BY DEF TouchInv
    <3>2. e \in Present' /\ Known(e)' /\ device_uuids'[address'[e]] = device_uuids[address[e]]
      BY <1>1, <3>1
    <3> QED  BY <3>1, <3>2
  <2>3. ASSUME NEW k \in DOMAIN previous_touch'
        PROVE  \E e \in Present', s \in Slots :
                  touch'[e][s] # None /\ k = <<device_uuids'[address'[e]], s>>
    <3>1. PICK e \in Present, s \in Slots : touch[e][s] # None /\ k = <<device_uuids[address[e]], s>>
      BY <2>1, <2>3 DEF TouchInv
    <3> QED  BY <1>1, <2>1, <3>1
  <2> QED  BY <2>1, <2>2, <2>3 DEF TouchInv
<1>2. CASE d \in Present /\ RememberUuid(d) /\ UNCHANGED address
  <2>1. /\ Present' = Present
        /\ \A e \in Devices : Known(e) =>
              Known(e)' /\ device_uuids'[address'[e]] = device_uuids[address[e]]
    BY <1>2, OwnUuid
  <2> QED  BY <1>1, <2>1 DEF Present, TouchInv
<1>3. CASE Unplug(d)
  <2>1. d \in Present /\ RememberUuid(d) /\ address' = [address EXCEPT ![d] = None]
        /\ \A s \in Slots : touch[d][s] = None
    BY <1>3 DEF Unplug
  <2>2. /\ DOMAIN device_uuids \subseteq DOMAIN device_uuids'
        /\ \A a \in DOMAIN device_uuids : device_uuids'[a] = device_uuids[a]
    BY <2>1, Remembered DEF IdentityInv
  <2>3. \A e \in Present : e # d => e \in Present' /\ address'[e] = address[e]
    BY <2>1 DEF Present, IdentityInv, AddressInv
  <2>4. ASSUME NEW e \in Present, NEW s \in Slots, touch[e][s] # None
        PROVE  e \in Present' /\ Known(e)' /\ device_uuids'[address'[e]] = device_uuids[address[e]]
    <3>1. e # d /\ Known(e)
      BY <2>1, <2>4 DEF TouchInv, Present
    <3> QED  BY <2>2, <2>3, <3>1 DEF Known
  <2> QED  BY <1>1, <2>4
<1>4. ASSUME NEW a \in Addresses, Plug(d, a) PROVE TouchInv'
  <2>1. /\ d \notin plugged /\ address' = [address EXCEPT ![d] = a] /\ UNCHANGED device_uuids
    BY <1>4 DEF Plug
  <2>2. \A e \in Present : e # d /\ e \in Present' /\ address'[e] = address[e]
    BY <2>1 DEF Present, IdentityInv, AddressInv
  <2> QED  BY <1>1, <2>1, <2>2 DEF Known, TouchInv, Present
<1> QED  BY <1>2, <1>3, <1>4

(* SetRelativePosition finds the position before. *)
LEMMA FindAbsolute ==
    ASSUME IdentityInv, AbsoluteInv, NEW d \in Present, RememberUuid(d), UNCHANGED address
    PROVE  /\ Find(previous_absolute, Uuid(d)) \in Int \cup {None}
           /\ absolute[d] # None => Find(previous_absolute, Uuid(d)) = absolute[d]
<1>1. Known(d) => device_uuids[address[d]] = Uuid(d)
  BY OwnUuid
<1> QED  BY <1>1 DEF AbsoluteInv, Find

(* SetTouchRelativePosition finds the position of the touch before, and nothing
   when it begins. *)
LEMMA FindTouch ==
    ASSUME IdentityInv, TouchInv, NEW d \in Present, RememberUuid(d), UNCHANGED address,
           NEW s \in Slots
    PROVE  Find(previous_touch, <<Uuid(d), s>>) = touch[d][s]
<1>1. d \in Devices
  BY DEF Present
<1>2. /\ Known(d) => device_uuids[address[d]] = Uuid(d)
      /\ \A e \in Present : e # d /\ Known(e) => device_uuids[address[e]] # Uuid(d)
  BY OwnUuid
<1>3. CASE touch[d][s] # None
  <2>1. /\ Known(d)
        /\ <<device_uuids[address[d]], s>> \in DOMAIN previous_touch
        /\ previous_touch[<<device_uuids[address[d]], s>>] = touch[d][s]
    BY <1>1, <1>3 DEF TouchInv
  <2> QED  BY <1>2, <2>1 DEF Find
<1>4. CASE touch[d][s] = None
  <2>1. ASSUME <<Uuid(d), s>> \in DOMAIN previous_touch PROVE FALSE
    <3>1. PICK e \in Present, t \in Slots :
             touch[e][t] # None /\ <<Uuid(d), s>> = <<device_uuids[address[e]], t>>
      BY <2>1 DEF TouchInv
    <3>2. t = s /\ device_uuids[address[e]] = Uuid(d) /\ Known(e)
      BY <3>1 DEF TouchInv, Present
    <3>3. e = d
      BY <1>2, <3>2
    <3> QED  BY <1>4, <3>1, <3>2, <3>3
  <2> QED  BY <1>4, <2>1 DEF Find
<1> QED  BY <1>3, <1>4

LEMMA AbsoluteMoved ==
    ASSUME IdentityInv, AbsoluteInv, NEW d \in Present, RememberUuid(d),
           UNCHANGED <<address, plugged>>, NEW x \in Int,
           previous_absolute' = Set(previous_absolute, Uuid(d), x),
           absolute' = [absolute EXCEPT ![d] = x]
    PROVE  AbsoluteInv'
<1> USE DEF AbsoluteInv
<1>1. /\ Present' = Present
      /\ Known(d)' /\ device_uuids'[address'[d]] = Uuid(d)
      /\ \A e \in Devices : Known(e) =>
            Known(e)' /\ device_uuids'[address'[e]] = device_uuids[address[e]]
      /\ \A e \in Present : e # d /\ Known(e) => device_uuids[address[e]] # Uuid(d)
  BY OwnUuid
<1>2. /\ DOMAIN previous_absolute' = DOMAIN previous_absolute \cup {Uuid(d)}
      /\ previous_absolute'[Uuid(d)] = x
      /\ \A u \in DOMAIN previous_absolute :
            u # Uuid(d) => previous_absolute'[u] = previous_absolute[u]
  BY DEF Set
<1>3. d \in Devices /\ d \in plugged
  BY DEF Present, IdentityInv, AddressInv
<1>4. absolute'[d] = x /\ \A e \in Devices : e # d => absolute'[e] = absolute[e]
  BY <1>3
<1>5. absolute' \in [Devices -> Int \cup {None}]
  OBVIOUS
<1>6. \A u \in DOMAIN previous_absolute' : previous_absolute'[u] \in Int
  BY <1>2
<1>7. ASSUME NEW e \in Present', absolute'[e] # None
      PROVE  /\ Known(e)'
             /\ device_uuids'[address'[e]] \in DOMAIN previous_absolute'
             /\ previous_absolute'[device_uuids'[address'[e]]] = absolute'[e]
  <2>1. CASE e = d
    BY <1>1, <1>2, <1>4, <2>1
  <2>2. CASE e # d
    <3>1. e \in Present /\ e \in Devices /\ absolute[e] # None /\ absolute'[e] = absolute[e]
      BY <1>1, <1>4, <1>7, <2>2 DEF Present
    <3> QED  BY <1>1, <1>2, <2>2, <3>1
  <2> QED  BY <2>1, <2>2
<1> QED  BY <1>3, <1>4, <1>5, <1>6, <1>7

(* A touch that moves, or begins, is remembered where it is; one that ends is
   forgotten. *)
LEMMA TouchMoved ==
    ASSUME IdentityInv, TouchInv, NEW d \in Present, RememberUuid(d), UNCHANGED address,
           NEW s \in Slots, NEW x \in Int \cup {None},
           touch' = [touch EXCEPT ![d][s] = x],
           previous_touch' = IF x = None THEN Erase(previous_touch, <<Uuid(d), s>>)
                                         ELSE Set(previous_touch, <<Uuid(d), s>>, x)
    PROVE  TouchInv'
<1> DEFINE key == <<Uuid(d), s>>
<1>1. /\ Present' = Present
      /\ Known(d)' /\ device_uuids'[address'[d]] = Uuid(d)
      /\ Known(d) => device_uuids[address[d]] = Uuid(d)
      /\ \A e \in Devices : Known(e) =>
            Known(e)' /\ device_uuids'[address'[e]] = device_uuids[address[e]]
      /\ \A e \in Present : e # d /\ Known(e) => device_uuids[address[e]] # Uuid(d)
  BY OwnUuid
<1>2. d \in Devices
  BY DEF Present
<1>3. /\ touch' \in [Devices -> [Slots -> Int \cup {None}]]
      /\ touch'[d][s] = x
      /\ \A e \in Devices, t \in Slots : e # d \/ t # s => touch'[e][t] = touch[e][t]
  BY <1>2 DEF TouchInv
<1>4. /\ x # None => DOMAIN previous_touch' = DOMAIN previous_touch \cup {key}
                     /\ previous_touch'[key] = x
      /\ x = None => DOMAIN previous_touch' = DOMAIN previous_touch \ {key}
      /\ \A k \in DOMAIN previous_touch : k # key => previous_touch'[k] = previous_touch[k]
  <2>1. CASE x = None
    BY <2>1 DEF Erase, Restrict
  <2>2. CASE x # None
    BY <2>2 DEF Set
  <2> QED  BY <2>1, <2>2
<1> HIDE DEF key
<1>5. ASSUME NEW e \in Devices, NEW t \in Slots, touch'[e][t] # None
      PROVE  /\ e \in Present' /\ Known(e)'
             /\ <<device_uuids'[address'[e]], t>> \in DOMAIN previous_touch'
             /\ previous_touch'[<<device_uuids'[address'[e]], t>>] = touch'[e][t]
  <2>1. CASE e = d /\ t = s
    BY <1>1, <1>3, <1>4, <1>5, <2>1 DEF key
  <2>2. CASE e # d \/ t # s
    <3>1. touch'[e][t] = touch[e][t] /\ touch[e][t] # None
      BY <1>3, <1>5, <2>2
    <3>2. /\ e \in Present /\ Known(e)
          /\ <<device_uuids[address[e]], t>> \in DOMAIN previous_touch
          /\ previous_touch[<<device_uuids[address[e]], t>>] = touch[e][t]
      BY <3>1 DEF TouchInv
    <3>3. <<device_uuids[address[e]], t>> # key
      BY <1>1, <2>2, <3>2 DEF key
    <3>4. device_uuids'[address'[e]] = device_uuids[address[e]] /\ Known(e)' /\ e \in Present'
      BY <1>1, <3>2
    <3>5. <<device_uuids[address[e]], t>> \in DOMAIN previous_touch'
      BY <1>4, <3>2, <3>3
    <3> QED  BY <1>4, <3>1, <3>2, <3>3, <3>4, <3>5
  <2> QED  BY <2>1, <2>2
<1>6. ASSUME NEW k \in DOMAIN previous_touch'
      PROVE  \E e \in Present', t \in Slots :
                touch'[e][t] # None /\ k = <<device_uuids'[address'[e]], t>>
  <2>1. CASE k = key
    <3>1. x # None
      BY <1>4, <1>6, <2>1
    <3> QED  BY <1>1, <1>3, <2>1, <3>1 DEF key
  <2>2. CASE k # key
    <3>1. k \in DOMAIN previous_touch
      BY <1>4, <1>6, <2>2
    <3>2. PICK e \in Present, t \in Slots : touch[e][t] # None /\ k = <<device_uuids[address[e]], t>>
      BY <3>1 DEF TouchInv
    <3>3. e \in Devices /\ Known(e)
      BY <3>2 DEF TouchInv, Present
    <3>4. e # d \/ t # s
      BY <1>1, <2>2, <3>2, <3>3 DEF key
    <3>5. touch'[e][t] = touch[e][t]
      BY <1>3, <3>3, <3>4
    <3>6. device_uuids'[address'[e]] = device_uuids[address[e]]
      BY <1>1, <3>3
    <3> QED  BY <1>1, <3>2, <3>5, <3>6
  <2> QED  BY <2>1, <2>2
<1> QED  BY <1>3, <1>5, <1>6 DEF TouchInv

(* What a pointer, touch or key event does to what is remembered. *)
LEMMA EventsRemember ==
    ASSUME NEW d \in Devices, NEW time \in Times, Event(d, time)
    PROVE  \/ UNCHANGED <<touch, previous_touch, absolute, previous_absolute>>
           \/ /\ \E x \in Positions : /\ previous_absolute' = Set(previous_absolute, Uuid(d), x)
                                      /\ absolute' = [absolute EXCEPT ![d] = x]
              /\ UNCHANGED <<touch, previous_touch>>
           \/ /\ \E s \in Slots, x \in Positions \cup {None} :
                    /\ touch' = [touch EXCEPT ![d][s] = x]
                    /\ previous_touch' = IF x = None THEN Erase(previous_touch, <<Uuid(d), s>>)
                                                     ELSE Set(previous_touch, <<Uuid(d), s>>, x)
              /\ UNCHANGED <<absolute, previous_absolute>>
<1>1. None \notin Positions
  BY EventTransformerAssumption DEF EventTransformerAssumption, Positions
<1>2. CASE PointerEvent(d, time)
  BY <1>1, <1>2, Zenon DEF PointerEvent, RelativeMove, MotionAbsolute, OneEntry, TabletToolTip
<1>3. CASE KeyEvent(d, time)
  BY <1>3 DEF KeyEvent, KeyboardKey
<1>4. ASSUME NEW s \in Slots, NEW x \in Positions, TouchDown(d, time, s, x) \/ TouchMotion(d, time, s, x)
      PROVE  /\ touch' = [touch EXCEPT ![d][s] = x]
             /\ previous_touch' = Set(previous_touch, <<Uuid(d), s>>, x)
             /\ UNCHANGED <<absolute, previous_absolute>>
  BY <1>4, Zenon DEF TouchDown, TouchMotion, Touches
<1>5. ASSUME NEW s \in Slots, TouchRelease(d, time, s)
      PROVE  /\ touch' = [touch EXCEPT ![d][s] = None]
             /\ previous_touch' = Erase(previous_touch, <<Uuid(d), s>>)
             /\ UNCHANGED <<absolute, previous_absolute>>
  BY <1>5, Zenon DEF TouchRelease, Touches
<1>6. CASE TouchEvent(d, time)
  <2>1. CASE \E s \in Slots, x \in Positions : TouchDown(d, time, s, x) \/ TouchMotion(d, time, s, x)
    <3>1. PICK s \in Slots, x \in Positions : TouchDown(d, time, s, x) \/ TouchMotion(d, time, s, x)
      BY <2>1
    <3>2. x # None
      BY <1>1
    <3> QED  BY <1>4, <3>1, <3>2
  <2>2. CASE \E s \in Slots : TouchRelease(d, time, s)
    BY <1>5, <2>2
  <2> QED  BY <1>6, <2>1, <2>2 DEF TouchEvent
<1> QED  BY <1>2, <1>3, <1>6 DEF Event

LEMMA NextPositions == IdentityInv /\ PositionsInv /\ [Next]_vars => PositionsInv'
<1> SUFFICES ASSUME IdentityInv, PositionsInv, [Next]_vars PROVE PositionsInv'
  OBVIOUS
<1> USE DEF PositionsInv
<1>0. Positions \subseteq Int
  BY DEF Positions
<1>1. CASE UNCHANGED vars
  BY <1>1 DEF vars, libinputVars, history, AbsoluteInv, TouchInv, Present, Known
<1>2. ASSUME NEW d \in Devices, NEW time \in Times, Event(d, time) PROVE PositionsInv'
  <2>1. d \in Present /\ RememberUuid(d) /\ UNCHANGED <<address, plugged>>
    BY <1>2, EventsReturn DEF Returns
  <2>2. CASE UNCHANGED <<touch, previous_touch, absolute, previous_absolute>>
    BY <2>1, <2>2, DevicesKeepAbsolute, DevicesKeepTouches
  <2>3. CASE /\ \E x \in Positions : /\ previous_absolute' = Set(previous_absolute, Uuid(d), x)
                                     /\ absolute' = [absolute EXCEPT ![d] = x]
             /\ UNCHANGED <<touch, previous_touch>>
    BY <1>0, <2>1, <2>3, AbsoluteMoved, DevicesKeepTouches
  <2>4. CASE /\ \E s \in Slots, x \in Positions \cup {None} :
                    /\ touch' = [touch EXCEPT ![d][s] = x]
                    /\ previous_touch' = IF x = None THEN Erase(previous_touch, <<Uuid(d), s>>)
                                                     ELSE Set(previous_touch, <<Uuid(d), s>>, x)
             /\ UNCHANGED <<absolute, previous_absolute>>
    BY <1>0, <2>1, <2>4, TouchMoved, DevicesKeepAbsolute
  <2> QED  BY <1>2, <2>2, <2>3, <2>4, EventsRemember
<1>3. ASSUME NEW d \in Devices, Ignored(d) PROVE PositionsInv'
  <2>1. /\ d \in Present /\ RememberUuid(d) /\ UNCHANGED <<address, plugged>>
        /\ UNCHANGED <<touch, previous_touch, absolute, previous_absolute>>
    BY <1>3 DEF Ignored, libinputVars, history
  <2> QED  BY <2>1, DevicesKeepAbsolute, DevicesKeepTouches
<1>4. ASSUME NEW d \in Devices, Unplug(d) PROVE PositionsInv'
  <2>1. UNCHANGED <<touch, previous_touch, absolute, previous_absolute>>
    BY <1>4 DEF Unplug, history
  <2> QED  BY <1>4, <2>1, DevicesKeepAbsolute, DevicesKeepTouches
<1>5. ASSUME NEW d \in Devices, NEW a \in Addresses, Plug(d, a) PROVE PositionsInv'
  <2>1. UNCHANGED <<touch, previous_touch, absolute, previous_absolute>>
    BY <1>5 DEF Plug, history
  <2> QED  BY <1>5, <2>1, DevicesKeepAbsolute, DevicesKeepTouches
<1> QED  BY <1>1, <1>2, <1>3, <1>4, <1>5 DEF Next, Event

(* The position of an entry is the move that its device made. *)
Moves(e, d) ==
    /\ e.touch_id # None /\ e.table = "move" =>
          e.position = Difference(touch'[d][e.touch_id], touch[d][e.touch_id])
    /\ e.table = "absolute" /\ absolute[d] # None =>
          e.position = Difference(absolute'[d], absolute[d])

AllMove(entries, d) == \A i \in DOMAIN entries : Moves(entries[i], d)

LEMMA MovingEntries ==
    ASSUME NEW d
    PROVE  /\ \A e : Moves(e, d) => AllMove(<<e>>, d)
           /\ \A e, f : Moves(e, d) /\ Moves(f, d) => AllMove(<<e, f>>, d)
<1> QED  BY DEF AllMove

LEMMA PointerMoves ==
    ASSUME IdentityInv, AbsoluteInv, NEW d \in Devices, NEW time \in Times, PointerEvent(d, time)
    PROVE  AllMove(data', d)
<1>1. CASE RelativeMove(d, time)
  <2>1. data' = <<First("move", d, time)>>
    BY <1>1 DEF RelativeMove, Returns
  <2>2. Moves(First("move", d, time), d)
    BY DEF First, Entry, Moves
  <2> QED  BY <2>1, <2>2, MovingEntries
<1>2. ASSUME NEW x \in Positions, MotionAbsolute(d, time, x) PROVE AllMove(data', d)
  <2> DEFINE previous == Find(previous_absolute, Uuid(d))
             move     == First("absolute", d, time)
             e        == IF previous = None THEN move ELSE [move EXCEPT !.position = x - previous]
  <2>1. data' = <<e>>
    BY <1>2 DEF MotionAbsolute, Returns
  <2>2. d \in Present /\ RememberUuid(d) /\ UNCHANGED address
        /\ absolute' = [absolute EXCEPT ![d] = x]
    BY <1>2 DEF MotionAbsolute, Returns
  <2>3. /\ previous \in Int \cup {None}
        /\ absolute[d] # None => previous = absolute[d]
    BY <2>2, FindAbsolute
  <2>4. x \in Int /\ x # None
    BY EventTransformerAssumption DEF EventTransformerAssumption, Positions
  <2>5. absolute'[d] = x
    BY <2>2 DEF AbsoluteInv
  <2>6. absolute[d] # None => Difference(absolute'[d], absolute[d]) = x - previous
    BY <2>3, <2>4, <2>5 DEF Difference
  <2>7. e.touch_id = None /\ (previous # None => e.position = x - previous)
    BY DEF First, Entry
  <2> HIDE DEF e, previous
  <2>8. Moves(e, d)
    BY <2>3, <2>6, <2>7 DEF Moves
  <2> QED  BY <2>1, <2>8, MovingEntries
<1>3. ASSUME NEW table \in {"click", "scroll", "padKey"}, OneEntry(d, time, table, None)
      PROVE  AllMove(data', d)
  <2> DEFINE e == [First(table, d, time) EXCEPT !.action = None]
  <2>1. data' = <<e>>
    BY <1>3 DEF OneEntry, Returns
  <2>2. e.touch_id = None /\ e.table # "absolute"
    BY DEF First, Entry
  <2> HIDE DEF e
  <2> QED  BY <2>1, <2>2, MovingEntries DEF Moves
<1>4. ASSUME NEW action \in {"press", "release"}, TabletToolTip(d, time, action)
      PROVE  AllMove(data', d)
  <2> DEFINE e == First("move", d, time)
             f == [Second("click", d, time) EXCEPT !.action = action]
  <2>1. data' = <<e, f>>
    BY <1>4 DEF TabletToolTip, Returns
  <2>2. e.touch_id = None /\ e.table # "absolute" /\ f.touch_id = None /\ f.table # "absolute"
    BY DEF First, Second, Entry
  <2> HIDE DEF e, f
  <2> QED  BY <2>1, <2>2, MovingEntries DEF Moves
<1> QED  BY <1>1, <1>2, <1>3, <1>4 DEF PointerEvent

LEMMA TouchMoves ==
    ASSUME IdentityInv, TouchInv, NEW d \in Devices, NEW time \in Times, TouchEvent(d, time)
    PROVE  AllMove(data', d)
<1> PICK s \in Slots : \/ \E x \in Positions : TouchDown(d, time, s, x) \/ TouchMotion(d, time, s, x)
                       \/ TouchRelease(d, time, s)
  BY DEF TouchEvent
<1>1. \A x : /\ TouchMove(d, time, s, x).touch_id = s
             /\ TouchMove(d, time, s, x).table = "move"
             /\ TouchMove(d, time, s, x).position =
                   IF Find(previous_touch, <<Uuid(d), s>>) = None THEN None
                   ELSE x - Find(previous_touch, <<Uuid(d), s>>)
  BY DEF TouchMove, First, Entry
<1>2. \A action : Moves(TouchClick(d, time, s, action), d)
  <2>1. \A action : TouchClick(d, time, s, action).table = "click"
    BY DEF TouchClick, Second, Entry
  <2> QED  BY <2>1 DEF Moves
<1>3. /\ d \in Present /\ RememberUuid(d) /\ UNCHANGED address
  BY EventsReturn DEF Event, Returns
<1>4. Find(previous_touch, <<Uuid(d), s>>) = touch[d][s]
  BY <1>3, FindTouch
<1>5. ASSUME NEW x \in Positions, touch' = [touch EXCEPT ![d][s] = x]
      PROVE  Moves(TouchMove(d, time, s, x), d)
  <2>1. touch'[d][s] = x
    BY <1>5 DEF TouchInv
  <2>2. x # None
    BY EventTransformerAssumption DEF EventTransformerAssumption, Positions
  <2>3. Difference(touch'[d][s], touch[d][s]) = IF touch[d][s] = None THEN None ELSE x - touch[d][s]
    BY <2>1, <2>2 DEF Difference
  <2> QED  BY <1>1, <1>4, <2>3 DEF Moves
<1>6. ASSUME NEW x \in Positions, TouchDown(d, time, s, x) PROVE AllMove(data', d)
  <2>1. /\ data' = <<TouchMove(d, time, s, x), TouchClick(d, time, s, "press")>>
        /\ touch' = [touch EXCEPT ![d][s] = x]
    BY <1>6, Zenon DEF TouchDown, Touches, Returns
  <2> QED  BY <1>2, <1>5, <2>1, MovingEntries
<1>7. ASSUME NEW x \in Positions, TouchMotion(d, time, s, x) PROVE AllMove(data', d)
  <2>1. data' = <<TouchMove(d, time, s, x)>> /\ touch' = [touch EXCEPT ![d][s] = x]
    BY <1>7, Zenon DEF TouchMotion, Touches, Returns
  <2> QED  BY <1>5, <2>1, MovingEntries
<1>8. CASE TouchRelease(d, time, s)
  <2> DEFINE e == [First("move", d, time) EXCEPT !.touch_id = s]
  <2>1. data' = <<e, TouchClick(d, time, s, "release")>> /\ touch' = [touch EXCEPT ![d][s] = None]
    BY <1>8, Zenon DEF TouchRelease, Touches, Returns
  <2>2. e.touch_id = s /\ e.table = "move" /\ e.position = None
    BY DEF First, Entry
  <2>3. touch'[d][s] = None
    BY <2>1 DEF TouchInv
  <2>4. Difference(touch'[d][s], touch[d][s]) = None
    BY <2>3 DEF Difference
  <2> HIDE DEF e
  <2>5. Moves(e, d)
    BY <2>2, <2>4 DEF Moves
  <2> QED  BY <1>2, <2>1, <2>5, MovingEntries
<1> QED  BY <1>6, <1>7, <1>8

LEMMA KeyMoves ==
    ASSUME NEW d \in Devices, NEW time \in Times, KeyEvent(d, time)
    PROVE  AllMove(data', d)
<1> PICK m \in Modifiers, down \in BOOLEAN : KeyboardKey(d, time, m, down)
  BY DEF KeyEvent
<1> DEFINE e == [First("key", d, time) EXCEPT !.action = IF down THEN "press" ELSE "release"]
<1>1. data' = <<e>>
  BY DEF KeyboardKey, Returns
<1>2. e.touch_id = None /\ e.table = "key"
  BY DEF First, Entry
<1> HIDE DEF e
<1> QED  BY <1>1, <1>2, MovingEntries DEF Moves

LEMMA StampedMoves ==
    ASSUME IdentityInv, IdentityInv', PositionsInv, NEW d \in Devices, NEW time \in Times,
           Event(d, time), Stamped(d, time, data'), NEW i \in DOMAIN data'
    PROVE  Moves(data'[i], DeviceOf(data'[i]))
<1>1. d \in Present /\ RememberUuid(d) /\ UNCHANGED address
  BY EventsReturn DEF Returns
<1>2. data'[i].device_id = Uuid(d)
  BY DEF Stamped, Stamps
<1>3. DeviceOf(data'[i]) = d
  BY <1>1, <1>2, EntryDevice
<1> QED  BY <1>3, PointerMoves, TouchMoves, KeyMoves DEF Event, AllMove, PositionsInv

(* The relative moves that are recorded are the differences between positions of
   one touch, or of one device: no position that is remembered belongs to an
   earlier touch or to a device that is gone. *)
THEOREM MovesAlways == Spec => MovesAreDifferences
<1>1. IdentityInv /\ IdentityInv' /\ PositionsInv /\ [Next]_vars =>
        [\A i \in DOMAIN data' :
           LET e == data'[i]  d == DeviceOf(e)
           IN  /\ IsTouchEntry(e) /\ e.table = "move" =>
                     e.position = Difference(touch'[d][e.touch_id], touch[d][e.touch_id])
               /\ e.table = "absolute" /\ absolute[d] # None =>
                     e.position = Difference(absolute'[d], absolute[d])]_vars
  BY StampedMoves, NextStamps DEF Moves, IsTouchEntry
<1> QED
  BY <1>1, InitIdentity, NextIdentity, InitPositions, NextPositions, PTL
     DEF Spec, MovesAreDifferences

-----------------------------------------------------------------------------
(***************************************************************************)
(* Clicks of touches.                                                      *)
(***************************************************************************)
Clicks(entries, s, action) ==
    \E i \in DOMAIN entries :
        entries[i].table = "click" /\ entries[i].touch_id = s /\ entries[i].action = action

Begins(d, s) == touch[d][s] = None /\ touch'[d][s] # None
Ends(d, s)   == touch[d][s] # None /\ touch'[d][s] = None

(* The entries of an event of d say which touches of d begin and end in it. *)
ClicksTell(entries, d) ==
    \A s \in Slots : /\ Clicks(entries, s, "press") <=> Begins(d, s)
                     /\ Clicks(entries, s, "release") <=> Ends(d, s)

LEMMA ClickOfEntries ==
    ASSUME NEW s, NEW action
    PROVE  /\ \A e : Clicks(<<e>>, s, action) <=>
                        e.table = "click" /\ e.touch_id = s /\ e.action = action
           /\ \A e, f : Clicks(<<e, f>>, s, action) <=>
                        \/ e.table = "click" /\ e.touch_id = s /\ e.action = action
                        \/ f.table = "click" /\ f.touch_id = s /\ f.action = action
<1>1. \A e : DOMAIN <<e>> = {1} /\ <<e>>[1] = e
  OBVIOUS
<1>2. \A e, f : DOMAIN <<e, f>> = {1, 2} /\ <<e, f>>[1] = e /\ <<e, f>>[2] = f
  OBVIOUS
<1> QED  BY <1>1, <1>2 DEF Clicks

(* What is not of a touch clicks none, and moves none. *)
LEMMA UntouchedClicks ==
    ASSUME NEW d \in Devices, touch' = touch, NEW entries,
           \A i \in DOMAIN entries : entries[i].touch_id = None
    PROVE  ClicksTell(entries, d)
<1>1. \A s \in Slots : s # None
  BY EventTransformerAssumption DEF EventTransformerAssumption
<1> QED  BY <1>1 DEF ClicksTell, Clicks, Begins, Ends

LEMMA PointerClicks ==
    ASSUME NEW d \in Devices, NEW time \in Times, PointerEvent(d, time) \/ KeyEvent(d, time)
    PROVE  ClicksTell(data', d)
<1>1. touch' = touch
  BY DEF PointerEvent, RelativeMove, MotionAbsolute, OneEntry, TabletToolTip, KeyEvent, KeyboardKey
<1> DEFINE Untouched(entries) == \A i \in DOMAIN entries : entries[i].touch_id = None
<1>2. \A e : e.touch_id = None => Untouched(<<e>>)
  OBVIOUS
<1>3. \A e, f : e.touch_id = None /\ f.touch_id = None => Untouched(<<e, f>>)
  OBVIOUS
<1> HIDE DEF Untouched
<1>4. CASE RelativeMove(d, time)
  <2>1. data' = <<First("move", d, time)>> /\ First("move", d, time).touch_id = None
    BY <1>4 DEF RelativeMove, Returns, First, Entry
  <2> QED  BY <1>1, <1>2, <2>1, UntouchedClicks DEF Untouched
<1>5. ASSUME NEW x \in Positions, MotionAbsolute(d, time, x) PROVE ClicksTell(data', d)
  <2> DEFINE move == First("absolute", d, time)
             e    == IF Find(previous_absolute, Uuid(d)) = None THEN move
                     ELSE [move EXCEPT !.position = x - Find(previous_absolute, Uuid(d))]
  <2>1. data' = <<e>>
    BY <1>5 DEF MotionAbsolute, Returns
  <2>2. e.touch_id = None
    BY DEF First, Entry
  <2> HIDE DEF e
  <2> QED  BY <1>1, <1>2, <2>1, <2>2, UntouchedClicks DEF Untouched
<1>6. ASSUME NEW table \in {"click", "scroll", "padKey"}, OneEntry(d, time, table, None)
      PROVE  ClicksTell(data', d)
  <2> DEFINE e == [First(table, d, time) EXCEPT !.action = None]
  <2>1. data' = <<e>> /\ e.touch_id = None
    BY <1>6 DEF OneEntry, Returns, First, Entry
  <2> HIDE DEF e
  <2> QED  BY <1>1, <1>2, <2>1, UntouchedClicks DEF Untouched
<1>7. ASSUME NEW action \in {"press", "release"}, TabletToolTip(d, time, action)
      PROVE  ClicksTell(data', d)
  <2> DEFINE e == First("move", d, time)
             f == [Second("click", d, time) EXCEPT !.action = action]
  <2>1. data' = <<e, f>>
    BY <1>7 DEF TabletToolTip, Returns
  <2>2. e.touch_id = None /\ f.touch_id = None
    BY DEF First, Second, Entry
  <2> HIDE DEF e, f
  <2> QED  BY <1>1, <1>3, <2>1, <2>2, UntouchedClicks DEF Untouched
<1>8. ASSUME NEW m \in Modifiers, NEW down \in BOOLEAN, KeyboardKey(d, time, m, down)
      PROVE  ClicksTell(data', d)
  <2> DEFINE e == [First("key", d, time) EXCEPT !.action = IF down THEN "press" ELSE "release"]
  <2>1. data' = <<e>>
    BY <1>8 DEF KeyboardKey, Returns
  <2>2. e.touch_id = None
    BY DEF First, Entry
  <2> HIDE DEF e
  <2> QED  BY <1>1, <1>2, <2>1, <2>2, UntouchedClicks DEF Untouched
<1> QED  BY <1>4, <1>5, <1>6, <1>7, <1>8 DEF PointerEvent, KeyEvent

LEMMA TouchClicks ==
    ASSUME TouchInv, NEW d \in Devices, NEW time \in Times, TouchEvent(d, time)
    PROVE  ClicksTell(data', d)
<1> PICK s \in Slots : \/ \E x \in Positions : TouchDown(d, time, s, x) \/ TouchMotion(d, time, s, x)
                       \/ TouchRelease(d, time, s)
  BY DEF TouchEvent
<1>1. \A x : TouchMove(d, time, s, x).table = "move"
  BY DEF TouchMove, First, Entry
<1>2. \A action : /\ TouchClick(d, time, s, action).table = "click"
                  /\ TouchClick(d, time, s, action).touch_id = s
                  /\ TouchClick(d, time, s, action).action = action
  BY DEF TouchClick, Second, Entry
<1>3. \A x : touch' = [touch EXCEPT ![d][s] = x] =>
         touch'[d][s] = x /\ \A t \in Slots : t # s => touch'[d][t] = touch[d][t]
  BY DEF TouchInv
<1>4. \A x \in Positions : x # None
  BY EventTransformerAssumption DEF EventTransformerAssumption, Positions
<1>5. ASSUME NEW x \in Positions, TouchDown(d, time, s, x) PROVE ClicksTell(data', d)
  <2>1. /\ data' = <<TouchMove(d, time, s, x), TouchClick(d, time, s, "press")>>
        /\ touch' = [touch EXCEPT ![d][s] = x] /\ touch[d][s] = None
    BY <1>5, Zenon DEF TouchDown, Touches, Returns
  <2> DEFINE e == TouchMove(d, time, s, x)
             f == TouchClick(d, time, s, "press")
  <2>2. e.table # "click" /\ f.table = "click" /\ f.touch_id = s /\ f.action = "press"
    BY <1>1, <1>2
  <2> HIDE DEF e, f
  <2>3. \A t, action : Clicks(data', t, action) <=> t = s /\ action = "press"
    BY <2>1, <2>2, ClickOfEntries DEF e, f
  <2>4. \A t \in Slots : (Begins(d, t) <=> t = s) /\ ~Ends(d, t)
    BY <1>3, <1>4, <1>5, <2>1 DEF Begins, Ends
  <2> QED  BY <2>3, <2>4 DEF ClicksTell
<1>6. ASSUME NEW x \in Positions, TouchMotion(d, time, s, x) PROVE ClicksTell(data', d)
  <2>1. /\ data' = <<TouchMove(d, time, s, x)>>
        /\ touch' = [touch EXCEPT ![d][s] = x] /\ touch[d][s] # None
    BY <1>6, Zenon DEF TouchMotion, Touches, Returns
  <2> QED  BY <1>1, <1>3, <1>4, <2>1, ClickOfEntries DEF ClicksTell, Begins, Ends
<1>7. CASE TouchRelease(d, time, s)
  <2> DEFINE e == [First("move", d, time) EXCEPT !.touch_id = s]
  <2>1. /\ data' = <<e, TouchClick(d, time, s, "release")>>
        /\ touch' = [touch EXCEPT ![d][s] = None] /\ touch[d][s] # None
    BY <1>7, Zenon DEF TouchRelease, Touches, Returns
  <2>2. e.table = "move"
    BY DEF First, Entry
  <2>3. \A t, action : Clicks(data', t, action) <=> t = s /\ action = "release"
    <3> DEFINE f == TouchClick(d, time, s, "release")
    <3>1. data' = <<e, f>>
      BY <2>1
    <3>2. e.table # "click" /\ f.table = "click" /\ f.touch_id = s /\ f.action = "release"
      BY <1>2, <2>2
    <3> HIDE DEF e, f
    <3> QED  BY <3>1, <3>2, ClickOfEntries
  <2>4. \A t \in Slots : (Ends(d, t) <=> t = s) /\ ~Begins(d, t)
    BY <1>3, <2>1 DEF Begins, Ends
  <2> QED  BY <2>3, <2>4 DEF ClicksTell
<1> QED  BY <1>5, <1>6, <1>7

(* Only the device of the event has its touches changed. *)
LEMMA OneDeviceTouched ==
    ASSUME TouchInv, NEW d \in Devices, NEW time \in Times, Event(d, time), NEW e \in Devices, e # d
    PROVE  touch'[e] = touch[e]
<1>1. touch' = touch \/ \E s \in Slots, x \in Positions \cup {None} : touch' = [touch EXCEPT ![d][s] = x]
  BY EventsRemember
<1> QED  BY <1>1 DEF TouchInv

LEMMA ClicksOfStep ==
    ASSUME IdentityInv, IdentityInv', TouchInv, Next, NEW e \in Devices, NEW s \in Slots
    PROVE  /\ (\E i \in DOMAIN data' : /\ data'[i].table = "click" /\ data'[i].touch_id = s
                                       /\ data'[i].action = "press" /\ DeviceOf(data'[i]) = e)
              <=> Begins(e, s)
           /\ (\E i \in DOMAIN data' : /\ data'[i].table = "click" /\ data'[i].touch_id = s
                                       /\ data'[i].action = "release" /\ DeviceOf(data'[i]) = e)
              <=> Ends(e, s)
<1>1. ASSUME data' = << >>, touch' = touch PROVE ~Begins(e, s) /\ ~Ends(e, s) /\ DOMAIN data' = {}
  BY <1>1 DEF Begins, Ends
<1>2. ASSUME NEW d \in Devices, Ignored(d) \/ Unplug(d) PROVE data' = << >> /\ touch' = touch
  BY <1>2 DEF Ignored, Unplug, libinputVars
<1>3. ASSUME NEW d \in Devices, NEW a \in Addresses, Plug(d, a) PROVE data' = << >> /\ touch' = touch
  BY <1>3 DEF Plug
<1>4. CASE \E d \in Devices, time \in Times : Event(d, time)
  <2> PICK d \in Devices, time \in Times : Event(d, time)
    BY <1>4
  <2>1. \A i \in DOMAIN data' : DeviceOf(data'[i]) = d
    <3>1. d \in Present /\ RememberUuid(d) /\ UNCHANGED address
      BY EventsReturn DEF Returns
    <3>2. Stamped(d, time, data')
      BY PointerStamps, TouchStamps, KeyStamps DEF Event
    <3> QED  BY <3>1, <3>2, EntryDevice DEF Stamped, Stamps
  <2>2. ClicksTell(data', d)
    BY PointerClicks, TouchClicks DEF Event
  <2>3. CASE e = d
    BY <2>1, <2>2, <2>3 DEF ClicksTell, Clicks
  <2>4. CASE e # d
    <3>1. ~Begins(e, s) /\ ~Ends(e, s)
      BY <2>4, OneDeviceTouched DEF Begins, Ends
    <3> QED  BY <2>1, <2>4, <3>1
  <2> QED  BY <2>3, <2>4
<1> QED  BY <1>1, <1>2, <1>3, <1>4 DEF Next, Event

(* A click of a touch is recorded when it begins and when it ends, even with its
   device or by a cancel, and of the device that is touched; of nothing else. *)
THEOREM ClicksAlways == Spec => TouchesAreClicked
<1>1. IdentityInv /\ IdentityInv' /\ PositionsInv /\ [Next]_vars =>
        [\A d \in Devices, s \in Slots :
           LET clicked(action) ==
                  \E i \in DOMAIN data' : /\ data'[i].table = "click" /\ data'[i].touch_id = s
                                          /\ data'[i].action = action /\ DeviceOf(data'[i]) = d
           IN  /\ clicked("press")   = (touch[d][s] = None /\ touch'[d][s] # None)
               /\ clicked("release") = (touch[d][s] # None /\ touch'[d][s] = None)]_vars
  <2> SUFFICES ASSUME IdentityInv, IdentityInv', PositionsInv, Next
               PROVE  \A d \in Devices, s \in Slots :
                 LET clicked(action) ==
                        \E i \in DOMAIN data' : /\ data'[i].table = "click" /\ data'[i].touch_id = s
                                                /\ data'[i].action = action /\ DeviceOf(data'[i]) = d
                 IN  /\ clicked("press")   = (touch[d][s] = None /\ touch'[d][s] # None)
                     /\ clicked("release") = (touch[d][s] # None /\ touch'[d][s] = None)
    OBVIOUS
  <2> TAKE d \in Devices, s \in Slots
  <2>1. TouchInv
    BY DEF PositionsInv
  <2> DEFINE clicked(action) ==
                \E i \in DOMAIN data' : /\ data'[i].table = "click" /\ data'[i].touch_id = s
                                        /\ data'[i].action = action /\ DeviceOf(data'[i]) = d
  <2>2. (clicked("press") <=> Begins(d, s)) /\ (clicked("release") <=> Ends(d, s))
    BY <2>1, ClicksOfStep
  <2>3. clicked("press") = Begins(d, s) /\ clicked("release") = Ends(d, s)
    BY <2>2, Zenon DEF Begins, Ends
  <2> QED  BY <2>3, Zenon DEF Begins, Ends
<1> QED
  BY <1>1, InitIdentity, NextIdentity, InitPositions, NextPositions, PTL
     DEF Spec, TouchesAreClicked

-----------------------------------------------------------------------------
(***************************************************************************)
(* Types.                                                                  *)
(***************************************************************************)
MapsInv ==
    /\ plugged \subseteq Devices
    /\ DOMAIN device_uuids \subseteq Addresses
    /\ touch \in [Devices -> [Slots -> Positions \cup {None}]]
    /\ Maps(previous_absolute, UUIDs, Positions)
    /\ Maps(device_intervals, UUIDs, Times)

LEMMA InitMaps == Init => MapsInv
<1> SUFFICES ASSUME Init PROVE MapsInv
  OBVIOUS
<1>1. /\ DOMAIN device_uuids = {} /\ DOMAIN previous_absolute = {} /\ DOMAIN device_intervals = {}
      /\ plugged = {} /\ touch = [d \in Devices |-> [s \in Slots |-> None]]
  BY DEF Init
<1> QED  BY <1>1 DEF MapsInv, Maps

(* There are no more UUIDs than addresses. *)
LEMMA UuidsCounted ==
    ASSUME NEW uuids, DOMAIN uuids \subseteq Addresses,
           \A a \in DOMAIN uuids : uuids[a] \in 1..Cardinality(DOMAIN uuids)
    PROVE  Maps(uuids, Addresses, UUIDs)
<1> DEFINE D == DOMAIN uuids
<1>1. IsFiniteSet(Addresses) /\ D \subseteq Addresses
  BY EventTransformerAssumption DEF EventTransformerAssumption
<1>2. \A a \in D : uuids[a] \in 1..Cardinality(D)
  OBVIOUS
<1> HIDE DEF D
<1>3. IsFiniteSet(D) /\ Cardinality(D) <= Cardinality(Addresses)
  BY <1>1, FS_Subset
<1>4. Cardinality(D) \in Nat /\ Cardinality(Addresses) \in Nat
  BY <1>1, <1>3, FS_CardinalityType
<1>5. 1..Cardinality(D) \subseteq UUIDs
  BY <1>3, <1>4 DEF UUIDs
<1> QED  BY <1>2, <1>5 DEF D, Maps

LEMMA UuidGiven ==
    ASSUME IdentityInv, MapsInv, NEW d \in Present, RememberUuid(d)
    PROVE  DOMAIN device_uuids' \subseteq Addresses /\ Uuid(d) \in UUIDs
<1>1. d \in Devices /\ address[d] \in Addresses
  BY DEF Present, IdentityInv, AddressInv
<1>2. /\ UuidsInv' /\ DOMAIN device_uuids' = DOMAIN device_uuids \cup {address[d]}
      /\ device_uuids'[address[d]] = Uuid(d)
  BY <1>1, Remembered DEF IdentityInv
<1>3. DOMAIN device_uuids' \subseteq Addresses
  BY <1>1, <1>2 DEF MapsInv
<1>4. Maps(device_uuids', Addresses, UUIDs)
  BY <1>2, <1>3, UuidsCounted DEF UuidsInv
<1> QED  BY <1>2, <1>3, <1>4 DEF Maps

LEMMA MapSet ==
    ASSUME NEW map, NEW K, NEW V, Maps(map, K, V), NEW k \in K, NEW v \in V
    PROVE  Maps(Set(map, k, v), K, V)
BY DEF Maps, Set

LEMMA NextMaps == IdentityInv /\ MapsInv /\ [Next]_vars => MapsInv'
<1> SUFFICES ASSUME IdentityInv, MapsInv, [Next]_vars PROVE MapsInv'
  OBVIOUS
<1>1. CASE UNCHANGED vars
  BY <1>1 DEF vars, libinputVars, MapsInv, Maps, UUIDs, Times, Positions
<1>2. ASSUME NEW d \in Devices, Ignored(d) \/ Unplug(d) PROVE MapsInv'
  <2>1. /\ d \in Present /\ RememberUuid(d)
        /\ UNCHANGED <<plugged, touch, previous_absolute, device_intervals>>
    BY <1>2 DEF Ignored, Unplug, libinputVars
  <2> QED  BY <2>1, UuidGiven DEF MapsInv, Maps, UUIDs, Times, Positions
<1>3. ASSUME NEW d \in Devices, NEW a \in Addresses, Plug(d, a) PROVE MapsInv'
  BY <1>3 DEF Plug, MapsInv, Maps, UUIDs, Times, Positions
<1>4. ASSUME NEW d \in Devices, NEW time \in Times, Event(d, time) PROVE MapsInv'
  <2>1. /\ d \in Present /\ RememberUuid(d) /\ plugged' = plugged
        /\ device_intervals' = Set(device_intervals, Uuid(d), time)
    BY <1>4, EventsReturn DEF Returns
  <2>2. DOMAIN device_uuids' \subseteq Addresses /\ Uuid(d) \in UUIDs
    BY <2>1, UuidGiven
  <2>3. Maps(device_intervals', UUIDs, Times)
    BY <2>1, <2>2, MapSet DEF MapsInv
  <2>4. Maps(previous_absolute', UUIDs, Positions)
    <3>1. \/ previous_absolute' = previous_absolute
          \/ \E x \in Positions : previous_absolute' = Set(previous_absolute, Uuid(d), x)
      BY <1>4, EventsRemember
    <3> QED  BY <2>2, <3>1, MapSet DEF MapsInv
  <2>5. touch' \in [Devices -> [Slots -> Positions \cup {None}]]
    <3>1. \/ touch' = touch
          \/ \E s \in Slots, x \in Positions \cup {None} : touch' = [touch EXCEPT ![d][s] = x]
      BY <1>4, EventsRemember
    <3> QED  BY <3>1 DEF MapsInv
  <2>6. UUIDs' = UUIDs /\ Times' = Times /\ Positions' = Positions
    BY DEF UUIDs, Times, Positions
  <2> QED  BY <2>1, <2>2, <2>3, <2>4, <2>5, <2>6 DEF MapsInv, Maps
<1> QED  BY <1>1, <1>2, <1>3, <1>4 DEF Next, Event

(* Every variable has its type: the maps have only UUIDs that were given to an
   address, and xkb counts no key below zero or on more keyboards than there are. *)
THEOREM EventTransformerTypeOK == Spec => []TypeOK
<1> DEFINE Inv == IdentityInv /\ KeysInv /\ PositionsInv /\ MapsInv
<1>1. Inv => TypeOK
  <2> SUFFICES ASSUME Inv PROVE TypeOK
    OBVIOUS
  <2>1. Maps(device_uuids, Addresses, UUIDs)
    BY UuidsCounted DEF IdentityInv, UuidsInv, MapsInv
  <2>2. ASSUME NEW k \in DOMAIN previous_touch
        PROVE  k \in UUIDs \X Slots /\ previous_touch[k] \in Positions
    <3>1. PICK d \in Present, s \in Slots : touch[d][s] # None /\ k = <<device_uuids[address[d]], s>>
      BY <2>2 DEF PositionsInv, TouchInv
    <3>2. /\ d \in Devices /\ Known(d)
          /\ previous_touch[<<device_uuids[address[d]], s>>] = touch[d][s]
      BY <3>1 DEF PositionsInv, TouchInv, Present
    <3>3. device_uuids[address[d]] \in UUIDs
      BY <2>1, <3>2 DEF Maps, Known
    <3>4. touch[d][s] \in Positions
      BY <3>1, <3>2 DEF MapsInv
    <3> QED  BY <3>1, <3>2, <3>3, <3>4
  <2>3. xkb \in [Modifiers -> 0..Cardinality(Devices)]
    <3>1. ASSUME NEW m \in Modifiers PROVE xkb[m] \in 0..Cardinality(Devices)
      <4> DEFINE H == {d \in Devices : m \in held[d]}
      <4>1. H \subseteq Devices /\ IsFiniteSet(Devices)
        BY EventTransformerAssumption DEF EventTransformerAssumption
      <4>2. xkb[m] = Cardinality(H)
        BY DEF KeysInv, HeldInv, Holding
      <4> HIDE DEF H
      <4>3. IsFiniteSet(H) /\ Cardinality(H) <= Cardinality(Devices)
        BY <4>1, FS_Subset
      <4>4. Cardinality(H) \in Nat /\ Cardinality(Devices) \in Nat
        BY <4>1, <4>3, FS_CardinalityType
      <4> QED  BY <4>2, <4>3, <4>4
    <3>2. xkb \in [Modifiers -> Nat]
      BY DEF KeysInv, HeldInv
    <3> QED  BY <3>1, <3>2
  <2>4. Maps(previous_touch, UUIDs \X Slots, Positions)
    BY <2>2 DEF Maps
  <2> QED  BY <2>1, <2>3, <2>4 DEF TypeOK, IdentityInv, AddressInv, KeysInv, HeldInv, LocksInv,
                                   LockStates, MapsInv
<1>2. Init => Inv
  BY InitIdentity, InitKeys, InitPositions, InitMaps
<1>3. Inv /\ [Next]_vars => Inv'
  BY NextIdentity, NextKeys, NextPositions, NextMaps
<1> QED  BY <1>1, <1>2, <1>3, PTL DEF Spec
=============================================================================
