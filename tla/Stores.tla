------------------------------- MODULE Stores -------------------------------
(***************************************************************************)
(* What becomes of an entry between its builder and the outputs: the       *)
(* outputs and the filter that Cli parses, ToStores, the builders          *)
(* of evget/event, FilterStore, the merge    of a taken buffer, and what   *)
(* DatabaseStorage and JsonStorage write.                                  *)
(*                                                                         *)
(* A builder turns its members into a vector of texts.  From there on a    *)
(* text is known by its position alone, and four lists must agree on it:   *)
(* the order in Build, the names in entry.h, the columns of the SQL        *)
(* tables, and the index at which the device type is looked up.            *)
(*                                                                         *)
(* When a buffer is taken, and what happens when a store fails, are the    *)
(* subjects of DatabaseManager and DatabaseStorage: here one write is      *)
(* under way at a time, and no insert fails.  UUIDs are left out.  The     *)
(* text of a number, a name or a time is any member of Texts.  Texts are   *)
(* UTF-8: dump() (json_storage.cpp:42) throws on any other.                *)
(***************************************************************************)
EXTENDS Integers, Sequences, SequencesExt

CONSTANTS
    Outputs,       \* values of --output; "-" is standard output
    Extension,     \* what follows the last dot of each, in lower case
    OutputLists,   \* the --output options of a run
    RawFilters,    \* the --filter options of a run
    Texts,         \* what a member of a builder may be, written out
    Events,        \* what one event makes: a sequence of builders
    MaxEntries,    \* entries of a run, at most (a bound)
    MaxBuffer,     \* what n_events keeps the buffer below (a bound)
    None

VARIABLES
    pc,            \* main: "parse", "open", "run", "failed"
    outputs,       \* Cli::output_
    allowed,       \* Cli::filter_ and FilterStore::allowed_
    stores,        \* what ToStores has made: [type, good]
    reader,        \* event loop: "next", or "filter" in FilterStore::StoreEvent
    data,          \* entries of the event that are still to be filtered
    filtered,      \* FilterStore::StoreEvent's local of this name
    buffer,        \* LockingVector::inner_
    writer,        \* StoreCoroutine: "idle", "merge", "store"
    taken,         \* SpawnStoreData: what is still to be merged
    batch,         \* SpawnStoreData: the merged Data
    at,            \* StoreCoroutine: the store to call next
    written,       \* for each store, the rows or documents it has
    given          \* history: the builders of all events

mainVars   == <<pc, outputs, allowed, stores>>
readerVars == <<reader, data, filtered, given>>
writerVars == <<writer, taken, batch, at, written>>
vars == <<mainVars, readerVars, buffer, writerVars>>

(***************************************************************************)
(* Enumerations.  An enumerator is known by its place, as a decimal text.  *)
(***************************************************************************)
Decimal == <<"0", "1", "2", "3", "4", "5", "6", "7">>

DeviceType == <<"kMouse", "kKeyboard", "kTouchpad", "kTouchscreen", "kTablet", "kUnknown">>

ButtonAction == <<"kPress", "kRelease", "kRepeat">>

ModifierValue == <<"kShift", "kCapsLock", "kControl", "kAlt", "kNumLock", "kMod3", "kSuper",
                   "kMod5">>

EntryType == {"kKey", "kMouseClick", "kMouseMove", "kMouseScroll"}

ToUnderlying(enum, e) == Decimal[CHOOSE k \in DOMAIN enum : enum[k] = e]

FromUnderlying(enum, text) ==
    IF text = "" THEN None ELSE enum[CHOOSE k \in DOMAIN enum : Decimal[k] = text]

DeviceName ==
    [kMouse |-> "Mouse", kKeyboard |-> "Keyboard", kTouchpad |-> "Touchpad",
     kTouchscreen |-> "Touchscreen", kTablet |-> "Tablet", kUnknown |-> "Unknown"]

ActionName == [kPress |-> "Press", kRelease |-> "Release", kRepeat |-> "Repeat"]

ModifierName ==
    [kShift |-> "Shift", kCapsLock |-> "CapsLock", kControl |-> "Control", kAlt |-> "Alt",
     kNumLock |-> "NumLock", kMod3 |-> "Mod3", kSuper |-> "Super", kMod5 |-> "Mod5"]

FromEntryType ==
    [kKey |-> "Key", kMouseClick |-> "MouseClick", kMouseMove |-> "MouseMove",
     kMouseScroll |-> "MouseScroll"]

OptionalToString(names, e) == IF e = None THEN "" ELSE names[e]

(***************************************************************************)
(* Builders: the members that are set, and the order in which Build writes *)
(* them.  Those that are not set become empty texts.                       *)
(***************************************************************************)
BaseMembers ==
    {"interval", "timestamp", "position_x", "position_y", "device_name", "focus_window_name",
     "focus_window_position_x", "focus_window_position_y", "focus_window_width",
     "focus_window_height", "screen", "device_id", "system_event", "event_source", "device"}

Key         == BaseMembers \cup {"button", "name", "character", "action"}
MouseClick  == BaseMembers \cup {"touch_id", "button", "name", "action"}
MouseMove   == BaseMembers \cup {"touch_id"}
MouseScroll == BaseMembers \cup {"vertical", "horizontal"}

Members ==
    [kKey |-> Key, kMouseClick |-> MouseClick, kMouseMove |-> MouseMove,
     kMouseScroll |-> MouseScroll]

IsBuilder(b) ==
    /\ b.type \in EntryType
    /\ DOMAIN b.set \subseteq Members[b.type]
    /\ \A member \in DOMAIN b.set \ {"device", "action"} : b.set[member] \in Texts
    /\ "device" \in DOMAIN b.set => b.set["device"] \in Range(DeviceType)
    /\ "action" \in DOMAIN b.set => b.set["action"] \in Range(ButtonAction)
    /\ b.modifiers \in Seq(Range(ModifierValue))

ASSUME StoresAssumption ==
    /\ {""} \cup Range(Decimal) \subseteq Texts
    /\ None \notin Range(DeviceType) \cup Range(ButtonAction)
    /\ Extension \in [Outputs -> STRING]
    /\ OutputLists \subseteq Seq(Outputs) /\ "-" \in Outputs
    /\ RawFilters \subseteq SUBSET {"all", "mouse", "keyboard", "touchpad", "touchscreen", "tablet"}
    /\ Events \subseteq Seq({b \in UNION {Range(e) : e \in Events} : IsBuilder(b)})
    /\ MaxEntries \in Nat /\ MaxBuffer \in Nat

BuildBase ==
    <<"interval", "timestamp", "position_x", "position_y", "device_name", "focus_window_name",
      "focus_window_position_x", "focus_window_position_y", "focus_window_width",
      "focus_window_height", "screen", "device_id", "system_event", "event_source", "device">>

BuildKeySwapped == BuildBase \o <<"name", "button", "character", "action">>   \* mutant

BuildKey         == BuildBase \o <<"button", "name", "character", "action">>
BuildMouseClick  == BuildBase \o <<"touch_id", "button", "name", "action">>
BuildMouseMove   == BuildBase \o <<"touch_id">>
BuildMouseScroll == BuildBase \o <<"vertical", "horizontal">>

Order ==
    [kKey |-> BuildKey, kMouseClick |-> BuildMouseClick, kMouseMove |-> BuildMouseMove,
     kMouseScroll |-> BuildMouseScroll]

Text(b, member) ==
    IF member \notin DOMAIN b.set THEN ""
    ELSE IF member = "device" THEN ToUnderlying(DeviceType, b.set[member])
    ELSE IF member = "action" THEN ToUnderlying(ButtonAction, b.set[member])
    ELSE b.set[member]

Build(b) ==
    [type      |-> b.type,
     data      |-> [k \in DOMAIN Order[b.type] |-> Text(b, Order[b.type][k])],
     modifiers |-> [k \in DOMAIN b.modifiers |-> ToUnderlying(ModifierValue, b.modifiers[k])]]

(***************************************************************************)
(* Entry: the names of the fields, and the texts of enumerators.           *)
(***************************************************************************)
DeviceTypeIndex == 15                              \* counted from 1

BaseFields ==
    <<"interval", "timestamp", "position_x", "position_y", "device_name", "focus_window_name",
      "focus_window_position_x", "focus_window_position_y", "focus_window_width",
      "focus_window_height", "screen", "device_id", "system_event", "event_source",
      "device_type">>

Fields ==
    [kKey         |-> BaseFields \o <<"button_id", "button_name", "character", "button_action">>,
     kMouseClick  |-> BaseFields \o <<"touch_id", "button_id", "button_name", "button_action">>,
     kMouseMove   |-> BaseFields \o <<"touch_id">>,
     kMouseScroll |-> BaseFields \o <<"scroll_vertical", "scroll_horizontal">>]

ToNamedRepresentation(entry) ==
    LET named(k) ==
            IF k = DeviceTypeIndex
            THEN OptionalToString(DeviceName, FromUnderlying(DeviceType, entry.data[k]))
            ELSE IF entry.type \in {"kMouseClick", "kKey"} /\ k = Len(entry.data)
            THEN OptionalToString(ActionName, FromUnderlying(ButtonAction, entry.data[k]))
            ELSE entry.data[k]
    IN  [entry EXCEPT
            !.data = [k \in DOMAIN @ |-> named(k)],
            !.modifiers = [k \in DOMAIN @ |-> ModifierName[FromUnderlying(ModifierValue, @[k])]]]

(***************************************************************************)
(* JsonStorage writes a document per call, and says nothing when its       *)
(* stream is bad.                                                          *)
(***************************************************************************)
JsonEntry(entry) ==
    LET named == ToNamedRepresentation(entry)
    IN  [type      |-> FromEntryType[entry.type],
         fields    |-> [k \in DOMAIN named.data |->
                           [name |-> Fields[entry.type][k], data |-> named.data[k]]],
         modifiers |-> named.modifiers]

(***************************************************************************)
(* DatabaseStorage inserts by position, the UUID first.                    *)
(***************************************************************************)
BaseColumns ==
    <<"uuid", "interval", "timestamp", "position_x", "position_y", "device_name",
      "focus_window_name", "focus_window_position_x", "focus_window_position_y",
      "focus_window_width", "focus_window_height", "screen", "device_id", "system_event",
      "event_source", "device_type">>

KeyTable         == BaseColumns \o <<"button_id", "button_name", "character", "button_action">>
MouseClickTable  == BaseColumns \o <<"touch_id", "button_id", "button_name", "button_action">>
MouseMoveTable   == BaseColumns \o <<"touch_id">>
MouseScrollTable == BaseColumns \o <<"scroll_vertical", "scroll_horizontal">>

Columns ==
    [kKey |-> KeyTable, kMouseClick |-> MouseClickTable, kMouseMove |-> MouseMoveTable,
     kMouseScroll |-> MouseScrollTable]

DeviceTypeTable == <<"Mouse", "Keyboard", "Touchpad", "Touchscreen", "Tablet", "Unknown">>

ButtonActionTable == <<"Press", "Release", "Repeat">>

ModifierTable == <<"Shift", "CapsLock", "Control", "Alt", "NumLock", "Mod3", "Super", "Mod5">>

InsertEvents(entry) ==
    [table |-> entry.type, values |-> <<"uuid">> \o entry.data, modifiers |-> entry.modifiers]

(***************************************************************************)
(* main parses the command line, then opens the outputs one by one.        *)
(***************************************************************************)
Init ==
    /\ pc = "parse" /\ outputs = <<>> /\ allowed = None /\ stores = <<>>
    /\ reader = "next" /\ data = <<>> /\ filtered = <<>> /\ given = <<>>
    /\ buffer = <<>>
    /\ writer = "idle" /\ taken = <<>> /\ batch = <<>> /\ at = 1 /\ written = <<>>

DeviceTypeMappings ==
    [mouse |-> "kMouse", keyboard |-> "kKeyboard", touchpad |-> "kTouchpad",
     touchscreen |-> "kTouchscreen", tablet |-> "kTablet"]

Filter(raw) ==
    IF raw = {} \/ "all" \in raw THEN None
    ELSE {DeviceTypeMappings[value] : value \in raw}

Parse(raw, outs) ==
    /\ pc = "parse"
    /\ pc' = "open"
    /\ allowed' = Filter(raw)
    /\ outputs' = IF outs = <<>> THEN <<"-">> ELSE outs
    /\ UNCHANGED <<stores, readerVars, buffer, writerVars>>

GetStorageType(output) ==
    IF Extension[output] \in {"sqlite", "sqlite3", "db", "db3", "s3db", "sl3"}
    THEN "sqlite" ELSE "json"

NextOutput == outputs[Len(stores) + 1]

AddStore(good) ==
    /\ stores' = Append(stores, [type |-> GetStorageType(NextOutput), good |-> good])
    /\ written' = Append(written, <<>>)

OpenDatabase ==
    /\ pc = "open" /\ Len(stores) < Len(outputs) /\ GetStorageType(NextOutput) = "sqlite"
    /\ AddStore(TRUE)
    /\ UNCHANGED <<pc, outputs, allowed, readerVars, buffer, writer, taken, batch, at>>

InitFails ==
    /\ pc = "open" /\ Len(stores) < Len(outputs) /\ GetStorageType(NextOutput) = "sqlite"
    /\ pc' = "failed"
    /\ UNCHANGED <<outputs, allowed, stores, readerVars, buffer, writerVars>>

\* Nobody asks an ofstream whether it is open.
OpenStream(good) ==
    /\ pc = "open" /\ Len(stores) < Len(outputs) /\ GetStorageType(NextOutput) = "json"
    /\ NextOutput = "-" => good
    /\ AddStore(good)
    /\ UNCHANGED <<pc, outputs, allowed, readerVars, buffer, writer, taken, batch, at>>

Run ==
    /\ pc = "open" /\ Len(stores) = Len(outputs)
    /\ pc' = "run"
    /\ UNCHANGED <<outputs, allowed, stores, readerVars, buffer, writerVars>>

(***************************************************************************)
(* The event loop: an event is built, filtered, and buffered.              *)
(***************************************************************************)
TransformEvent(event) ==
    /\ pc = "run" /\ reader = "next"
    /\ Len(given) + Len(event) <= MaxEntries /\ Len(buffer) < MaxBuffer
    /\ reader' = "filter"
    /\ data' = [k \in DOMAIN event |-> Build(event[k])]
    /\ filtered' = <<>>
    /\ given' = given \o event
    /\ UNCHANGED <<mainVars, buffer, writerVars>>

ForwardsUnlessListed(entry) ==                     \* mutant
    \/ Len(entry.data) < DeviceTypeIndex
    \/ FromUnderlying(DeviceType, entry.data[DeviceTypeIndex]) \notin allowed

Forwards(entry) ==
    \/ Len(entry.data) < DeviceTypeIndex
    \/ FromUnderlying(DeviceType, entry.data[DeviceTypeIndex]) \in allowed \cup {None}

ForwardAll ==
    /\ reader = "filter" /\ allowed = None
    /\ buffer' = Append(buffer, data)
    /\ reader' = "next" /\ data' = <<>>
    /\ UNCHANGED <<mainVars, filtered, given, writerVars>>

FilterEntry ==
    /\ reader = "filter" /\ allowed # None /\ data # <<>>
    /\ filtered' = IF Forwards(Head(data)) THEN Append(filtered, Head(data)) ELSE filtered
    /\ data' = Tail(data)
    /\ UNCHANGED <<mainVars, reader, given, buffer, writerVars>>

ForwardFiltered ==
    /\ reader = "filter" /\ allowed # None /\ data = <<>>
    /\ buffer' = IF filtered = <<>> THEN buffer ELSE Append(buffer, filtered)
    /\ reader' = "next" /\ filtered' = <<>>
    /\ UNCHANGED <<mainVars, data, given, writerVars>>

(***************************************************************************)
(* The pool: the buffer is taken and merged, and each store gets a copy.   *)
(***************************************************************************)
TakeBuffer ==
    /\ pc = "run" /\ writer = "idle" /\ buffer # <<>>
    /\ writer' = "merge" /\ taken' = buffer /\ buffer' = <<>> /\ batch' = <<>>
    /\ UNCHANGED <<mainVars, readerVars, at, written>>

MergeWith ==
    /\ writer = "merge" /\ taken # <<>>
    /\ batch' = batch \o Head(taken) /\ taken' = Tail(taken)
    /\ UNCHANGED <<mainVars, readerVars, buffer, writer, at, written>>

StartStoring ==
    /\ writer = "merge" /\ taken = <<>>
    /\ writer' = "store" /\ at' = 1
    /\ UNCHANGED <<mainVars, readerVars, buffer, taken, batch, written>>

StoreInDatabase ==
    /\ writer = "store" /\ at <= Len(stores) /\ stores[at].type = "sqlite"
    /\ written' = [written EXCEPT ![at] = @ \o [k \in DOMAIN batch |-> InsertEvents(batch[k])]]
    /\ at' = at + 1
    /\ UNCHANGED <<mainVars, readerVars, buffer, writer, taken, batch>>

StoreAsJsonAlways ==                               \* mutant
    /\ writer = "store" /\ at <= Len(stores) /\ stores[at].type = "json"
    /\ written' = [written EXCEPT ![at] =
                      Append(@, [k \in DOMAIN batch |-> JsonEntry(batch[k])])]
    /\ at' = at + 1
    /\ UNCHANGED <<mainVars, readerVars, buffer, writer, taken, batch>>

StoreAsJson ==
    /\ writer = "store" /\ at <= Len(stores) /\ stores[at].type = "json"
    /\ written' =
          IF batch = <<>> \/ ~stores[at].good THEN written
          ELSE [written EXCEPT ![at] =
                   Append(@, [k \in DOMAIN batch |-> JsonEntry(batch[k])])]
    /\ at' = at + 1
    /\ UNCHANGED <<mainVars, readerVars, buffer, writer, taken, batch>>

FinishStoring ==
    /\ writer = "store" /\ at > Len(stores)
    /\ writer' = "idle" /\ batch' = <<>>
    /\ UNCHANGED <<mainVars, readerVars, buffer, taken, at, written>>

Next ==
    \/ \E raw \in RawFilters, outs \in OutputLists : Parse(raw, outs)
    \/ OpenDatabase
    \/ InitFails
    \/ \E good \in BOOLEAN : OpenStream(good)
    \/ Run
    \/ \E event \in Events : TransformEvent(event)
    \/ ForwardAll
    \/ FilterEntry
    \/ ForwardFiltered
    \/ TakeBuffer
    \/ MergeWith
    \/ StartStoring
    \/ StoreInDatabase
    \/ StoreAsJson
    \/ FinishStoring

Spec == Init /\ [][Next]_vars

(***************************************************************************)
(* Properties                                                              *)
(***************************************************************************)
Entry ==
    {entry \in [type : EntryType, data : Seq(Texts), modifiers : Seq(Texts)] :
        Len(entry.data) = Len(Order[entry.type])}

\* Types; an entry has as many texts as its builder writes, and a JSON output never
\* gets a document without entries.
TypeOK ==
    /\ pc \in {"parse", "open", "run", "failed"}
    /\ outputs \in Seq(Outputs) /\ allowed \in {None} \cup SUBSET Range(DeviceType)
    /\ \A s \in DOMAIN stores : stores[s] \in [type : {"sqlite", "json"}, good : BOOLEAN]
    /\ reader \in {"next", "filter"}
    /\ data \in Seq(Entry) /\ filtered \in Seq(Entry) /\ buffer \in Seq(Seq(Entry))
    /\ writer \in {"idle", "merge", "store"}
    /\ taken \in Seq(Seq(Entry)) /\ batch \in Seq(Entry) /\ at \in 1..Len(stores) + 1
    /\ DOMAIN written = DOMAIN stores
    /\ \A s \in DOMAIN stores : stores[s].type = "json" => <<>> \notin Range(written[s])

\* The field that documents a member of a builder.
Meaning(member) ==
    CASE member = "device"     -> "device_type"
      [] member = "button"     -> "button_id"
      [] member = "name"       -> "button_name"
      [] member = "action"     -> "button_action"
      [] member = "vertical"   -> "scroll_vertical"
      [] member = "horizontal" -> "scroll_horizontal"
      [] OTHER                 -> member

Value(b, member) ==
    IF member \notin DOMAIN b.set THEN ""
    ELSE IF member = "device" THEN DeviceName[b.set[member]]
    ELSE IF member = "action" THEN ActionName[b.set[member]]
    ELSE b.set[member]

Intended(b) ==
    [type      |-> b.type,
     fields    |-> {<<Meaning(member), Value(b, member)>> : member \in Members[b.type]},
     modifiers |-> [k \in DOMAIN b.modifiers |-> ModifierName[b.modifiers[k]]]]

\* A row as a query sees it that joins the tables of enumerators.
ReadRow(row) ==
    LET joined(table, id) == IF id = "" THEN "" ELSE table[CHOOSE k \in DOMAIN table : Decimal[k] = id]
        column(k) ==
            CASE Columns[row.table][k] = "device_type"   -> joined(DeviceTypeTable, row.values[k])
              [] Columns[row.table][k] = "button_action" -> joined(ButtonActionTable, row.values[k])
              [] OTHER                                   -> row.values[k]
    IN  [type      |-> row.table,
         fields    |-> {<<Columns[row.table][k], column(k)>> : k \in DOMAIN row.values \ {1}},
         modifiers |-> [k \in DOMAIN row.modifiers |-> joined(ModifierTable, row.modifiers[k])]]

ReadJson(entry) ==
    [type      |-> CHOOSE type \in EntryType : FromEntryType[type] = entry.type,
     fields    |-> {<<entry.fields[k].name, entry.fields[k].data>> : k \in DOMAIN entry.fields},
     modifiers |-> entry.modifiers]

Read(s) ==
    IF stores[s].type = "sqlite" THEN [k \in DOMAIN written[s] |-> ReadRow(written[s][k])]
    ELSE FlattenSeq([k \in DOMAIN written[s] |->
                        [j \in DOMAIN written[s][k] |-> ReadJson(written[s][k][j])]])

IsIntended(b) == allowed = None \/ "device" \notin DOMAIN b.set \/ b.set["device"] \in allowed

AllIntended ==
    FlattenSeq([k \in DOMAIN given |->
                   IF IsIntended(given[k]) THEN <<Intended(given[k])>> ELSE <<>>])

\* What an output holds, read by the names of its columns or fields and with
\* enumerators as text, is what the builders were given, in that order, less the
\* devices the filter does not list; and once nothing is under way, a good output
\* holds all that has left the buffer.
RecordedAsBuilt ==
    \A s \in DOMAIN stores :
        /\ IsPrefix(Read(s), AllIntended)
        /\ stores[s].good /\ reader = "next" /\ writer = "idle" =>
              Len(Read(s)) + Len(FlattenSeq(buffer)) = Len(AllIntended)

RowIsAllowed(row) ==
    \A k \in DOMAIN row.values :
        Columns[row.table][k] = "device_type" =>
            FromUnderlying(DeviceType, row.values[k]) \in allowed \cup {None}

JsonIsAllowed(entry) ==
    \A k \in DOMAIN entry.fields :
        entry.fields[k].name = "device_type" =>
            entry.fields[k].data \in {DeviceName[device] : device \in allowed} \cup {""}

\* With a filter, no output ever holds the device type of a device that the filter
\* does not list, at whichever position each output keeps it.
OnlyAllowedDevices ==
    allowed # None =>
        \A s \in DOMAIN written : \A k \in DOMAIN written[s] :
            IF stores[s].type = "sqlite" THEN RowIsAllowed(written[s][k])
            ELSE \A j \in DOMAIN written[s][k] : JsonIsAllowed(written[s][k][j])
=============================================================================
