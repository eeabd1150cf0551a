---------------------------- MODULE StoresProofs ----------------------------
(***************************************************************************)
(* Theorems about Stores, for all outputs, filters and events: no output   *)
(* ever holds a device type that the filter does not list, and what it     *)
(* holds is what the builders were meant to record, in their order.        *)
(*                                                                         *)
(* The filter looks at position 15 of an entry; an output is read by the   *)
(* name of a column or a field.  So the proof has three parts.  Everything *)
(* between FilterStore and the stores comes from a builder and has passed  *)
(* the filter, through the buffer, the merge and the copies (IInv).  And   *)
(* the lists agree, position by position, for each type of entry: the      *)
(* order in Build, the fields, the columns, and the tables of enumerators  *)
(* (ListsAgree, RowReadsAsBuilt, DocumentReadsAsBuilt).  And no step takes *)
(* an entry out of its turn or loses one that passes the filter (OrderOK). *)
(***************************************************************************)
EXTENDS Stores, FiniteSetTheorems, SequenceTheorems, WellFoundedInduction, TLAPS

\* All builders there may be.
Builders == {b \in UNION {Range(e) : e \in Events} : IsBuilder(b)}

\* The entries that come from the builders, and those the filter lets pass.
Built == {Build(b) : b \in Range(given)}

Kept == {entry \in Built : allowed = None \/ Forwards(entry)}

Rows == {InsertEvents(entry) : entry \in Kept}

Documents == Seq({JsonEntry(entry) : entry \in Kept})

Contents(s) == IF stores[s].type = "sqlite" THEN Seq(Rows) ELSE Seq(Documents)

\* Nothing is on its way before the filter is known.
EmptyWhileParsing ==
    pc = "parse" =>
        /\ stores = <<>> /\ written = <<>>
        /\ filtered = <<>> /\ buffer = <<>> /\ taken = <<>> /\ batch = <<>>

ReaderOK ==
    /\ given \in Seq(Builders) /\ data \in Seq(Built) /\ filtered \in Seq(Kept)
    /\ reader = "filter" => pc = "run"

QueueOK == buffer \in Seq(Seq(Kept)) /\ taken \in Seq(Seq(Kept)) /\ batch \in Seq(Kept)

WriterOK ==
    /\ at \in Nat \ {0}
    /\ stores \in Seq([type : {"sqlite", "json"}, good : BOOLEAN])
    /\ DOMAIN written = DOMAIN stores /\ written \in Seq(UNION {Seq(Rows), Seq(Documents)})
    /\ \A s \in DOMAIN stores : written[s] \in Contents(s)

IInv == EmptyWhileParsing /\ ReaderOK /\ QueueOK /\ WriterOK

(***************************************************************************)
(* Builders make entries.                                                  *)
(***************************************************************************)

\* The names of members, fields and columns.
Names ==
    {"uuid", "interval", "timestamp", "position_x", "position_y", "device_name",
     "focus_window_name", "focus_window_position_x", "focus_window_position_y",
     "focus_window_width", "focus_window_height", "screen", "device_id", "system_event",
     "event_source", "device", "touch_id", "button", "name", "character", "action", "vertical",
     "horizontal", "device_type", "button_id", "button_name", "button_action",
     "scroll_vertical", "scroll_horizontal"}

\* Each builder writes a list of texts whose length is the one entry.h states.
LEMMA OrderLength ==
    /\ \A type \in EntryType : Order[type] \in Seq(Names)
    /\ Len(Order["kKey"]) = 19 /\ Len(Order["kMouseClick"]) = 19
    /\ Len(Order["kMouseMove"]) = 16 /\ Len(Order["kMouseScroll"]) = 17
<1>1. BuildBase \in Seq(Names)
  BY DEF BuildBase, Names
<1>2. Len(BuildBase) = 15
  BY DEF BuildBase
<1> DEFINE key == <<"button", "name", "character", "action">>
           click == <<"touch_id", "button", "name", "action">>
           move == <<"touch_id">>
           scroll == <<"vertical", "horizontal">>
<1>3. key \in Seq(Names) /\ click \in Seq(Names) /\ move \in Seq(Names) /\ scroll \in Seq(Names)
  BY DEF Names
<1>4. Len(key) = 4 /\ Len(click) = 4 /\ Len(move) = 1 /\ Len(scroll) = 2
  OBVIOUS
<1>5. /\ BuildKey = BuildBase \o key /\ BuildMouseClick = BuildBase \o click
      /\ BuildMouseMove = BuildBase \o move /\ BuildMouseScroll = BuildBase \o scroll
  BY DEF BuildKey, BuildMouseClick, BuildMouseMove, BuildMouseScroll
<1> HIDE DEF key, click, move, scroll
<1>6. /\ BuildKey \in Seq(Names) /\ Len(BuildKey) = 19
      /\ BuildMouseClick \in Seq(Names) /\ Len(BuildMouseClick) = 19
      /\ BuildMouseMove \in Seq(Names) /\ Len(BuildMouseMove) = 16
      /\ BuildMouseScroll \in Seq(Names) /\ Len(BuildMouseScroll) = 17
  <2>1. ASSUME NEW tail \in Seq(Names), NEW n \in Nat, Len(tail) = n
        PROVE  BuildBase \o tail \in Seq(Names) /\ Len(BuildBase \o tail) = 15 + n
    <3>1. /\ BuildBase \o tail \in Seq(Names)
          /\ Len(BuildBase \o tail) = Len(BuildBase) + Len(tail)
      BY <1>1, ConcatProperties, Zenon
    <3> QED BY <3>1, <1>2, <2>1, Zenon
  <2>2. BuildKey \in Seq(Names) /\ Len(BuildKey) = 19
    <3>1. BuildBase \o key \in Seq(Names) /\ Len(BuildBase \o key) = 15 + 4
      BY <2>1, <1>3, <1>4
    <3>2. 15 + 4 = 19
      OBVIOUS
    <3> QED BY <3>1, <3>2, <1>5, Zenon
  <2>3. BuildMouseClick \in Seq(Names) /\ Len(BuildMouseClick) = 19
    <3>1. BuildBase \o click \in Seq(Names) /\ Len(BuildBase \o click) = 15 + 4
      BY <2>1, <1>3, <1>4
    <3>2. 15 + 4 = 19
      OBVIOUS
    <3> QED BY <3>1, <3>2, <1>5, Zenon
  <2>4. BuildMouseMove \in Seq(Names) /\ Len(BuildMouseMove) = 16
    <3>1. BuildBase \o move \in Seq(Names) /\ Len(BuildBase \o move) = 15 + 1
      BY <2>1, <1>3, <1>4
    <3>2. 15 + 1 = 16
      OBVIOUS
    <3> QED BY <3>1, <3>2, <1>5, Zenon
  <2>5. BuildMouseScroll \in Seq(Names) /\ Len(BuildMouseScroll) = 17
    <3>1. BuildBase \o scroll \in Seq(Names) /\ Len(BuildBase \o scroll) = 15 + 2
      BY <2>1, <1>3, <1>4
    <3>2. 15 + 2 = 17
      OBVIOUS
    <3> QED BY <3>1, <3>2, <1>5, Zenon
  <2> QED BY <2>2, <2>3, <2>4, <2>5
<1>7. /\ Order["kKey"] = BuildKey /\ Order["kMouseClick"] = BuildMouseClick
      /\ Order["kMouseMove"] = BuildMouseMove /\ Order["kMouseScroll"] = BuildMouseScroll
  BY DEF Order
<1> QED BY <1>6, <1>7 DEF EntryType

\* The underlying value of an enumerator is a text.
LEMMA UnderlyingIsText ==
    /\ \A e \in Range(DeviceType) : ToUnderlying(DeviceType, e) \in Texts
    /\ \A e \in Range(ButtonAction) : ToUnderlying(ButtonAction, e) \in Texts
    /\ \A e \in Range(ModifierValue) : ToUnderlying(ModifierValue, e) \in Texts
<1>1. DOMAIN DeviceType = 1..6 /\ DOMAIN ButtonAction = 1..3 /\ DOMAIN ModifierValue = 1..8
  BY DEF DeviceType, ButtonAction, ModifierValue
<1>2. \A k \in 1..8 : Decimal[k] \in Texts
  <2>1. DOMAIN Decimal = 1..8
    BY DEF Decimal
  <2> QED BY <2>1, StoresAssumption DEF Range
<1>3. ASSUME NEW enum, DOMAIN enum \subseteq 1..8, NEW e \in Range(enum)
      PROVE  ToUnderlying(enum, e) \in Texts
  <2>1. PICK k \in DOMAIN enum : enum[k] = e
    BY <1>3 DEF Range
  <2> QED BY <2>1, <1>2, <1>3 DEF ToUnderlying
<1> QED BY <1>1, <1>3

\* Every builder that may run makes an entry of its type, of full length.
LEMMA BuildIsEntry ==
    ASSUME NEW b, IsBuilder(b)
    PROVE  Build(b) \in Entry
<1>1. b.type \in EntryType /\ b.modifiers \in Seq(Range(ModifierValue))
  BY DEF IsBuilder
<1>2. ASSUME NEW member PROVE Text(b, member) \in Texts
  BY UnderlyingIsText, StoresAssumption DEF Text, IsBuilder
<1> DEFINE order == Order[b.type]
           texts == [k \in DOMAIN order |-> Text(b, order[k])]
           mods  == [k \in DOMAIN b.modifiers |-> ToUnderlying(ModifierValue, b.modifiers[k])]
<1>3. Build(b) = [type |-> b.type, data |-> texts, modifiers |-> mods]
  BY DEF Build
<1>4. texts \in Seq(Texts) /\ Len(texts) = Len(order)
  <2>1. order \in Seq(Names)
    BY <1>1, OrderLength
  <2> HIDE DEF order
  <2>2. DOMAIN order = 1..Len(order) /\ Len(order) \in Nat
    BY <2>1
  <2>3. \A k \in 1..Len(order) : Text(b, order[k]) \in Texts
    BY <1>2
  <2> QED BY <2>2, <2>3
<1>5. mods \in Seq(Texts)
  <2>1. DOMAIN b.modifiers = 1..Len(b.modifiers) /\ Len(b.modifiers) \in Nat
    BY <1>1
  <2>2. \A k \in 1..Len(b.modifiers) : ToUnderlying(ModifierValue, b.modifiers[k]) \in Texts
    BY <1>1, UnderlyingIsText
  <2> QED BY <2>1, <2>2
<1> HIDE DEF texts, mods
<1> QED BY <1>1, <1>3, <1>4, <1>5 DEF Entry

\* What the builders made is a set of entries.
LEMMA BuiltIsEntry ==
    ASSUME given \in Seq(Builders)
    PROVE  Built \subseteq Entry
<1>1. \A b \in Builders : Build(b) \in Entry
  BY BuildIsEntry DEF Builders
<1>2. Range(given) \subseteq Builders
  BY DEF Range
<1> QED BY <1>1, <1>2 DEF Built

(***************************************************************************)
(* The lists agree: each is a base, followed by what its type adds.        *)
(***************************************************************************)
BuildTail ==
    [kKey |-> <<"button", "name", "character", "action">>,
     kMouseClick |-> <<"touch_id", "button", "name", "action">>,
     kMouseMove |-> <<"touch_id">>, kMouseScroll |-> <<"vertical", "horizontal">>]

FieldTail ==
    [kKey |-> <<"button_id", "button_name", "character", "button_action">>,
     kMouseClick |-> <<"touch_id", "button_id", "button_name", "button_action">>,
     kMouseMove |-> <<"touch_id">>, kMouseScroll |-> <<"scroll_vertical", "scroll_horizontal">>]

HasAction(type) == type \in {"kMouseClick", "kKey"}

\* Where the lists are made of the two.
LEMMA ListsSplit ==
    ASSUME NEW type \in EntryType
    PROVE  /\ Order[type] = BuildBase \o BuildTail[type]
           /\ Fields[type] = BaseFields \o FieldTail[type]
           /\ Columns[type] = BaseColumns \o FieldTail[type]
<1> HIDE DEF BuildBase, BaseFields, BaseColumns
<1>1. /\ Order["kKey"] = BuildBase \o BuildTail["kKey"]
      /\ Order["kMouseClick"] = BuildBase \o BuildTail["kMouseClick"]
      /\ Order["kMouseMove"] = BuildBase \o BuildTail["kMouseMove"]
      /\ Order["kMouseScroll"] = BuildBase \o BuildTail["kMouseScroll"]
  BY DEF Order, BuildTail, BuildKey, BuildMouseClick, BuildMouseMove, BuildMouseScroll
<1>2. /\ Fields["kKey"] = BaseFields \o FieldTail["kKey"]
      /\ Fields["kMouseClick"] = BaseFields \o FieldTail["kMouseClick"]
      /\ Fields["kMouseMove"] = BaseFields \o FieldTail["kMouseMove"]
      /\ Fields["kMouseScroll"] = BaseFields \o FieldTail["kMouseScroll"]
  BY DEF Fields, FieldTail
<1>3. /\ Columns["kKey"] = BaseColumns \o FieldTail["kKey"]
      /\ Columns["kMouseClick"] = BaseColumns \o FieldTail["kMouseClick"]
      /\ Columns["kMouseMove"] = BaseColumns \o FieldTail["kMouseMove"]
      /\ Columns["kMouseScroll"] = BaseColumns \o FieldTail["kMouseScroll"]
  BY DEF Columns, FieldTail, KeyTable, MouseClickTable, MouseMoveTable, MouseScrollTable
<1> QED BY <1>1, <1>2, <1>3 DEF EntryType

\* The bases agree, and the device type is the last of them.
LEMMA BasesAgree ==
    /\ BuildBase \in Seq(Names) /\ BaseFields \in Seq(Names) /\ BaseColumns \in Seq(Names)
    /\ Len(BuildBase) = 15 /\ Len(BaseFields) = 15 /\ Len(BaseColumns) = 16
    /\ \A k \in 1..15 : /\ BaseFields[k] = Meaning(BuildBase[k]) /\ BaseColumns[k + 1] = BaseFields[k]
                        /\ BuildBase[k] = "device" <=> k = 15
                        /\ BuildBase[k] # "action"
    /\ BaseColumns[1] = "uuid" /\ Range(BuildBase) = BaseMembers
<1>1. /\ BuildBase \in Seq(Names) /\ BaseFields \in Seq(Names) /\ BaseColumns \in Seq(Names)
  BY DEF BuildBase, BaseFields, BaseColumns, Names
<1>2. Len(BuildBase) = 15 /\ Len(BaseFields) = 15 /\ Len(BaseColumns) = 16
  BY DEF BuildBase, BaseFields, BaseColumns
<1>3. ASSUME NEW k \in 1..15
      PROVE  /\ BaseFields[k] = Meaning(BuildBase[k]) /\ BaseColumns[k + 1] = BaseFields[k]
             /\ BuildBase[k] = "device" <=> k = 15
             /\ BuildBase[k] # "action"
  <2>1. k \in {1, 2, 3, 4, 5, 6, 7, 8, 9, 10, 11, 12, 13, 14, 15}
    OBVIOUS
  <2>2. BaseColumns[k + 1] = BaseFields[k]
    BY <2>1 DEF BaseColumns, BaseFields
  <2>3. (BuildBase[k] = "device" <=> k = 15) /\ BuildBase[k] # "action"
    BY <2>1 DEF BuildBase
  <2>4. BaseFields[k] = Meaning(BuildBase[k])
    BY <2>1 DEF BaseFields, BuildBase, Meaning
  <2> QED BY <2>2, <2>3, <2>4
<1>4. BaseColumns[1] = "uuid"
  BY DEF BaseColumns
<1>5. Range(BuildBase) = BaseMembers
  <2>1. Range(BuildBase) = {BuildBase[k] : k \in 1..15}
    BY <1>1, <1>2, RangeEquality
  <2> QED BY <2>1 DEF BuildBase, BaseMembers
<1> QED BY <1>1, <1>2, <1>3, <1>4, <1>5

\* So do the tails, and the button action is the last of those that have one.
LEMMA TailsAgree ==
    ASSUME NEW type \in EntryType
    PROVE  /\ BuildTail[type] \in Seq(Names) /\ FieldTail[type] \in Seq(Names)
           /\ Len(BuildTail[type]) = Len(FieldTail[type]) /\ Len(FieldTail[type]) \in 1..4
           /\ \A k \in 1..Len(FieldTail[type]) :
                 /\ FieldTail[type][k] = Meaning(BuildTail[type][k])
                 /\ BuildTail[type][k] # "device"
                 /\ BuildTail[type][k] = "action" <=> HasAction(type) /\ k = Len(FieldTail[type])
           /\ Members[type] = BaseMembers \cup Range(BuildTail[type])
<1>1. CASE type = "kKey"
  <2> DEFINE order == <<"button", "name", "character", "action">>
             fields == <<"button_id", "button_name", "character", "button_action">>
  <2>1. order \in Seq(Names) /\ fields \in Seq(Names) /\ Len(order) = 4 /\ Len(fields) = 4
    BY DEF Names
  <2>2. \A k \in 1..4 : order[k] # "device" /\ (order[k] = "action" <=> k = 4)
    OBVIOUS
  <2>3. \A k \in 1..4 : fields[k] = Meaning(order[k])
    BY DEF Meaning
  <2>4. BuildTail[type] = order /\ FieldTail[type] = fields /\ HasAction(type)
    BY <1>1 DEF BuildTail, FieldTail, HasAction
  <2>5. Members[type] = BaseMembers \cup Range(order)
    BY <1>1 DEF Members, Key, Range
  <2> HIDE DEF order, fields
  <2>6. /\ BuildTail[type] \in Seq(Names) /\ FieldTail[type] \in Seq(Names)
        /\ Len(BuildTail[type]) = 4 /\ Len(FieldTail[type]) = 4
    BY <2>1, <2>4, Zenon
  <2>7. \A k \in 1..4 : /\ FieldTail[type][k] = Meaning(BuildTail[type][k])
                       /\ BuildTail[type][k] # "device" /\ (BuildTail[type][k] = "action" <=> k = 4)
    BY <2>2, <2>3, <2>4, Zenon
  <2>8. Members[type] = BaseMembers \cup Range(BuildTail[type])
    BY <2>4, <2>5, Zenon
  <2> QED BY <2>4, <2>6, <2>7, <2>8
<1>2. CASE type = "kMouseClick"
  <2> DEFINE order == <<"touch_id", "button", "name", "action">>
             fields == <<"touch_id", "button_id", "button_name", "button_action">>
  <2>1. order \in Seq(Names) /\ fields \in Seq(Names) /\ Len(order) = 4 /\ Len(fields) = 4
    BY DEF Names
  <2>2. \A k \in 1..4 : order[k] # "device" /\ (order[k] = "action" <=> k = 4)
    OBVIOUS
  <2>3. \A k \in 1..4 : fields[k] = Meaning(order[k])
    BY DEF Meaning
  <2>4. BuildTail[type] = order /\ FieldTail[type] = fields /\ HasAction(type)
    BY <1>2 DEF BuildTail, FieldTail, HasAction
  <2>5. Members[type] = BaseMembers \cup Range(order)
    BY <1>2 DEF Members, MouseClick, Range
  <2> HIDE DEF order, fields
  <2>6. /\ BuildTail[type] \in Seq(Names) /\ FieldTail[type] \in Seq(Names)
        /\ Len(BuildTail[type]) = 4 /\ Len(FieldTail[type]) = 4
    BY <2>1, <2>4, Zenon
  <2>7. \A k \in 1..4 : /\ FieldTail[type][k] = Meaning(BuildTail[type][k])
                       /\ BuildTail[type][k] # "device" /\ (BuildTail[type][k] = "action" <=> k = 4)
    BY <2>2, <2>3, <2>4, Zenon
  <2>8. Members[type] = BaseMembers \cup Range(BuildTail[type])
    BY <2>4, <2>5, Zenon
  <2> QED BY <2>4, <2>6, <2>7, <2>8
<1>3. CASE type = "kMouseMove"
  <2> DEFINE order == <<"touch_id">>
             fields == <<"touch_id">>
  <2>1. order \in Seq(Names) /\ fields \in Seq(Names) /\ Len(order) = 1 /\ Len(fields) = 1
    BY DEF Names
  <2>2. \A k \in 1..1 : order[k] # "device" /\ order[k] # "action"
    OBVIOUS
  <2>3. \A k \in 1..1 : fields[k] = Meaning(order[k])
    BY DEF Meaning
  <2>4. BuildTail[type] = order /\ FieldTail[type] = fields /\ ~HasAction(type)
    BY <1>3 DEF BuildTail, FieldTail, HasAction
  <2>5. Members[type] = BaseMembers \cup Range(order)
    BY <1>3 DEF Members, MouseMove, Range
  <2> HIDE DEF order, fields
  <2>6. /\ BuildTail[type] \in Seq(Names) /\ FieldTail[type] \in Seq(Names)
        /\ Len(BuildTail[type]) = 1 /\ Len(FieldTail[type]) = 1
    BY <2>1, <2>4, Zenon
  <2>7. \A k \in 1..1 : /\ FieldTail[type][k] = Meaning(BuildTail[type][k])
                       /\ BuildTail[type][k] # "device" /\ BuildTail[type][k] # "action"
    BY <2>2, <2>3, <2>4, Zenon
  <2>8. Members[type] = BaseMembers \cup Range(BuildTail[type])
    BY <2>4, <2>5, Zenon
  <2> QED BY <2>4, <2>6, <2>7, <2>8
<1>4. CASE type = "kMouseScroll"
  <2> DEFINE order == <<"vertical", "horizontal">>
             fields == <<"scroll_vertical", "scroll_horizontal">>
  <2>1. order \in Seq(Names) /\ fields \in Seq(Names) /\ Len(order) = 2 /\ Len(fields) = 2
    BY DEF Names
  <2>2. \A k \in 1..2 : order[k] # "device" /\ order[k] # "action"
    OBVIOUS
  <2>3. \A k \in 1..2 : fields[k] = Meaning(order[k])
    BY DEF Meaning
  <2>4. BuildTail[type] = order /\ FieldTail[type] = fields /\ ~HasAction(type)
    BY <1>4 DEF BuildTail, FieldTail, HasAction
  <2>5. Members[type] = BaseMembers \cup Range(order)
    BY <1>4 DEF Members, MouseScroll, Range
  <2> HIDE DEF order, fields
  <2>6. /\ BuildTail[type] \in Seq(Names) /\ FieldTail[type] \in Seq(Names)
        /\ Len(BuildTail[type]) = 2 /\ Len(FieldTail[type]) = 2
    BY <2>1, <2>4, Zenon
  <2>7. \A k \in 1..2 : /\ FieldTail[type][k] = Meaning(BuildTail[type][k])
                       /\ BuildTail[type][k] # "device" /\ BuildTail[type][k] # "action"
    BY <2>2, <2>3, <2>4, Zenon
  <2>8. Members[type] = BaseMembers \cup Range(BuildTail[type])
    BY <2>4, <2>5, Zenon
  <2> QED BY <2>4, <2>6, <2>7, <2>8
<1> QED BY <1>1, <1>2, <1>3, <1>4 DEF EntryType

\* What is at a position of a base with a tail.
LEMMA ConcatAt ==
    ASSUME NEW base \in Seq(Names), NEW tail \in Seq(Names), NEW m \in Nat, Len(base) = m,
           NEW k \in 1..m + Len(tail)
    PROVE  /\ (base \o tail)[k] = IF k <= m THEN base[k] ELSE tail[k - m]
           /\ Len(base \o tail) = m + Len(tail)
BY ConcatProperties

\* At each position of an entry: the names of the field and of the column are those of the
\* member that is there, the device is the 15th, and the button action is the last.
LEMMA ListsAgree ==
    ASSUME NEW type \in EntryType
    PROVE  /\ Members[type] = Range(Order[type])
           /\ \A k \in 1..Len(Order[type]) :
                 /\ Fields[type][k] = Meaning(Order[type][k])
                 /\ Columns[type][k + 1] = Meaning(Order[type][k])
                 /\ Order[type][k] = "device" <=> k = DeviceTypeIndex
                 /\ Order[type][k] = "action" <=> HasAction(type) /\ k = Len(Order[type])
           /\ Columns[type][1] = "uuid"
<1> DEFINE tail == BuildTail[type]
           fields == FieldTail[type]
           n == Len(fields)
<1>1. /\ tail \in Seq(Names) /\ fields \in Seq(Names) /\ Len(tail) = n /\ n \in 1..4
      /\ \A k \in 1..n : /\ fields[k] = Meaning(tail[k]) /\ tail[k] # "device"
                         /\ tail[k] = "action" <=> HasAction(type) /\ k = n
      /\ Members[type] = BaseMembers \cup Range(tail)
  BY TailsAgree
<1>2. /\ Order[type] = BuildBase \o tail /\ Fields[type] = BaseFields \o fields
      /\ Columns[type] = BaseColumns \o fields
  BY ListsSplit
<1> HIDE DEF tail, fields
<1>3. Members[type] = Range(Order[type])
  <2>1. Range(BuildBase \o tail) = Range(BuildBase) \cup Range(tail)
    <3>1. BuildBase \in Seq(Names) /\ tail \in Seq(Names)
      BY <1>1, BasesAgree, Zenon
    <3> QED BY <3>1, RangeConcatenation
  <2> QED BY <2>1, <1>1, <1>2, BasesAgree, Zenon
<1>4. Len(Order[type]) = 15 + n
  <2>1. BuildBase \in Seq(Names) /\ Len(BuildBase) = 15 /\ tail \in Seq(Names)
    BY <1>1, BasesAgree
  <2>2. Len(BuildBase \o tail) = Len(BuildBase) + Len(tail)
    BY <2>1, ConcatProperties, Zenon
  <2> QED BY <2>1, <2>2, <1>1, <1>2
<1> HIDE DEF n
<1>5. ASSUME NEW k \in 1..15 + n
      PROVE  /\ Order[type][k] = IF k <= 15 THEN BuildBase[k] ELSE tail[k - 15]
             /\ Fields[type][k] = IF k <= 15 THEN BaseFields[k] ELSE fields[k - 15]
             /\ Columns[type][k + 1] = IF k <= 15 THEN BaseColumns[k + 1] ELSE fields[k - 15]
  <2>1. /\ k + 1 - 16 = k - 15 /\ k + 1 \in 1..16 + n /\ (k + 1 <= 16 <=> k <= 15)
        /\ 15 \in Nat /\ 16 \in Nat /\ Len(fields) = n
    BY <1>1 DEF n
  <2>2. Order[type][k] = IF k <= 15 THEN BuildBase[k] ELSE tail[k - 15]
    <3>1. BuildBase \in Seq(Names) /\ Len(BuildBase) = 15 /\ tail \in Seq(Names) /\ Len(tail) = n
      BY <2>1, <1>1, BasesAgree
    <3>2. k \in 1..15 + Len(tail)
      BY <2>1, <3>1
    <3>3. (BuildBase \o tail)[k] = IF k <= 15 THEN BuildBase[k] ELSE tail[k - 15]
      BY <2>1, <3>1, <3>2, ConcatAt, Zenon
    <3> QED BY <3>3, <1>2, Zenon
  <2>3. Fields[type][k] = IF k <= 15 THEN BaseFields[k] ELSE fields[k - 15]
    <3>1. BaseFields \in Seq(Names) /\ Len(BaseFields) = 15 /\ fields \in Seq(Names) /\ Len(fields) = n
      BY <2>1, <1>1, BasesAgree
    <3>2. k \in 1..15 + Len(fields)
      BY <2>1, <3>1
    <3>3. (BaseFields \o fields)[k] = IF k <= 15 THEN BaseFields[k] ELSE fields[k - 15]
      BY <2>1, <3>1, <3>2, ConcatAt, Zenon
    <3> QED BY <3>3, <1>2, Zenon
  <2>4. ASSUME NEW j \in 1..16 + n
        PROVE  /\ j <= 16 => Columns[type][j] = BaseColumns[j]
               /\ j > 16 => Columns[type][j] = fields[j - 16]
    <3>1. BaseColumns \in Seq(Names) /\ Len(BaseColumns) = 16 /\ fields \in Seq(Names)
          /\ j \in 1..16 + Len(fields)
      BY <2>1, <1>1, BasesAgree
    <3>2. (BaseColumns \o fields)[j] = IF j <= 16 THEN BaseColumns[j] ELSE fields[j - 16]
      BY <2>1, <3>1, ConcatAt, Zenon
    <3>3. Columns[type][j] = IF j <= 16 THEN BaseColumns[j] ELSE fields[j - 16]
      BY <3>2, <1>2, Zenon
    <3> QED BY <3>3, <1>1
  <2>5. /\ k <= 15 => Columns[type][k + 1] = BaseColumns[k + 1]
        /\ k > 15 => Columns[type][k + 1] = fields[k - 15]
    BY <2>1, <2>4, <1>1
  <2> QED BY <2>2, <2>3, <2>5, <1>1
<1>6. Columns[type][1] = "uuid"
  <2>1. 1 \in 1..16 + Len(fields) /\ 1 <= 16
    BY <1>1 DEF n
  <2>2. BaseColumns \in Seq(Names) /\ fields \in Seq(Names) /\ Len(BaseColumns) = 16
    BY <1>1, BasesAgree
  <2>3. (BaseColumns \o fields)[1] = IF 1 <= 16 THEN BaseColumns[1] ELSE fields[1 - 16]
    BY <2>1, <2>2, ConcatAt, Zenon
  <2> QED BY <2>1, <2>3, <1>2, BasesAgree, Zenon
<1>7. ASSUME NEW k \in 1..15 + n
      PROVE  /\ Fields[type][k] = Meaning(Order[type][k])
             /\ Columns[type][k + 1] = Meaning(Order[type][k])
             /\ Order[type][k] = "device" <=> k = 15
             /\ Order[type][k] = "action" <=> HasAction(type) /\ k = 15 + n
  <2>1. CASE k <= 15
    <3>1. k \in 1..15 /\ k # 15 + n
      BY <2>1, <1>1
    <3>2. /\ Order[type][k] = BuildBase[k] /\ Fields[type][k] = BaseFields[k]
          /\ Columns[type][k + 1] = BaseColumns[k + 1]
      BY <2>1, <1>5
    <3>3. /\ BaseFields[k] = Meaning(BuildBase[k]) /\ BaseColumns[k + 1] = BaseFields[k]
          /\ BuildBase[k] = "device" <=> k = 15
          /\ BuildBase[k] # "action"
      BY <3>1, BasesAgree, Zenon
    <3> QED BY <3>1, <3>2, <3>3, Zenon
  <2>2. CASE k > 15
    <3>1. k - 15 \in 1..n /\ ~(k <= 15) /\ (k - 15 = n <=> k = 15 + n) /\ k # 15
      BY <2>2, <1>1
    <3> QED BY <3>1, <1>1, <1>5
  <2> QED BY <2>1, <2>2, <1>1
<1> QED BY <1>3, <1>4, <1>6, <1>7 DEF DeviceTypeIndex

\* Of the names of members, one is documented as the device type, one as the button action.
LEMMA Meanings ==
    ASSUME NEW type \in EntryType, NEW member \in Members[type]
    PROVE  /\ Meaning(member) = "device_type" <=> member = "device"
           /\ Meaning(member) = "button_action" <=> member = "action"
<1>1. member # "device_type" /\ member # "button_action"
  BY DEF EntryType, Members, Key, MouseClick, MouseMove, MouseScroll, BaseMembers
<1> QED BY <1>1 DEF Meaning

\* The column named device_type is the 16th of each table, after the UUID.
LEMMA ColumnOfDeviceType ==
    ASSUME NEW type \in EntryType, NEW k \in 1..Len(Order[type]) + 1, Len(Order[type]) \in Nat,
           Columns[type][k] = "device_type"
    PROVE  k = DeviceTypeIndex + 1
<1>1. k # 1
  BY ListsAgree
<1>2. k - 1 \in 1..Len(Order[type]) /\ k - 1 + 1 = k
  BY <1>1
<1>3. Order[type][k - 1] \in Members[type]
  BY <1>2, ListsAgree, OrderLength DEF Range
<1>4. Meaning(Order[type][k - 1]) = "device_type"
  BY <1>2, ListsAgree
<1>5. k - 1 = DeviceTypeIndex
  BY <1>2, <1>3, <1>4, Meanings, ListsAgree
<1> QED BY <1>5 DEF DeviceTypeIndex

\* The field named device_type is the 15th of each type of entry.
LEMMA FieldOfDeviceType ==
    ASSUME NEW type \in EntryType, NEW k \in 1..Len(Order[type]),
           Fields[type][k] = "device_type"
    PROVE  k = DeviceTypeIndex
<1>1. Order[type][k] \in Members[type]
  BY ListsAgree, OrderLength DEF Range
<1> QED BY <1>1, Meanings, ListsAgree

\* The positions of an entry.
LEMMA Positions ==
    ASSUME NEW entry \in Entry
    PROVE  /\ entry.type \in EntryType
           /\ DOMAIN entry.data = 1..Len(Order[entry.type]) /\ Len(Order[entry.type]) \in Nat
           /\ Len(entry.data) = Len(Order[entry.type]) /\ Len(entry.data) >= DeviceTypeIndex
<1>1. entry.type \in EntryType /\ entry.data \in Seq(Texts)
      /\ Len(entry.data) = Len(Order[entry.type])
  BY DEF Entry
<1>2. Len(Order[entry.type]) \in {16, 17, 19}
  <2>1. \A type \in EntryType : Len(Order[type]) \in {16, 17, 19}
    BY OrderLength, Zenon DEF EntryType
  <2> QED BY <2>1, <1>1
<1>3. Len(entry.data) \in {16, 17, 19}
  BY <1>1, <1>2, Zenon
<1>4. Len(entry.data) >= DeviceTypeIndex
  <2>1. ASSUME NEW n \in Int, n \in {16, 17, 19} PROVE n >= DeviceTypeIndex
    BY <2>1 DEF DeviceTypeIndex
  <2>2. Len(entry.data) \in Int
    BY <1>1
  <2> QED BY <2>1, <2>2, <1>3, Zenon
<1>5. DOMAIN entry.data = 1..Len(entry.data)
  BY <1>1
<1>6. Len(Order[entry.type]) \in Nat
  BY <1>2
<1>7. DOMAIN entry.data = 1..Len(Order[entry.type])
  BY <1>1, <1>5, Zenon
<1> QED BY <1>1, <1>4, <1>6, <1>7, Zenon

\* A row made from an entry that passed the filter shows only what the filter lists.
LEMMA RowOfKept ==
    ASSUME NEW entry \in Entry, Forwards(entry), allowed # None
    PROVE  RowIsAllowed(InsertEvents(entry))
<1> DEFINE row == InsertEvents(entry)
<1>1. entry \in Entry /\ Forwards(entry)
  OBVIOUS
<1>2. FromUnderlying(DeviceType, entry.data[DeviceTypeIndex]) \in allowed \cup {None}
  BY <1>1, Positions DEF Forwards, DeviceTypeIndex
<1>3. row.table = entry.type /\ row.values = <<"uuid">> \o entry.data
  BY DEF InsertEvents
<1> HIDE DEF row
<1>4. SUFFICES ASSUME NEW k \in DOMAIN row.values, Columns[row.table][k] = "device_type"
               PROVE  FromUnderlying(DeviceType, row.values[k]) \in allowed \cup {None}
  BY DEF RowIsAllowed, row
<1>5. /\ DOMAIN row.values = 1..Len(entry.data) + 1 /\ Len(entry.data) \in Nat
      /\ \A j \in 2..Len(entry.data) + 1 : row.values[j] = entry.data[j - 1]
  <2>1. entry.data \in Seq(Texts \cup {"uuid"}) /\ <<"uuid">> \in Seq(Texts \cup {"uuid"})
    BY <1>1 DEF Entry
  <2>2. Len(<<"uuid">>) = 1
    OBVIOUS
  <2> QED BY <1>3, <2>1, <2>2, ConcatProperties
<1>6. k = DeviceTypeIndex + 1
  BY <1>1, <1>3, <1>4, <1>5, Positions, ColumnOfDeviceType
<1>7. row.values[k] = entry.data[DeviceTypeIndex]
  BY <1>1, <1>5, <1>6, Positions DEF DeviceTypeIndex
<1> QED BY <1>2, <1>7

\* So does what JsonStorage writes of it.
LEMMA JsonOfKept ==
    ASSUME NEW entry \in Entry, Forwards(entry), allowed # None
    PROVE  JsonIsAllowed(JsonEntry(entry))
<1> DEFINE json == JsonEntry(entry)
           named == ToNamedRepresentation(entry)
           device == FromUnderlying(DeviceType, entry.data[DeviceTypeIndex])
<1>1. entry \in Entry /\ Forwards(entry)
  OBVIOUS
<1>2. device \in allowed \cup {None}
  BY <1>1, Positions DEF Forwards, DeviceTypeIndex
<1>3. DOMAIN named.data = DOMAIN entry.data
      /\ (DeviceTypeIndex \in DOMAIN entry.data =>
             named.data[DeviceTypeIndex] = OptionalToString(DeviceName, device))
  BY <1>1 DEF ToNamedRepresentation, Entry
<1>4. json.fields = [k \in DOMAIN named.data |->
                        [name |-> Fields[entry.type][k], data |-> named.data[k]]]
  BY DEF JsonEntry
<1> HIDE DEF json, named
<1>5. SUFFICES ASSUME NEW k \in DOMAIN json.fields, json.fields[k].name = "device_type"
               PROVE  json.fields[k].data \in {DeviceName[d] : d \in allowed} \cup {""}
  BY DEF JsonIsAllowed, json
<1>6. k \in DOMAIN entry.data /\ Fields[entry.type][k] = "device_type"
      /\ json.fields[k].data = named.data[k]
  BY <1>3, <1>4, <1>5
<1>7. k = DeviceTypeIndex
  BY <1>1, <1>6, Positions, FieldOfDeviceType
<1>8. json.fields[k].data = OptionalToString(DeviceName, device)
  BY <1>3, <1>6, <1>7
<1> HIDE DEF device
<1> QED BY <1>2, <1>8 DEF OptionalToString

(***************************************************************************)
(* The inductive invariant.                                                *)
(***************************************************************************)

\* The initial state has it.
LEMMA InitHolds == Init => IInv
  BY DEF Init, IInv, EmptyWhileParsing, ReaderOK, QueueOK, WriterOK, Contents

\* The filter is set only while nothing is on its way, so what was kept stays kept.
LEMMA ParseHolds == IInv /\ (\E raw \in RawFilters, outs \in OutputLists : Parse(raw, outs)) => IInv'
<1> SUFFICES ASSUME IInv, NEW raw \in RawFilters, NEW outs \in OutputLists, Parse(raw, outs)
             PROVE  IInv'
  OBVIOUS
<1>1. /\ pc = "parse" /\ pc' = "open"
      /\ stores' = <<>> /\ written' = <<>>
      /\ filtered' = <<>> /\ buffer' = <<>> /\ taken' = <<>> /\ batch' = <<>>
      /\ data' = data /\ given' = given /\ reader' = reader /\ at' = at
  BY DEF Parse, IInv, EmptyWhileParsing, readerVars, writerVars
<1>2. EmptyWhileParsing'
  BY <1>1 DEF EmptyWhileParsing
<1>3. ReaderOK'
  BY <1>1 DEF IInv, ReaderOK, Built
<1>4. QueueOK'
  BY <1>1 DEF QueueOK
<1>5. WriterOK'
  BY <1>1 DEF IInv, WriterOK, Contents
<1> QED BY <1>2, <1>3, <1>4, <1>5 DEF IInv

\* While the filter and the stores stay as they are, so do the sets of what may be there.
LEMMA SetsStay ==
    ASSUME allowed' = allowed, given' = given
    PROVE  Kept' = Kept /\ Rows' = Rows /\ Documents' = Documents /\ Built' = Built
<1>1. Built' = Built
  BY DEF Built
<1>2. Kept' = Kept
  BY <1>1 DEF Kept, Forwards
<1> QED BY <1>1, <1>2 DEF Rows, Documents

\* When an event is built there are more of them.
LEMMA SetsGrow ==
    ASSUME allowed' = allowed, NEW event \in Seq(Builders), given \in Seq(Builders),
           given' = given \o event
    PROVE  /\ given' \in Seq(Builders) /\ Range(event) \subseteq Range(given')
           /\ Built \subseteq Built' /\ Kept \subseteq Kept'
           /\ Rows \subseteq Rows' /\ Documents \subseteq Documents'
<1>1. given' \in Seq(Builders) /\ Range(given') = Range(given) \cup Range(event)
  BY RangeConcatenation
<1>2. Built \subseteq Built'
  BY <1>1 DEF Built
<1>3. Kept \subseteq Kept'
  BY <1>2 DEF Kept, Forwards
<1>4. Rows \subseteq Rows'
  BY <1>3 DEF Rows
<1>5. Documents \subseteq Documents'
  <2>1. {JsonEntry(entry) : entry \in Kept} \subseteq {JsonEntry(entry) : entry \in Kept'}
    BY <1>3
  <2> QED BY <2>1, SeqMonotonic DEF Documents
<1> QED BY <1>1, <1>2, <1>3, <1>4, <1>5

\* So what is on its way, or was written, stays among them.
LEMMA EventHolds ==
    ASSUME IInv, NEW event \in Events, TransformEvent(event)
    PROVE  IInv'
<1>1. /\ pc = "run" /\ reader' = "filter" /\ given' = given \o event /\ filtered' = <<>>
      /\ data' = [k \in DOMAIN event |-> Build(event[k])]
      /\ UNCHANGED <<pc, allowed, stores, buffer, taken, batch, at, written>>
  BY DEF TransformEvent, mainVars, writerVars
<1>2. event \in Seq(Builders) /\ given \in Seq(Builders)
  BY StoresAssumption DEF IInv, ReaderOK, Builders
<1>3. /\ given' \in Seq(Builders) /\ Range(event) \subseteq Range(given')
      /\ Kept \subseteq Kept' /\ Rows \subseteq Rows' /\ Documents \subseteq Documents'
  BY <1>1, <1>2, SetsGrow
<1>4. data' \in Seq(Built')
  <2>1. DOMAIN event = 1..Len(event) /\ Len(event) \in Nat
    BY <1>2
  <2>2. \A k \in 1..Len(event) : Build(event[k]) \in Built'
    BY <1>3, <2>1 DEF Built, Range
  <2> QED BY <1>1, <2>1, <2>2
<1>5. ReaderOK'
  BY <1>1, <1>3, <1>4 DEF ReaderOK
<1>6. Seq(Kept) \subseteq Seq(Kept') /\ Seq(Seq(Kept)) \subseteq Seq(Seq(Kept'))
  BY <1>3, SeqMonotonic
<1>7. QueueOK'
  BY <1>1, <1>6 DEF IInv, QueueOK
<1>8. Seq(Rows) \subseteq Seq(Rows') /\ Seq(Documents) \subseteq Seq(Documents')
  BY <1>3, SeqMonotonic
<1>9. WriterOK'
  <2>1. UNION {Seq(Rows), Seq(Documents)} \subseteq UNION {Seq(Rows'), Seq(Documents')}
    BY <1>8
  <2>2. written' \in Seq(UNION {Seq(Rows'), Seq(Documents')})
    BY <1>1, <2>1, SeqMonotonic DEF IInv, WriterOK
  <2>3. \A s \in DOMAIN stores : written[s] \in Contents(s)
    BY DEF IInv, WriterOK
  <2>4. \A s \in DOMAIN stores' : written'[s] \in Contents(s)'
    BY <1>1, <1>8, <2>3 DEF Contents
  <2> QED BY <1>1, <2>2, <2>4 DEF IInv, WriterOK
<1> QED BY <1>1, <1>5, <1>7, <1>9 DEF IInv, EmptyWhileParsing

\* A store is added with nothing in it.
LEMMA AddStoreHolds ==
    ASSUME IInv, NEW good \in BOOLEAN, pc = "open", AddStore(good),
           UNCHANGED <<pc, outputs, allowed, readerVars, buffer, writer, taken, batch, at>>
    PROVE  IInv'
<1>1. /\ pc' = "open" /\ UNCHANGED <<reader, data, filtered, given, buffer, taken, batch, at, allowed>>
      /\ Kept' = Kept /\ Rows' = Rows /\ Documents' = Documents /\ Built' = Built
  BY SetsStay DEF readerVars
<1>2. EmptyWhileParsing' /\ ReaderOK' /\ QueueOK'
  BY <1>1 DEF IInv, EmptyWhileParsing, ReaderOK, QueueOK
<1> DEFINE Store == [type : {"sqlite", "json"}, good : BOOLEAN]
           store == [type |-> GetStorageType(NextOutput), good |-> good]
           All == UNION {Seq(Rows), Seq(Documents)}
<1>3. store \in Store
  BY DEF GetStorageType
<1>4. stores \in Seq(Store) /\ written \in Seq(All) /\ Len(written) = Len(stores)
  BY DEF IInv, WriterOK
<1>5. stores' = Append(stores, store) /\ written' = Append(written, <<>>)
  BY DEF AddStore
<1>6. <<>> \in Seq(Rows) /\ <<>> \in Seq(Documents) /\ <<>> \in All
  OBVIOUS
<1> HIDE DEF Store, store, All
<1>7. /\ stores' \in Seq(Store) /\ written' \in Seq(All)
      /\ DOMAIN written' = DOMAIN stores' /\ DOMAIN stores' = 1..Len(stores) + 1
      /\ \A s \in 1..Len(stores) : stores'[s] = stores[s] /\ written'[s] = written[s]
      /\ written'[Len(stores) + 1] = <<>>
  BY <1>3, <1>4, <1>5, <1>6
<1>8. ASSUME NEW s \in DOMAIN stores' PROVE written'[s] \in Contents(s)'
  <2>1. CASE s \in 1..Len(stores)
    <3>1. written[s] \in Contents(s)
      BY <2>1, <1>4 DEF IInv, WriterOK
    <3> QED BY <3>1, <2>1, <1>1, <1>7 DEF Contents
  <2>2. CASE s = Len(stores) + 1
    BY <2>2, <1>1, <1>6, <1>7 DEF Contents
  <2> QED BY <2>1, <2>2, <1>4, <1>7
<1>9. WriterOK'
  BY <1>1, <1>7, <1>8 DEF IInv, WriterOK, Store, All
<1> QED BY <1>2, <1>9 DEF IInv

\* An entry is kept if it may be.
LEMMA ReaderHolds == IInv /\ (ForwardAll \/ FilterEntry \/ ForwardFiltered) => IInv'
<1> SUFFICES ASSUME IInv, ForwardAll \/ FilterEntry \/ ForwardFiltered
             PROVE  IInv'
  OBVIOUS
<1>1. pc = "run" /\ UNCHANGED <<pc, allowed, given, stores, writer, taken, batch, at, written>>
  BY DEF ForwardAll, FilterEntry, ForwardFiltered, mainVars, writerVars, IInv,
         ReaderOK
<1>2. Kept' = Kept /\ Rows' = Rows /\ Documents' = Documents /\ Built' = Built
  BY <1>1, SetsStay
<1>3. EmptyWhileParsing' /\ WriterOK'
  BY <1>1, <1>2 DEF IInv, EmptyWhileParsing, WriterOK, Contents
<1>4. data \in Seq(Built) /\ filtered \in Seq(Kept) /\ buffer \in Seq(Seq(Kept))
  BY DEF IInv, ReaderOK, QueueOK
<1>5. data' \in Seq(Built) /\ filtered' \in Seq(Kept) /\ buffer' \in Seq(Seq(Kept))
  <2>2. CASE ForwardAll
    <3>1. data' = <<>> /\ filtered' = filtered /\ buffer' = Append(buffer, data) /\ Kept = Built
      BY <2>2 DEF ForwardAll, Kept
    <3> QED BY <3>1, <1>4
  <2>3. CASE FilterEntry
    <3>1. data # <<>> /\ data' = Tail(data) /\ buffer' = buffer
          /\ filtered' = IF Forwards(Head(data)) THEN Append(filtered, Head(data)) ELSE filtered
      BY <2>3 DEF FilterEntry
    <3>2. Head(data) \in Built /\ Tail(data) \in Seq(Built)
      BY <3>1, <1>4
    <3>3. Forwards(Head(data)) => Head(data) \in Kept
      BY <3>2 DEF Kept
    <3> QED BY <3>1, <3>2, <3>3, <1>4
  <2>4. CASE ForwardFiltered
    BY <2>4, <1>4 DEF ForwardFiltered
  <2> QED BY <2>2, <2>3, <2>4
<1>6. ReaderOK' /\ QueueOK'
  BY <1>1, <1>2, <1>5 DEF IInv, ReaderOK, QueueOK
<1> QED BY <1>3, <1>6 DEF IInv

\* A buffer is taken and merged whole: what comes together was kept.
LEMMA MergeHolds ==
    IInv /\ (InitFails \/ Run \/ TakeBuffer \/ MergeWith \/ StartStoring \/ FinishStoring
                \/ UNCHANGED vars)
        => IInv'
<1> SUFFICES ASSUME IInv,
                    InitFails \/ Run \/ TakeBuffer \/ MergeWith \/ StartStoring \/ FinishStoring
                        \/ UNCHANGED vars
             PROVE  IInv'
  OBVIOUS
<1>1. /\ UNCHANGED <<allowed, given, stores, data, filtered, reader, written>>
      /\ pc' = "parse" => pc = "parse"
      /\ pc = "run" => pc' = "run"
  BY DEF InitFails, Run, TakeBuffer, MergeWith, StartStoring, FinishStoring, vars, mainVars,
         readerVars, writerVars
<1>2. Kept' = Kept /\ Rows' = Rows /\ Documents' = Documents /\ Built' = Built
  BY <1>1, SetsStay
<1>3. buffer \in Seq(Seq(Kept)) /\ taken \in Seq(Seq(Kept)) /\ batch \in Seq(Kept)
      /\ at \in Nat \ {0}
  BY DEF IInv, QueueOK, WriterOK
<1>4. /\ buffer' \in Seq(Seq(Kept)) /\ taken' \in Seq(Seq(Kept)) /\ batch' \in Seq(Kept)
      /\ at' \in Nat \ {0}
      /\ pc = "parse" => buffer' = <<>> /\ taken' = <<>> /\ batch' = <<>>
  <2>1. CASE InitFails \/ Run \/ StartStoring \/ FinishStoring \/ UNCHANGED vars
    <3>1. buffer' = buffer /\ taken' = taken /\ at' \in {at, 1} /\ batch' \in {batch, <<>>}
      BY <2>1 DEF InitFails, Run, StartStoring, FinishStoring, vars, mainVars, readerVars,
                  writerVars
    <3>2. pc = "parse" => buffer = <<>> /\ taken = <<>> /\ batch = <<>>
      BY DEF IInv, EmptyWhileParsing
    <3>3. batch' \in Seq(Kept)
      <4>1. <<>> \in Seq(Kept)
        OBVIOUS
      <4> QED BY <3>1, <4>1, <1>3, Zenon
    <3>4. at' \in Nat \ {0}
      BY <3>1, <1>3
    <3>5. pc = "parse" => buffer' = <<>> /\ taken' = <<>> /\ batch' = <<>>
      BY <3>1, <3>2, Zenon
    <3>6. buffer' \in Seq(Seq(Kept)) /\ taken' \in Seq(Seq(Kept))
      BY <3>1, <1>3, Zenon
    <3> QED BY <3>3, <3>4, <3>5, <3>6, Zenon
  <2>2. CASE TakeBuffer
    BY <2>2, <1>3 DEF TakeBuffer
  <2>3. CASE MergeWith
    <3>1. taken # <<>> /\ taken' = Tail(taken) /\ batch' = batch \o Head(taken)
          /\ UNCHANGED <<buffer, at>> /\ pc # "parse"
      BY <2>3 DEF MergeWith, IInv, EmptyWhileParsing
    <3>2. Head(taken) \in Seq(Kept) /\ Tail(taken) \in Seq(Seq(Kept))
      BY <3>1, <1>3
    <3>3. batch \o Head(taken) \in Seq(Kept)
      BY <3>2, <1>3
    <3> QED BY <3>1, <3>2, <3>3, <1>3
  <2> QED BY <2>1, <2>2, <2>3
<1>5. EmptyWhileParsing' /\ ReaderOK' /\ QueueOK' /\ WriterOK'
  BY <1>1, <1>2, <1>4 DEF IInv, EmptyWhileParsing, ReaderOK, QueueOK, WriterOK, Contents
<1> QED BY <1>5 DEF IInv

\* A store gets a batch that was kept.
LEMMA StoreHolds == IInv /\ (StoreInDatabase \/ StoreAsJson) => IInv'
<1> SUFFICES ASSUME IInv, StoreInDatabase \/ StoreAsJson
             PROVE  IInv'
  OBVIOUS
<1> DEFINE All == UNION {Seq(Rows), Seq(Documents)}
<1>1. /\ UNCHANGED <<pc, allowed, given, stores, reader, data, filtered, buffer, taken, batch>>
      /\ at \in DOMAIN stores /\ at' = at + 1
  BY DEF StoreInDatabase, StoreAsJson, mainVars, readerVars, IInv, WriterOK
<1>2. Kept' = Kept /\ Rows' = Rows /\ Documents' = Documents /\ Built' = Built
  BY <1>1, SetsStay
<1>3. pc # "parse"
  BY <1>1 DEF IInv, EmptyWhileParsing
<1>4. batch \in Seq(Kept) /\ DOMAIN batch = 1..Len(batch) /\ Len(batch) \in Nat
  BY DEF IInv, QueueOK
<1>5. written \in Seq(All) /\ DOMAIN written = DOMAIN stores /\ written[at] \in Contents(at)
  BY <1>1 DEF IInv, WriterOK
<1>6. PICK new \in Contents(at) : written' = [written EXCEPT ![at] = new]
  <2>1. CASE StoreInDatabase
    <3> DEFINE rows == [k \in DOMAIN batch |-> InsertEvents(batch[k])]
    <3>1. stores[at].type = "sqlite" /\ written' = [written EXCEPT ![at] = @ \o rows]
      BY <2>1 DEF StoreInDatabase
    <3>2. rows \in Seq(Rows)
      <4>1. \A k \in 1..Len(batch) : InsertEvents(batch[k]) \in Rows
        BY <1>4 DEF Rows
      <4> QED BY <4>1, <1>4
    <3>3. written[at] \in Seq(Rows) /\ Contents(at) = Seq(Rows)
      BY <3>1, <1>5 DEF Contents
    <3> HIDE DEF rows
    <3>4. written[at] \o rows \in Contents(at)
      BY <3>2, <3>3
    <3> QED BY <3>1, <3>4
  <2>2. CASE StoreAsJson
    <3> DEFINE document == [k \in DOMAIN batch |-> JsonEntry(batch[k])]
    <3>1. stores[at].type = "json"
          /\ (\/ written' = written
              \/ written' = [written EXCEPT ![at] = Append(@, document)])
      BY <2>2 DEF StoreAsJson
    <3>2. document \in Documents
      <4>1. \A k \in 1..Len(batch) : JsonEntry(batch[k]) \in {JsonEntry(entry) : entry \in Kept}
        BY <1>4
      <4> QED BY <4>1, <1>4 DEF Documents
    <3>3. written[at] \in Seq(Documents) /\ Contents(at) = Seq(Documents)
      BY <3>1, <1>5 DEF Contents
    <3> HIDE DEF document
    <3>4. Append(written[at], document) \in Contents(at)
      BY <3>2, <3>3
    <3>5. written = [written EXCEPT ![at] = written[at]]
      BY <1>5
    <3> QED BY <3>1, <3>4, <3>5, <1>5
  <2> QED BY <2>1, <2>2
<1>7. new \in All
  BY <1>6 DEF Contents
<1> HIDE DEF All
<1>8. written' \in Seq(All) /\ DOMAIN written' = DOMAIN stores
      /\ \A s \in DOMAIN stores : written'[s] = IF s = at THEN new ELSE written[s]
  BY <1>1, <1>5, <1>6, <1>7
<1>9. \A s \in DOMAIN stores' : written'[s] \in Contents(s)'
  <2>1. ASSUME NEW s \in DOMAIN stores PROVE written'[s] \in Contents(s)
    BY <2>1, <1>6, <1>8 DEF IInv, WriterOK
  <2> QED BY <2>1, <1>1, <1>2 DEF Contents
<1>10. WriterOK'
  BY <1>1, <1>2, <1>8, <1>9 DEF IInv, WriterOK, All
<1>11. EmptyWhileParsing' /\ ReaderOK' /\ QueueOK'
  BY <1>1, <1>2, <1>3 DEF IInv, EmptyWhileParsing, ReaderOK, QueueOK
<1> QED BY <1>10, <1>11 DEF IInv

\* Every step keeps the invariant.
LEMMA StepHolds == IInv /\ [Next]_vars => IInv'
<1>1. IInv /\ OpenDatabase => IInv'
  BY AddStoreHolds DEF OpenDatabase
<1>2. IInv /\ (\E good \in BOOLEAN : OpenStream(good)) => IInv'
  BY AddStoreHolds DEF OpenStream
<1> QED BY <1>1, <1>2, ParseHolds, EventHolds, ReaderHolds, MergeHolds, StoreHolds DEF Next

\* What is kept shows only what the filter lists, in every output.
LEMMA KeptIsAllowed == IInv => OnlyAllowedDevices
<1> SUFFICES ASSUME IInv, allowed # None, NEW s \in DOMAIN written, NEW k \in DOMAIN written[s]
             PROVE  IF stores[s].type = "sqlite" THEN RowIsAllowed(written[s][k])
                    ELSE \A j \in DOMAIN written[s][k] : JsonIsAllowed(written[s][k][j])
  BY DEF OnlyAllowedDevices
<1>1. written[s] \in Contents(s)
  BY DEF IInv, WriterOK
<1>4. \A entry \in Kept : entry \in Entry /\ Forwards(entry)
  BY BuiltIsEntry DEF IInv, ReaderOK, Kept
<1>2. CASE stores[s].type = "sqlite"
  <2>1. written[s][k] \in Rows
    BY <1>1, <1>2 DEF Contents
  <2> QED BY <2>1, <1>2, <1>4, RowOfKept DEF Rows
<1>3. CASE stores[s].type # "sqlite"
  <2>1. written[s][k] \in Documents
    BY <1>1, <1>3 DEF Contents
  <2>2. \A j \in DOMAIN written[s][k] : written[s][k][j] \in {JsonEntry(entry) : entry \in Kept}
    BY <2>1 DEF Documents
  <2> QED BY <2>2, <1>3, <1>4, JsonOfKept
<1> QED BY <1>2, <1>3

\* For all outputs, filters and events: no output ever holds the device type of a device
\* that the filter does not list.
THEOREM OnlyAllowedDevicesAlways == Spec => []OnlyAllowedDevices
BY InitHolds, StepHolds, KeptIsAllowed, PTL DEF Spec

(***************************************************************************)
(* Types.                                                                  *)
(***************************************************************************)

\* What main has parsed, where the writer is, and what JSON outputs never get.
ControlOK ==
    /\ pc \in {"parse", "open", "run", "failed"}
    /\ outputs \in Seq(Outputs) /\ allowed \in {None} \cup SUBSET Range(DeviceType)
    /\ reader \in {"next", "filter"} /\ writer \in {"idle", "merge", "store"}
    /\ at \in 1..Len(stores) + 1
    /\ \A s \in DOMAIN stores :
          stores[s].type = "json" => \A k \in DOMAIN written[s] : written[s][k] # <<>>

\* The initial state has it.
LEMMA InitControl == Init => ControlOK
<1>1. Len(<<>>) = 0 /\ 1 \in 1..0 + 1
  OBVIOUS
<1> QED  BY <1>1 DEF Init, ControlOK

\* The filter that Cli parses lists device types.
LEMMA FilterLists ==
    ASSUME NEW raw \in RawFilters
    PROVE  Filter(raw) \in {None} \cup SUBSET Range(DeviceType)
<1> SUFFICES ASSUME NEW value \in raw, "all" \notin raw
             PROVE  DeviceTypeMappings[value] \in Range(DeviceType)
  BY DEF Filter
<1>1. value \in {"mouse", "keyboard", "touchpad", "touchscreen", "tablet"}
  BY StoresAssumption
<1>2. DeviceTypeMappings[value] \in {"kMouse", "kKeyboard", "kTouchpad", "kTouchscreen", "kTablet"}
  BY <1>1 DEF DeviceTypeMappings
<1>3. /\ DeviceType[1] = "kMouse" /\ DeviceType[2] = "kKeyboard" /\ DeviceType[3] = "kTouchpad"
      /\ DeviceType[4] = "kTouchscreen" /\ DeviceType[5] = "kTablet" /\ DOMAIN DeviceType = 1..6
  BY DEF DeviceType
<1> QED  BY <1>2, <1>3 DEF Range

\* Parsing sets the filter and the outputs.
LEMMA ParseControl ==
    ASSUME ControlOK, NEW raw \in RawFilters, NEW outs \in OutputLists, Parse(raw, outs)
    PROVE  ControlOK'
<1>1. /\ pc = "parse" /\ pc' = "open" /\ allowed' = Filter(raw)
      /\ outputs' = IF outs = <<>> THEN <<"-">> ELSE outs
      /\ UNCHANGED <<stores, reader, writer, at, written>>
  BY DEF Parse, readerVars, writerVars
<1>2. outputs' \in Seq(Outputs)
  <2>1. outs \in Seq(Outputs) /\ "-" \in Outputs
    BY StoresAssumption
  <2>2. <<"-">> \in Seq(Outputs)
    BY <2>1
  <2> QED  BY <1>1, <2>1, <2>2
<1>3. allowed' \in {None} \cup SUBSET Range(DeviceType)
  BY <1>1, FilterLists
<1> QED  BY <1>1, <1>2, <1>3 DEF ControlOK

\* A store that is added has no documents yet.
LEMMA AddStoreControl ==
    ASSUME IInv, ControlOK, NEW good \in BOOLEAN, pc = "open", AddStore(good),
           UNCHANGED <<pc, outputs, allowed, readerVars, buffer, writer, taken, batch, at>>
    PROVE  ControlOK'
<1> DEFINE store == [type |-> GetStorageType(NextOutput), good |-> good]
<1>1. Len(stores) \in Nat /\ Len(written) = Len(stores)
  BY DEF IInv, WriterOK
<1>2. stores' = Append(stores, store) /\ written' = Append(written, <<>>)
  BY DEF AddStore
<1> HIDE DEF store
<1>3. /\ DOMAIN stores' = 1..Len(stores) + 1 /\ Len(stores') = Len(stores) + 1
      /\ \A s \in 1..Len(stores) : stores'[s] = stores[s] /\ written'[s] = written[s]
      /\ written'[Len(stores) + 1] = <<>> /\ DOMAIN stores = 1..Len(stores)
  <2>1. \E A, B : stores \in Seq(A) /\ written \in Seq(B)
    BY DEF IInv, WriterOK
  <2> QED  BY <1>1, <1>2, <2>1
<1>4. \A s \in DOMAIN stores' :
         stores'[s].type = "json" => \A k \in DOMAIN written'[s] : written'[s][k] # <<>>
  <2>1. \A s \in DOMAIN stores' : s \in DOMAIN stores \/ s = Len(stores) + 1
    BY <1>1, <1>3
  <2>2. DOMAIN <<>> = {}
    OBVIOUS
  <2> QED  BY <1>3, <2>1, <2>2 DEF ControlOK
<1>5. at' \in 1..Len(stores') + 1
  BY <1>1, <1>3 DEF ControlOK
<1> QED  BY <1>4, <1>5 DEF ControlOK, readerVars

\* Storing moves to the next store; JsonStorage writes no empty document.
LEMMA StoreControl ==
    ASSUME IInv, ControlOK, StoreInDatabase \/ StoreAsJson
    PROVE  ControlOK'
<1> DEFINE Filled(docs) == \A k \in DOMAIN docs : docs[k] # <<>>
<1>1. /\ UNCHANGED <<pc, outputs, allowed, stores, reader, writer>>
      /\ at \in DOMAIN stores /\ at' = at + 1 /\ DOMAIN stores = 1..Len(stores)
  BY DEF StoreInDatabase, StoreAsJson, mainVars, readerVars, IInv, WriterOK
<1>2. at' \in 1..Len(stores') + 1
  <2>1. Len(stores) \in Nat
    BY DEF IInv, WriterOK
  <2> QED  BY <1>1, <2>1
<1>3. DOMAIN written = DOMAIN stores
      /\ \A s \in DOMAIN stores : stores[s].type = "json" => Filled(written[s])
  BY DEF IInv, WriterOK, ControlOK
<1>4. CASE StoreInDatabase
  <2>1. stores[at].type = "sqlite" /\ \A s \in DOMAIN written : s # at => written'[s] = written[s]
    BY <1>4 DEF StoreInDatabase
  <2> HIDE DEF Filled
  <2>2. \A s \in DOMAIN stores' : stores'[s].type = "json" => Filled(written'[s])
    BY <1>1, <1>3, <2>1
  <2> QED  BY <1>1, <1>2, <2>2 DEF ControlOK, Filled
<1>5. CASE StoreAsJson
  <2> DEFINE document == [k \in DOMAIN batch |-> JsonEntry(batch[k])]
  <2>1. \/ written' = written
        \/ batch # <<>> /\ written' = [written EXCEPT ![at] = Append(@, document)]
           /\ stores[at].type = "json"
    BY <1>5 DEF StoreAsJson
  <2>2. batch # <<>> => document # <<>>
    <3>1. batch \in Seq(Kept)
      BY DEF IInv, QueueOK
    <3>2. DOMAIN document = DOMAIN batch
      OBVIOUS
    <3> HIDE DEF document
    <3>3. DOMAIN <<>> = {}
      OBVIOUS
    <3>4. batch # <<>> => 1 \in DOMAIN batch
      BY <3>1
    <3> QED  BY <3>2, <3>3, <3>4
  <2> HIDE DEF document
  <2>3. ASSUME NEW docs \in Seq(Documents), Filled(docs), document # <<>>
        PROVE  Filled(Append(docs, document))
    <3>1. /\ DOMAIN Append(docs, document) = 1..Len(docs) + 1 /\ DOMAIN docs = 1..Len(docs)
          /\ Append(docs, document)[Len(docs) + 1] = document /\ Len(docs) \in Nat
          /\ \A k \in 1..Len(docs) : Append(docs, document)[k] = docs[k]
      OBVIOUS
    <3>2. \A k \in 1..Len(docs) + 1 : k \in 1..Len(docs) \/ k = Len(docs) + 1
      BY <3>1
    <3> QED  BY <2>3, <3>1, <3>2
  <2>4. stores[at].type = "json" => written[at] \in Seq(Documents)
    BY <1>1 DEF IInv, WriterOK, Contents
  <2> HIDE DEF Filled
  <2>5. \A s \in DOMAIN stores' : stores'[s].type = "json" => Filled(written'[s])
    BY <1>1, <1>3, <2>1, <2>2, <2>3, <2>4
  <2> QED  BY <1>1, <1>2, <2>5 DEF ControlOK, Filled
<1> QED  BY <1>4, <1>5

\* The other steps leave the stores alone, or start to store with the first.
LEMMA OtherControl ==
    ASSUME IInv, ControlOK,
           \/ InitFails \/ Run \/ TakeBuffer \/ MergeWith \/ StartStoring \/ FinishStoring
           \/ (\E event \in Events : TransformEvent(event)) \/ ForwardAll \/ FilterEntry
           \/ ForwardFiltered \/ UNCHANGED vars
    PROVE  ControlOK'
<1>1. /\ pc' \in {pc, "failed", "run"} /\ reader' \in {reader, "next", "filter"}
      /\ writer' \in {writer, "idle", "merge", "store"} /\ at' \in {at, 1}
      /\ UNCHANGED <<outputs, allowed, stores, written>>
  BY DEF InitFails, Run, TakeBuffer, MergeWith, StartStoring, FinishStoring, TransformEvent,
         ForwardAll, FilterEntry, ForwardFiltered, vars, mainVars, readerVars, writerVars
<1>2. Len(stores) \in Nat
  BY DEF IInv, WriterOK
<1>3. at' \in 1..Len(stores') + 1
  BY <1>1, <1>2 DEF ControlOK
<1> QED  BY <1>1, <1>3 DEF ControlOK

LEMMA ControlHolds == IInv /\ ControlOK /\ [Next]_vars => ControlOK'
<1>1. IInv /\ ControlOK /\ OpenDatabase => ControlOK'
  BY AddStoreControl DEF OpenDatabase
<1>2. IInv /\ ControlOK /\ (\E good \in BOOLEAN : OpenStream(good)) => ControlOK'
  BY AddStoreControl DEF OpenStream
<1> QED  BY <1>1, <1>2, ParseControl, StoreControl, OtherControl DEF Next

\* Every variable has its type: what comes out of the builders stays an entry with as
\* many texts as its builder wrote, and no JSON output gets an empty document.
THEOREM StoresTypeOK == Spec => []TypeOK
<1>1. IInv /\ ControlOK => TypeOK
  <2> SUFFICES ASSUME IInv, ControlOK PROVE TypeOK
    OBVIOUS
  <2>1. Built \subseteq Entry /\ Kept \subseteq Entry
    BY BuiltIsEntry DEF IInv, ReaderOK, Kept
  <2>2. /\ data \in Seq(Built) /\ filtered \in Seq(Kept) /\ buffer \in Seq(Seq(Kept))
        /\ taken \in Seq(Seq(Kept)) /\ batch \in Seq(Kept)
    BY DEF IInv, ReaderOK, QueueOK
  <2>3. Seq(Kept) \subseteq Seq(Entry) /\ Seq(Built) \subseteq Seq(Entry)
    BY <2>1, SeqMonotonic
  <2>4. data \in Seq(Entry) /\ filtered \in Seq(Entry) /\ batch \in Seq(Entry)
    BY <2>2, <2>3
  <2>5. Seq(Seq(Kept)) \subseteq Seq(Seq(Entry))
    BY <2>3, SeqMonotonic
  <2>6. buffer \in Seq(Seq(Entry)) /\ taken \in Seq(Seq(Entry))
    BY <2>2, <2>5
  <2>7. \A s \in DOMAIN stores : stores[s] \in [type : {"sqlite", "json"}, good : BOOLEAN]
    <3> DEFINE Store == [type : {"sqlite", "json"}, good : BOOLEAN]
    <3>1. stores \in Seq(Store)
      BY DEF IInv, WriterOK
    <3> HIDE DEF Store
    <3>2. \A s \in DOMAIN stores : stores[s] \in Store
      BY <3>1
    <3> QED  BY <3>2 DEF Store
  <2>8. \A s \in DOMAIN stores : stores[s].type = "json" => <<>> \notin Range(written[s])
    BY DEF ControlOK, Range
  <2> QED  BY <2>2, <2>4, <2>6, <2>7, <2>8 DEF TypeOK, ControlOK, IInv, WriterOK
<1> QED  BY <1>1, InitHolds, InitControl, StepHolds, ControlHolds, PTL DEF Spec

(***************************************************************************)
(* What is written reads as it was built.                                  *)
(***************************************************************************)

Enumerates(enum, n) == DOMAIN enum = 1..n /\ \A i, j \in 1..n : enum[i] = enum[j] => i = j

\* The text of enum[k] is no empty one, and leads back to k.
RoundTrip(enum, n, k) ==
    /\ ToUnderlying(enum, enum[k]) = Decimal[k] /\ Decimal[k] # ""
    /\ (CHOOSE j \in 1..n : Decimal[j] = Decimal[k]) = k
    /\ FromUnderlying(enum, Decimal[k]) = enum[k]

\* The text of an enumerator stands for it alone.
LEMMA UnderlyingRoundTrip ==
    ASSUME NEW enum, NEW n \in 1..8, Enumerates(enum, n), NEW k \in 1..n
    PROVE  RoundTrip(enum, n, k)
<1>1. 1..n \subseteq 1..8
  OBVIOUS
<1>2. \A i \in 1..8 : i \in {1, 2, 3, 4, 5, 6, 7, 8}
  OBVIOUS
<1>3. /\ Decimal[1] = "0" /\ Decimal[2] = "1" /\ Decimal[3] = "2" /\ Decimal[4] = "3"
      /\ Decimal[5] = "4" /\ Decimal[6] = "5" /\ Decimal[7] = "6" /\ Decimal[8] = "7"
  BY DEF Decimal
<1>6. \A i, j \in 1..8 : Decimal[i] = Decimal[j] => i = j
  BY <1>2, <1>3
<1>7. \A i \in 1..8 : Decimal[i] # ""
  BY <1>2, <1>3
<1>4. (CHOOSE j \in 1..n : Decimal[j] = Decimal[k]) = k
  BY <1>1, <1>6
<1>5. DOMAIN enum = 1..n /\ (CHOOSE j \in DOMAIN enum : enum[j] = enum[k]) = k
  BY DEF Enumerates
<1> QED BY <1>1, <1>4, <1>5, <1>7 DEF ToUnderlying, FromUnderlying, RoundTrip

Joined(table, id) == IF id = "" THEN "" ELSE table[CHOOSE k \in DOMAIN table : Decimal[k] = id]

\* What the tables of enumerators, and entry.cpp, say of each text is its name.
LEMMA DevicesRead ==
    ASSUME NEW e \in Range(DeviceType)
    PROVE  /\ FromUnderlying(DeviceType, ToUnderlying(DeviceType, e)) = e
           /\ Joined(DeviceTypeTable, ToUnderlying(DeviceType, e)) = DeviceName[e]
<1>1. DOMAIN DeviceType = 1..6 /\ DOMAIN DeviceTypeTable = 1..6
  BY DEF DeviceType, DeviceTypeTable
<1>2. \A i \in 1..6 : i \in {1, 2, 3, 4, 5, 6}
  OBVIOUS
<1>3. \A i, j \in 1..6 : DeviceType[i] = DeviceType[j] => i = j
  BY <1>2 DEF DeviceType
<1>4. \A i \in 1..6 : DeviceTypeTable[i] = DeviceName[DeviceType[i]]
  BY <1>2 DEF DeviceType, DeviceTypeTable, DeviceName
<1>5. PICK k \in 1..6 : e = DeviceType[k]
  BY <1>1 DEF Range
<1>6. /\ ToUnderlying(DeviceType, e) = Decimal[k] /\ Decimal[k] # ""
      /\ (CHOOSE j \in 1..6 : Decimal[j] = Decimal[k]) = k
      /\ FromUnderlying(DeviceType, Decimal[k]) = DeviceType[k]
  <2>1. 6 \in 1..8 /\ Enumerates(DeviceType, 6)
    BY <1>1, <1>3 DEF Enumerates
  <2>2. RoundTrip(DeviceType, 6, k)
    BY <2>1, UnderlyingRoundTrip
  <2> QED BY <2>2, <1>5 DEF RoundTrip
<1> QED BY <1>1, <1>4, <1>5, <1>6 DEF Joined

LEMMA ActionsRead ==
    ASSUME NEW e \in Range(ButtonAction)
    PROVE  /\ FromUnderlying(ButtonAction, ToUnderlying(ButtonAction, e)) = e
           /\ Joined(ButtonActionTable, ToUnderlying(ButtonAction, e)) = ActionName[e]
<1>1. DOMAIN ButtonAction = 1..3 /\ DOMAIN ButtonActionTable = 1..3
  BY DEF ButtonAction, ButtonActionTable
<1>2. \A i \in 1..3 : i \in {1, 2, 3}
  OBVIOUS
<1>3. \A i, j \in 1..3 : ButtonAction[i] = ButtonAction[j] => i = j
  BY <1>2 DEF ButtonAction
<1>4. \A i \in 1..3 : ButtonActionTable[i] = ActionName[ButtonAction[i]]
  BY <1>2 DEF ButtonAction, ButtonActionTable, ActionName
<1>5. PICK k \in 1..3 : e = ButtonAction[k]
  BY <1>1 DEF Range
<1>6. /\ ToUnderlying(ButtonAction, e) = Decimal[k] /\ Decimal[k] # ""
      /\ (CHOOSE j \in 1..3 : Decimal[j] = Decimal[k]) = k
      /\ FromUnderlying(ButtonAction, Decimal[k]) = ButtonAction[k]
  <2>1. 3 \in 1..8 /\ Enumerates(ButtonAction, 3)
    BY <1>1, <1>3 DEF Enumerates
  <2>2. RoundTrip(ButtonAction, 3, k)
    BY <2>1, UnderlyingRoundTrip
  <2> QED BY <2>2, <1>5 DEF RoundTrip
<1> QED BY <1>1, <1>4, <1>5, <1>6 DEF Joined

LEMMA ModifiersRead ==
    ASSUME NEW e \in Range(ModifierValue)
    PROVE  /\ FromUnderlying(ModifierValue, ToUnderlying(ModifierValue, e)) = e
           /\ Joined(ModifierTable, ToUnderlying(ModifierValue, e)) = ModifierName[e]
<1>1. DOMAIN ModifierValue = 1..8 /\ DOMAIN ModifierTable = 1..8
  BY DEF ModifierValue, ModifierTable
<1>2. \A i \in 1..8 : i \in {1, 2, 3, 4, 5, 6, 7, 8}
  OBVIOUS
<1>3. \A i, j \in 1..8 : ModifierValue[i] = ModifierValue[j] => i = j
  BY <1>2 DEF ModifierValue
<1>4. \A i \in 1..8 : ModifierTable[i] = ModifierName[ModifierValue[i]]
  BY <1>2 DEF ModifierValue, ModifierTable, ModifierName
<1>5. PICK k \in 1..8 : e = ModifierValue[k]
  BY <1>1 DEF Range
<1>6. /\ ToUnderlying(ModifierValue, e) = Decimal[k] /\ Decimal[k] # ""
      /\ (CHOOSE j \in 1..8 : Decimal[j] = Decimal[k]) = k
      /\ FromUnderlying(ModifierValue, Decimal[k]) = ModifierValue[k]
  <2>1. 8 \in 1..8 /\ Enumerates(ModifierValue, 8)
    BY <1>1, <1>3 DEF Enumerates
  <2>2. RoundTrip(ModifierValue, 8, k)
    BY <2>1, UnderlyingRoundTrip
  <2> QED BY <2>2, <1>5 DEF RoundTrip
<1> QED BY <1>1, <1>4, <1>5, <1>6 DEF Joined

\* What is at each position of a builder's entry.
LEMMA PositionsOfBuild ==
    ASSUME NEW b, IsBuilder(b)
    PROVE  /\ Build(b) \in Entry /\ Build(b).type = b.type /\ b.type \in EntryType
           /\ DOMAIN Build(b).data = 1..Len(Order[b.type])
           /\ Len(Build(b).data) = Len(Order[b.type]) /\ Len(Order[b.type]) \in Nat
           /\ \A k \in 1..Len(Order[b.type]) : Build(b).data[k] = Text(b, Order[b.type][k])
           /\ DOMAIN Build(b).modifiers = DOMAIN b.modifiers
           /\ \A k \in DOMAIN b.modifiers :
                 /\ b.modifiers[k] \in Range(ModifierValue)
                 /\ Build(b).modifiers[k] = ToUnderlying(ModifierValue, b.modifiers[k])
<1>1. Build(b) \in Entry
  BY BuildIsEntry
<1>2. Build(b).type = b.type
  BY DEF Build
<1>3. /\ DOMAIN Build(b).data = 1..Len(Order[b.type]) /\ b.type \in EntryType
      /\ Len(Build(b).data) = Len(Order[b.type]) /\ Len(Order[b.type]) \in Nat
  BY <1>1, <1>2, Positions
<1>4. \A k \in 1..Len(Order[b.type]) : Build(b).data[k] = Text(b, Order[b.type][k])
  <2>1. Build(b).data = [k \in DOMAIN Order[b.type] |-> Text(b, Order[b.type][k])]
    BY DEF Build
  <2> QED BY <2>1, <1>3
<1>5. /\ DOMAIN Build(b).modifiers = DOMAIN b.modifiers
      /\ \A k \in DOMAIN b.modifiers :
            Build(b).modifiers[k] = ToUnderlying(ModifierValue, b.modifiers[k])
  BY DEF Build
<1>6. \A k \in DOMAIN b.modifiers : b.modifiers[k] \in Range(ModifierValue)
  <2>1. b.modifiers \in Seq(Range(ModifierValue))
    BY DEF IsBuilder
  <2> QED BY <2>1
<1> QED BY <1>1, <1>2, <1>3, <1>4, <1>5, <1>6

\* The text that a builder writes for a member reads as the value it was given, through
\* the tables of enumerators as through entry.cpp.
LEMMA TextReads ==
    ASSUME NEW b, IsBuilder(b), NEW member
    PROVE  /\ member = "device" =>
                 /\ Joined(DeviceTypeTable, Text(b, member)) = Value(b, member)
                 /\ OptionalToString(DeviceName, FromUnderlying(DeviceType, Text(b, member)))
                       = Value(b, member)
           /\ member = "action" =>
                 /\ Joined(ButtonActionTable, Text(b, member)) = Value(b, member)
                 /\ OptionalToString(ActionName, FromUnderlying(ButtonAction, Text(b, member)))
                       = Value(b, member)
           /\ member \notin {"device", "action"} => Text(b, member) = Value(b, member)
<1> DEFINE text == Text(b, member)
<1>1. CASE member \notin DOMAIN b.set
  <2>1. text = "" /\ Value(b, member) = ""
    BY <1>1 DEF Text, Value
  <2>2. \A enum : FromUnderlying(enum, "") = None
    BY DEF FromUnderlying
  <2> HIDE DEF text
  <2> QED BY <2>1, <2>2 DEF Joined, OptionalToString, text
<1>2. CASE member \in DOMAIN b.set /\ member = "device"
  <2> DEFINE e == b.set["device"]
  <2>1. e \in Range(DeviceType) /\ e # None
    BY <1>2, StoresAssumption DEF IsBuilder
  <2>2. Text(b, member) = ToUnderlying(DeviceType, e) /\ Value(b, member) = DeviceName[e]
    BY <1>2 DEF Text, Value
  <2> HIDE DEF e
  <2>3. /\ FromUnderlying(DeviceType, Text(b, member)) = e
        /\ Joined(DeviceTypeTable, Text(b, member)) = DeviceName[e]
    BY <2>1, <2>2, DevicesRead
  <2> QED BY <1>2, <2>1, <2>2, <2>3 DEF OptionalToString
<1>3. CASE member \in DOMAIN b.set /\ member = "action"
  <2> DEFINE e == b.set["action"]
  <2>1. e \in Range(ButtonAction) /\ e # None
    BY <1>3, StoresAssumption DEF IsBuilder
  <2>2. Text(b, member) = ToUnderlying(ButtonAction, e) /\ Value(b, member) = ActionName[e]
    BY <1>3 DEF Text, Value
  <2> HIDE DEF e
  <2>3. /\ FromUnderlying(ButtonAction, Text(b, member)) = e
        /\ Joined(ButtonActionTable, Text(b, member)) = ActionName[e]
    BY <2>1, <2>2, ActionsRead
  <2> QED BY <1>3, <2>1, <2>2, <2>3 DEF OptionalToString
<1>4. CASE member \in DOMAIN b.set /\ member \notin {"device", "action"}
  BY <1>4 DEF Text, Value
<1> QED BY <1>1, <1>2, <1>3, <1>4

\* A row of the database says what the builder was given: column by column, the value of
\* the member that the column documents.
LEMMA RowReadsAsBuilt ==
    ASSUME NEW b, IsBuilder(b)
    PROVE  ReadRow(InsertEvents(Build(b))) = Intended(b)
<1> DEFINE entry == Build(b)
           row == InsertEvents(entry)
           order == Order[b.type]
           n == Len(order)
           column(k) ==
             CASE Columns[row.table][k] = "device_type"   -> Joined(DeviceTypeTable, row.values[k])
               [] Columns[row.table][k] = "button_action" -> Joined(ButtonActionTable, row.values[k])
               [] OTHER                                   -> row.values[k]
           fields == {<<Columns[row.table][k], column(k)>> : k \in DOMAIN row.values \ {1}}
           modifiers == [k \in DOMAIN row.modifiers |-> Joined(ModifierTable, row.modifiers[k])]
<1>1. ReadRow(row) = [type |-> row.table, fields |-> fields, modifiers |-> modifiers]
  BY DEF ReadRow, Joined
<1>2. /\ row.table = entry.type /\ row.values = <<"uuid">> \o entry.data
      /\ row.modifiers = entry.modifiers
  BY DEF InsertEvents
<1>3. /\ entry \in Entry /\ entry.type = b.type /\ b.type \in EntryType
      /\ Len(entry.data) = n /\ n \in Nat
      /\ \A k \in 1..n : entry.data[k] = Text(b, order[k])
      /\ DOMAIN entry.modifiers = DOMAIN b.modifiers
      /\ \A k \in DOMAIN b.modifiers :
            /\ b.modifiers[k] \in Range(ModifierValue)
            /\ entry.modifiers[k] = ToUnderlying(ModifierValue, b.modifiers[k])
  BY PositionsOfBuild
<1> HIDE DEF entry, row, order, n
<1>4. /\ DOMAIN row.values = 1..n + 1
      /\ \A k \in 1..n : row.values[k + 1] = Text(b, order[k])
  <2>1. entry.data \in Seq(Texts \cup {"uuid"}) /\ <<"uuid">> \in Seq(Texts \cup {"uuid"})
    BY <1>3 DEF Entry
  <2>2. Len(<<"uuid">>) = 1
    OBVIOUS
  <2>3. /\ DOMAIN row.values = 1..n + 1
        /\ \A j \in 2..n + 1 : row.values[j] = entry.data[j - 1]
    BY <1>2, <1>3, <2>1, <2>2, ConcatProperties
  <2>4. \A k \in 1..n : k + 1 \in 2..n + 1 /\ k + 1 - 1 = k
    BY <1>3
  <2> QED BY <2>3, <2>4, <1>3
<1>5. /\ Members[b.type] = {order[k] : k \in 1..n}
      /\ \A k \in 1..n : Columns[b.type][k + 1] = Meaning(order[k]) /\ order[k] \in Members[b.type]
  <2>1. order \in Seq(Names) /\ n = Len(order)
    BY <1>3, OrderLength DEF order, n
  <2>2. Range(order) = {order[k] : k \in 1..n}
    BY <2>1, RangeEquality
  <2>3. /\ Members[b.type] = Range(order)
        /\ \A k \in 1..n : Columns[b.type][k + 1] = Meaning(order[k])
    BY <1>3, ListsAgree DEF order, n
  <2> QED BY <2>2, <2>3
<1>6. ASSUME NEW k \in 1..n PROVE column(k + 1) = Value(b, order[k])
  <2>1. /\ Columns[row.table][k + 1] = "device_type" <=> order[k] = "device"
        /\ Columns[row.table][k + 1] = "button_action" <=> order[k] = "action"
    <3>1. Columns[row.table][k + 1] = Meaning(order[k]) /\ order[k] \in Members[b.type]
      BY <1>2, <1>3, <1>5
    <3> QED BY <3>1, <1>3, Meanings
  <2>2. row.values[k + 1] = Text(b, order[k])
    BY <1>4
  <2> QED BY <2>1, <2>2, TextReads
<1> HIDE DEF column
<1>7. fields = {<<Meaning(member), Value(b, member)>> : member \in Members[b.type]}
  <2>1. fields = {<<Columns[b.type][k + 1], column(k + 1)>> : k \in 1..n}
    <3>1. \A j \in (1..n + 1) \ {1} : j - 1 \in 1..n /\ j - 1 + 1 = j
      BY <1>3
    <3>2. \A k \in 1..n : k + 1 \in (1..n + 1) \ {1}
      BY <1>3
    <3>3. fields = {<<Columns[b.type][j], column(j)>> : j \in (1..n + 1) \ {1}}
      BY <1>2, <1>3, <1>4
    <3> HIDE DEF fields
    <3> QED BY <3>1, <3>2, <3>3
  <2>2. fields = {<<Meaning(order[k]), Value(b, order[k])>> : k \in 1..n}
    BY <2>1, <1>5, <1>6
  <2> HIDE DEF fields
  <2> QED BY <2>2, <1>5
<1>8. modifiers = [k \in DOMAIN b.modifiers |-> ModifierName[b.modifiers[k]]]
  <2>1. ASSUME NEW k \in DOMAIN b.modifiers
        PROVE  Joined(ModifierTable, row.modifiers[k]) = ModifierName[b.modifiers[k]]
    BY <1>2, <1>3, ModifiersRead
  <2> QED BY <2>1, <1>2, <1>3
<1> HIDE DEF fields, modifiers
<1> QED BY <1>1, <1>2, <1>3, <1>7, <1>8 DEF Intended, row, entry

\* So does a document, field by field.
LEMMA DocumentReadsAsBuilt ==
    ASSUME NEW b, IsBuilder(b)
    PROVE  ReadJson(JsonEntry(Build(b))) = Intended(b)
<1> DEFINE entry == Build(b)
           named == ToNamedRepresentation(entry)
           json == JsonEntry(entry)
           order == Order[b.type]
           n == Len(order)
<1>1. /\ json.type = FromEntryType[entry.type] /\ json.modifiers = named.modifiers
      /\ DOMAIN json.fields = DOMAIN named.data
      /\ \A k \in DOMAIN named.data :
            json.fields[k].name = Fields[entry.type][k] /\ json.fields[k].data = named.data[k]
  BY DEF JsonEntry
<1>2. /\ entry \in Entry /\ entry.type = b.type /\ b.type \in EntryType
      /\ DOMAIN entry.data = 1..n /\ Len(entry.data) = n /\ n \in Nat
      /\ \A k \in 1..n : entry.data[k] = Text(b, order[k])
      /\ DOMAIN entry.modifiers = DOMAIN b.modifiers
      /\ \A k \in DOMAIN b.modifiers :
            /\ b.modifiers[k] \in Range(ModifierValue)
            /\ entry.modifiers[k] = ToUnderlying(ModifierValue, b.modifiers[k])
  BY PositionsOfBuild
<1>3. /\ DOMAIN named.data = DOMAIN entry.data
      /\ \A k \in DOMAIN entry.data : named.data[k] =
            IF k = DeviceTypeIndex
            THEN OptionalToString(DeviceName, FromUnderlying(DeviceType, entry.data[k]))
            ELSE IF HasAction(entry.type) /\ k = Len(entry.data)
            THEN OptionalToString(ActionName, FromUnderlying(ButtonAction, entry.data[k]))
            ELSE entry.data[k]
      /\ named.modifiers = [k \in DOMAIN entry.modifiers |->
                               ModifierName[FromUnderlying(ModifierValue, entry.modifiers[k])]]
  <2>1. entry \in Entry
    BY <1>2
  <2> HIDE DEF entry
  <2> QED BY <2>1 DEF ToNamedRepresentation, Entry, HasAction
<1> HIDE DEF entry, json, named, order, n
<1>4. /\ Members[b.type] = {order[k] : k \in 1..n}
      /\ \A k \in 1..n : /\ Fields[b.type][k] = Meaning(order[k])
                         /\ order[k] = "device" <=> k = DeviceTypeIndex
                         /\ order[k] = "action" <=> HasAction(b.type) /\ k = n
  <2>1. order \in Seq(Names) /\ n = Len(order)
    BY <1>2, OrderLength DEF order, n
  <2>2. Range(order) = {order[k] : k \in 1..n}
    BY <2>1, RangeEquality
  <2>3. /\ Members[b.type] = Range(order)
        /\ \A k \in 1..n : /\ Fields[b.type][k] = Meaning(order[k])
                           /\ order[k] = "device" <=> k = DeviceTypeIndex
                           /\ order[k] = "action" <=> HasAction(b.type) /\ k = n
    BY <1>2, ListsAgree DEF order, n
  <2> QED BY <2>2, <2>3
<1>5. ASSUME NEW k \in 1..n
      PROVE  json.fields[k].name = Meaning(order[k]) /\ json.fields[k].data = Value(b, order[k])
  <2>1. named.data[k] =
            IF order[k] = "device"
            THEN OptionalToString(DeviceName, FromUnderlying(DeviceType, Text(b, order[k])))
            ELSE IF order[k] = "action"
            THEN OptionalToString(ActionName, FromUnderlying(ButtonAction, Text(b, order[k])))
            ELSE Text(b, order[k])
    BY <1>2, <1>3, <1>4
  <2>2. named.data[k] = Value(b, order[k])
    BY <2>1, TextReads
  <2> QED BY <2>2, <1>1, <1>2, <1>3, <1>4
<1>6. {<<json.fields[k].name, json.fields[k].data>> : k \in DOMAIN json.fields}
         = {<<Meaning(member), Value(b, member)>> : member \in Members[b.type]}
  <2>1. DOMAIN json.fields = 1..n
    BY <1>1, <1>2, <1>3
  <2>2. {<<json.fields[k].name, json.fields[k].data>> : k \in DOMAIN json.fields}
           = {<<Meaning(order[k]), Value(b, order[k])>> : k \in 1..n}
    BY <2>1, <1>5
  <2> QED BY <2>2, <1>4
<1>7. json.modifiers = [k \in DOMAIN b.modifiers |-> ModifierName[b.modifiers[k]]]
  <2>1. ASSUME NEW k \in DOMAIN b.modifiers
        PROVE  ModifierName[FromUnderlying(ModifierValue, entry.modifiers[k])]
                  = ModifierName[b.modifiers[k]]
    BY <1>2, ModifiersRead
  <2> QED BY <2>1, <1>1, <1>2, <1>3
<1>8. (CHOOSE type \in EntryType : FromEntryType[type] = json.type) = b.type
  <2>1. \A t, u \in EntryType : FromEntryType[t] = FromEntryType[u] => t = u
    BY DEF EntryType, FromEntryType
  <2> QED BY <2>1, <1>1, <1>2
<1> QED BY <1>6, <1>7, <1>8 DEF ReadJson, Intended, json, entry

(***************************************************************************)
(* What the filter lets pass is what it should.                            *)
(***************************************************************************)
IntendedOf(builders) == {Intended(b) : b \in {b \in Range(builders) : IsIntended(b)}}

\* The filter finds the device type of a builder in its entry.
LEMMA ForwardsIntended ==
    ASSUME NEW b, IsBuilder(b), allowed = None \/ Forwards(Build(b))
    PROVE  IsIntended(b)
<1>1. CASE allowed = None \/ "device" \notin DOMAIN b.set
  BY <1>1 DEF IsIntended
<1>2. CASE allowed # None /\ "device" \in DOMAIN b.set
  <2> DEFINE e == b.set["device"]
  <2>1. e \in Range(DeviceType) /\ e # None
    BY <1>2, StoresAssumption DEF IsBuilder
  <2>2. Build(b).data[DeviceTypeIndex] = Text(b, "device") /\ Len(Build(b).data) >= DeviceTypeIndex
    <3>1. Build(b) \in Entry /\ b.type \in EntryType /\ Len(Build(b).data) \in Nat
      BY PositionsOfBuild
    <3>2. Len(Build(b).data) >= DeviceTypeIndex
      BY <3>1, Positions
    <3>3. DeviceTypeIndex \in 1..Len(Order[b.type])
      BY <3>1, <3>2, PositionsOfBuild DEF DeviceTypeIndex
    <3>4. Order[b.type][DeviceTypeIndex] = "device"
      BY <3>1, <3>3, ListsAgree
    <3> QED BY <3>2, <3>3, <3>4, PositionsOfBuild
  <2>3. Text(b, "device") = ToUnderlying(DeviceType, e)
    BY <1>2 DEF Text
  <2>4. FromUnderlying(DeviceType, Build(b).data[DeviceTypeIndex]) = e
    BY <2>1, <2>2, <2>3, DevicesRead
  <2>5. FromUnderlying(DeviceType, Build(b).data[DeviceTypeIndex]) \in allowed \cup {None}
    <3>1. Len(Build(b).data) \in Nat
      BY PositionsOfBuild
    <3> QED BY <1>2, <2>2, <3>1 DEF Forwards, DeviceTypeIndex
  <2> QED BY <2>1, <2>4, <2>5 DEF IsIntended
<1> QED BY <1>1, <1>2

\* Everything in an output reads as some builder was meant to be recorded.
ReadsAsIntended ==
    \A s \in DOMAIN written : \A k \in DOMAIN written[s] :
        IF stores[s].type = "sqlite" THEN ReadRow(written[s][k]) \in IntendedOf(given)
        ELSE \A j \in DOMAIN written[s][k] : ReadJson(written[s][k][j]) \in IntendedOf(given)

LEMMA KeptIsIntended == IInv => ReadsAsIntended
<1> SUFFICES ASSUME IInv, NEW s \in DOMAIN written, NEW k \in DOMAIN written[s]
             PROVE  IF stores[s].type = "sqlite" THEN ReadRow(written[s][k]) \in IntendedOf(given)
                    ELSE \A j \in DOMAIN written[s][k] :
                            ReadJson(written[s][k][j]) \in IntendedOf(given)
  BY DEF ReadsAsIntended
<1>1. written[s] \in Contents(s)
  BY DEF IInv, WriterOK
<1>2. ASSUME NEW entry \in Kept
      PROVE  ReadRow(InsertEvents(entry)) \in IntendedOf(given)
             /\ ReadJson(JsonEntry(entry)) \in IntendedOf(given)
  <2>1. PICK b \in Range(given) : entry = Build(b) /\ (allowed = None \/ Forwards(Build(b)))
    BY DEF Kept, Built
  <2>2. IsBuilder(b)
    BY DEF IInv, ReaderOK, Builders, Range
  <2>3. IsIntended(b)
    BY <2>1, <2>2, ForwardsIntended
  <2> QED BY <2>1, <2>2, <2>3, RowReadsAsBuilt, DocumentReadsAsBuilt DEF IntendedOf
<1>3. CASE stores[s].type = "sqlite"
  <2>1. written[s][k] \in Rows
    BY <1>1, <1>3 DEF Contents
  <2> QED BY <2>1, <1>2, <1>3 DEF Rows
<1>4. CASE stores[s].type # "sqlite"
  <2>1. written[s][k] \in Documents
    BY <1>1, <1>4 DEF Contents
  <2>2. \A j \in DOMAIN written[s][k] : written[s][k][j] \in {JsonEntry(entry) : entry \in Kept}
    BY <2>1 DEF Documents
  <2> QED BY <2>2, <1>2, <1>4
<1> QED BY <1>3, <1>4

\* For all outputs, filters and events: every row, read by the names of its columns and
\* the tables of enumerators, and every document, read by the names of its fields, says
\* of each member what some builder was given, and no such builder is of a device that
\* the filter does not list.
THEOREM ReadsAsIntendedAlways == Spec => []ReadsAsIntended
BY InitHolds, StepHolds, KeptIsIntended, PTL DEF Spec

(***************************************************************************)
(* Sequences of sequences, one after another.                              *)
(***************************************************************************)

\* A set of numbers has a least one.
LEMMA LeastNumber ==
    ASSUME NEW T \in SUBSET Nat, T # {}
    PROVE  \E n \in T : \A k \in T : n <= k
<1> DEFINE Upto == {1..n : n \in T}
<1>1. Upto \subseteq FiniteSubsetsOf(Nat)
  <2> SUFFICES ASSUME NEW n \in T PROVE 1..n \in FiniteSubsetsOf(Nat)
    OBVIOUS
  <2>1. 1 \in Int /\ n \in Int
    OBVIOUS
  <2>2. IsFiniteSet(1..n)
    BY <2>1, FS_Interval
  <2> QED  BY <2>2 DEF FiniteSubsetsOf
<1>2. Upto # {}
  OBVIOUS
<1> HIDE DEF Upto
<1>5. IsWellFoundedOn(StrictSubsetOrdering(Nat), FiniteSubsetsOf(Nat))
  BY FS_StrictSubsetOrderingWellFounded
<1>6. PICK x \in Upto : \A y \in Upto : <<y, x>> \notin StrictSubsetOrdering(Nat)
  BY <1>1, <1>2, <1>5, WFMin
<1>3. PICK n \in T : x = 1..n
  BY DEF Upto
<1>4. ASSUME NEW k \in T, k < n PROVE FALSE
  <2>1. 1..k \in Upto /\ 1..k \subseteq 1..n /\ n \in 1..n /\ n \notin 1..k
    BY <1>4 DEF Upto
  <2>2. <<1..k, x>> \in StrictSubsetOrdering(Nat)
    BY <1>3, <2>1 DEF StrictSubsetOrdering
  <2> QED  BY <1>6, <2>1, <2>2
<1> QED  BY <1>4

\* Sequences with the same elements are the same.
LEMMA SameSequence ==
    ASSUME NEW S, NEW s \in Seq(S), NEW t \in Seq(S), NEW n \in Nat, Len(s) = n, Len(t) = n,
           \A k \in 1..n : s[k] = t[k]
    PROVE  s = t
OBVIOUS

\* f[i] is the first i sequences of ss, one after another.
Flattens(ss, f, n, S) ==
    /\ f \in [1..n -> Seq(S)]
    /\ \A i \in 1..n : f[i] = IF i = 1 THEN ss[i] ELSE f[i - 1] \o ss[i]

\* Two such functions are one.
LEMMA FlattensOnce ==
    ASSUME NEW S, NEW ss, NEW n \in Nat,
           NEW f, Flattens(ss, f, n, S), NEW g, Flattens(ss, g, n, S)
    PROVE  f = g
<1> DEFINE Bad == {i \in 1..n : f[i] # g[i]}
<1>1. Bad = {}
  <2> SUFFICES ASSUME Bad # {} PROVE FALSE
    OBVIOUS
  <2>1. PICK i \in Bad : \A j \in Bad : i <= j
    <3>1. Bad \in SUBSET Nat
      OBVIOUS
    <3> HIDE DEF Bad
    <3> QED BY <3>1, LeastNumber
  <2>2. i \in 1..n /\ f[i] # g[i]
    BY <2>1
  <2>3. CASE i = 1
    BY <2>2, <2>3 DEF Flattens
  <2>4. CASE i # 1
    <3>1. i - 1 \in 1..n /\ i - 1 \notin Bad
      BY <2>1, <2>2, <2>4
    <3>2. f[i - 1] = g[i - 1]
      BY <3>1
    <3> QED BY <2>2, <2>4, <3>2 DEF Flattens
  <2> QED BY <2>3, <2>4
<1>2. \A i \in 1..n : f[i] = g[i]
  BY <1>1
<1> HIDE DEF Bad
<1> QED BY <1>2 DEF Flattens

\* There is one.
LEMMA FlattensExists ==
    ASSUME NEW S, NEW ss \in Seq(Seq(S)), NEW n \in 0..Len(ss)
    PROVE  \E f : Flattens(ss, f, n, S)
<1> DEFINE Bad == {m \in 0..Len(ss) : ~\E f : Flattens(ss, f, m, S)}
<1>1. Bad = {}
  <2> SUFFICES ASSUME Bad # {} PROVE FALSE
    OBVIOUS
  <2>1. PICK m \in Bad : \A j \in Bad : m <= j
    <3>1. Bad \in SUBSET Nat
      OBVIOUS
    <3> HIDE DEF Bad
    <3> QED BY <3>1, LeastNumber
  <2>2. m \in 0..Len(ss) /\ ~\E f : Flattens(ss, f, m, S) /\ Len(ss) \in Nat
    BY <2>1
  <2>3. CASE m = 0
    <3>1. Flattens(ss, [i \in 1..0 |-> <<>>], 0, S)
      BY DEF Flattens
    <3> QED BY <2>2, <2>3, <3>1
  <2>4. CASE m # 0
    <3>0. m - 1 \in 0..Len(ss) /\ m \in 1..Len(ss) /\ ~(m <= m - 1)
      BY <2>2, <2>4
    <3>1. m - 1 \in 0..Len(ss) /\ m - 1 \notin Bad /\ m \in 1..Len(ss)
      <4> HIDE DEF Bad
      <4> QED BY <2>1, <3>0
    <3>2. PICK f : Flattens(ss, f, m - 1, S)
      BY <3>1
    <3>3. ss[m] \in Seq(S) /\ ss[1] \in Seq(S)
      BY <3>1
    <3> DEFINE g == [i \in 1..m |-> IF i = m THEN IF m = 1 THEN ss[1] ELSE f[m - 1] \o ss[m] ELSE f[i]]
    <3>4. \A i \in 1..m : i # m => i \in 1..m-1
      BY <3>1
    <3>5. g \in [1..m -> Seq(S)]
      <4>1. ASSUME NEW i \in 1..m PROVE g[i] \in Seq(S)
        <5>1. CASE i # m
          BY <3>2, <3>4, <5>1 DEF Flattens
        <5>2. CASE i = m /\ m = 1
          BY <3>3, <5>2
        <5>3. CASE i = m /\ m # 1
          <6>1. f[m - 1] \in Seq(S)
            BY <3>1, <3>2, <5>3 DEF Flattens
          <6> QED BY <3>3, <5>3, <6>1
        <5> QED BY <5>1, <5>2, <5>3
      <4> QED BY <4>1
    <3>6. ASSUME NEW i \in 1..m PROVE g[i] = IF i = 1 THEN ss[i] ELSE g[i - 1] \o ss[i]
      <4>1. CASE i = m
        <5>1. m # 1 => m - 1 \in 1..m /\ m - 1 # m
          BY <3>1
        <5> QED BY <4>1, <5>1
      <4>2. CASE i # m
        <5>1. i \in 1..m-1 /\ (i # 1 => i - 1 \in 1..m /\ i - 1 # m)
          BY <3>4, <4>2
        <5>2. f[i] = IF i = 1 THEN ss[i] ELSE f[i - 1] \o ss[i]
          BY <3>2, <5>1 DEF Flattens
        <5> QED BY <4>2, <5>1, <5>2
      <4> QED BY <4>1, <4>2
    <3>7. Flattens(ss, g, m, S)
      <4> HIDE DEF g
      <4> QED BY <3>5, <3>6 DEF Flattens
    <3> QED BY <2>2, <3>7
  <2> QED BY <2>3, <2>4
<1> QED BY <1>1

\* Nothing makes nothing.
LEMMA FlattenEmpty == FlattenSeq(<<>>) = <<>>
BY DEF FlattenSeq

\* What FlattenSeq computes.
LEMMA FlattenIs ==
    ASSUME NEW S, NEW ss \in Seq(Seq(S)), ss # <<>>, NEW f, Flattens(ss, f, Len(ss), S)
    PROVE  FlattenSeq(ss) = f[Len(ss)]
<1> DEFINE Def(g) == g = [i \in 1..Len(ss) |-> IF i = 1 THEN ss[i] ELSE g[i - 1] \o ss[i]]
           F == CHOOSE g : Def(g)
<1>1. Len(ss) \in Nat /\ Len(ss) # 0
  BY EmptySeq
<1>2. Def(f)
  BY DEF Flattens
<1>3. Def(F)
  <2> HIDE DEF Def
  <2> QED BY <1>2
<1>4. FlattenSeq(ss) = F[Len(ss)]
  BY <1>1 DEF FlattenSeq
<1> HIDE DEF F
<1> DEFINE Bad == {i \in 1..Len(ss) : F[i] # f[i]}
<1>5. Bad = {}
  <2> SUFFICES ASSUME Bad # {} PROVE FALSE
    OBVIOUS
  <2>1. PICK i \in Bad : \A j \in Bad : i <= j
    <3>1. Bad \in SUBSET Nat
      OBVIOUS
    <3> HIDE DEF Bad
    <3> QED BY <3>1, LeastNumber
  <2>2. i \in 1..Len(ss) /\ F[i] # f[i]
    BY <2>1
  <2>3. i # 1 => i - 1 \in 1..Len(ss) /\ i - 1 \notin Bad
    BY <1>1, <2>1, <2>2
  <2>4. i # 1 => F[i - 1] = f[i - 1]
    BY <2>3
  <2>5. F[i] = IF i = 1 THEN ss[i] ELSE F[i - 1] \o ss[i]
    BY <1>3, <2>2
  <2>6. f[i] = IF i = 1 THEN ss[i] ELSE f[i - 1] \o ss[i]
    BY <2>2 DEF Flattens
  <2> QED BY <2>2, <2>4, <2>5, <2>6
<1> QED BY <1>1, <1>4, <1>5

\* It is a sequence of the elements.
LEMMA FlattenTyped ==
    ASSUME NEW S, NEW ss \in Seq(Seq(S))
    PROVE  FlattenSeq(ss) \in Seq(S)
<1>1. CASE ss = <<>>
  <2>1. <<>> \in Seq(S)
    OBVIOUS
  <2> QED BY <1>1, <2>1, FlattenEmpty
<1>2. CASE ss # <<>>
  <2>1. Len(ss) \in Nat /\ Len(ss) # 0
    BY <1>2, EmptySeq
  <2>2. PICK f : Flattens(ss, f, Len(ss), S)
    BY <2>1, FlattensExists
  <2>3. FlattenSeq(ss) = f[Len(ss)]
    BY <1>2, <2>2, FlattenIs
  <2>4. f \in [1..Len(ss) -> Seq(S)] /\ Len(ss) \in 1..Len(ss)
    BY <2>1, <2>2 DEF Flattens
  <2>5. f[Len(ss)] \in Seq(S)
    BY <2>4, Zenon
  <2> QED BY <2>3, <2>5
<1> QED BY <1>1, <1>2

\* A sequence that is added is the end of it.
LEMMA FlattenAppend ==
    ASSUME NEW S, NEW ss \in Seq(Seq(S)), NEW s \in Seq(S)
    PROVE  FlattenSeq(Append(ss, s)) = FlattenSeq(ss) \o s
<1> DEFINE tt == Append(ss, s)
           n == Len(ss)
<1>1. /\ tt \in Seq(Seq(S)) /\ Len(tt) = n + 1 /\ n \in Nat /\ tt # <<>>
      /\ tt[n + 1] = s /\ \A i \in 1..n : tt[i] = ss[i]
  <2>1. /\ tt \in Seq(Seq(S)) /\ Len(tt) = n + 1 /\ n \in Nat
        /\ tt[n + 1] = s /\ \A i \in 1..n : tt[i] = ss[i]
    BY AppendProperties
  <2>2. tt # <<>>
    <3> HIDE DEF tt, n
    <3> QED BY <2>1
  <2> QED BY <2>1, <2>2
<1>2. PICK f : Flattens(tt, f, n + 1, S)
  <2> HIDE DEF tt, n
  <2> QED BY <1>1, FlattensExists
<1>3. FlattenSeq(tt) = f[n + 1]
  <2> HIDE DEF tt, n
  <2> QED BY <1>1, <1>2, FlattenIs
<1>4. CASE n = 0
  <2>1. ss = <<>> /\ f[n + 1] = s
    BY <1>1, <1>2, <1>4, EmptySeq DEF Flattens
  <2> QED BY <1>3, <2>1, FlattenEmpty, ConcatEmptySeq
<1>5. CASE n # 0
  <2> DEFINE g == [i \in 1..n |-> f[i]]
  <2>1. Flattens(ss, g, n, S)
    <3>1. \A i \in 1..n : i \in 1..n+1 /\ (i # 1 => i - 1 \in 1..n)
      BY <1>1
    <3> HIDE DEF tt, n
    <3> QED BY <1>1, <1>2, <3>1 DEF Flattens
  <2>2. FlattenSeq(ss) = f[n]
    <3>1. ss # <<>> /\ n \in 1..n
      BY <1>1, <1>5, EmptySeq
    <3>2. FlattenSeq(ss) = g[n]
      <4> HIDE DEF g
      <4> QED BY <2>1, <3>1, FlattenIs
    <3> QED BY <3>1, <3>2
  <2>3. f[n + 1] = f[n] \o s
    <3>1. n + 1 \in 1..n+1 /\ n + 1 # 1 /\ (n + 1) - 1 = n
      BY <1>1, <1>5
    <3> HIDE DEF tt, n
    <3> QED BY <1>1, <1>2, <3>1 DEF Flattens
  <2> QED BY <1>3, <2>2, <2>3
<1> QED BY <1>4, <1>5

\* One sequence makes itself.
LEMMA FlattenOne ==
    ASSUME NEW S, NEW s \in Seq(S)
    PROVE  FlattenSeq(<<s>>) = s
<1>1. <<s>> = Append(<<>>, s)
  OBVIOUS
<1>2. <<>> \in Seq(Seq(S))
  OBVIOUS
<1>3. FlattenSeq(<<s>>) = <<>> \o s
  BY <1>1, <1>2, FlattenAppend, FlattenEmpty
<1> QED BY <1>3, ConcatEmptySeq

\* Two lists of sequences are flattened one after the other.
LEMMA FlattenConcat ==
    ASSUME NEW S, NEW ss \in Seq(Seq(S)), NEW tt \in Seq(Seq(S))
    PROVE  FlattenSeq(ss \o tt) = FlattenSeq(ss) \o FlattenSeq(tt)
<1>0. \A x, y, z \in Seq(Seq(S)) : (x \o y) \o z = x \o (y \o z)
  <2> DEFINE T == Seq(S)
  <2> HIDE DEF T
  <2>1. \A x, y, z \in Seq(T) : (x \o y) \o z = x \o (y \o z)
    BY ConcatAssociative, SMTT(30)
  <2> QED BY <2>1 DEF T
<1>9. \A x, y, z \in Seq(S) : (x \o y) \o z = x \o (y \o z)
  BY ConcatAssociative, SMTT(30)
<1> DEFINE Q == Seq(Seq(S))
           Good(t) == FlattenSeq(ss \o t) = FlattenSeq(ss) \o FlattenSeq(t)
           Bad == {n \in Nat : \E t \in Q : Len(t) = n /\ ~Good(t)}
<1>1. Bad = {}
  <2> SUFFICES ASSUME Bad # {} PROVE FALSE
    OBVIOUS
  <2>1. PICK n \in Bad : \A j \in Bad : n <= j
    <3>1. Bad \in SUBSET Nat
      OBVIOUS
    <3> HIDE DEF Bad
    <3> QED BY <3>1, LeastNumber
  <2>2. PICK t \in Q : Len(t) = n /\ ~Good(t)
    BY <2>1
  <2>3. CASE t = <<>>
    BY <2>2, <2>3, FlattenEmpty, ConcatEmptySeq, FlattenTyped
  <2>4. CASE t # <<>>
    <3>1. PICK front \in Q, last \in Seq(S) : t = Append(front, last)
      BY <2>4, SequenceEmptyOrAppend
    <3>2. Len(front) \in Nat /\ Len(front) < n
      <4>1. Len(t) = Len(front) + 1 /\ Len(front) \in Nat
        BY <3>1, AppendProperties
      <4> HIDE DEF Bad
      <4> QED BY <2>2, <4>1
    <3>3. Good(front)
      <4>1. Len(front) \notin Bad
        BY <2>1, <3>2
      <4> QED BY <3>2, <4>1
    <3>4. ss \o t = Append(ss \o front, last)
      <4>1. t = front \o <<last>> /\ <<last>> \in Q
        <5>1. Append(front, last) = front \o <<last>>
          BY <3>1, AppendIsConcat, Zenon DEF Q
        <5>2. <<last>> \in Seq(Seq(S))
          BY <3>1
        <5> QED BY <3>1, <5>1, <5>2
      <4>2. ss \o front \in Q
        BY ConcatProperties
      <4> HIDE DEF Q
      <4>3. ss \o t = (ss \o front) \o <<last>>
        <5>1. ss \in Seq(Seq(S)) /\ front \in Seq(Seq(S)) /\ <<last>> \in Seq(Seq(S))
          BY <3>1, <4>1 DEF Q
        <5>2. (ss \o front) \o <<last>> = ss \o (front \o <<last>>)
          BY <5>1, <1>0, Zenon
        <5> QED BY <4>1, <5>2
      <4> QED BY <4>2, <4>3, AppendIsConcat DEF Q
    <3>5. FlattenSeq(ss \o t) = FlattenSeq(ss \o front) \o last
      <4>1. ss \o front \in Seq(Seq(S))
        BY <3>1, ConcatProperties, Zenon DEF Q
      <4> QED BY <3>1, <3>4, <4>1, FlattenAppend, Zenon
    <3>6. FlattenSeq(t) = FlattenSeq(front) \o last
      BY <3>1, FlattenAppend
    <3>7. /\ FlattenSeq(ss) \in Seq(S) /\ FlattenSeq(front) \in Seq(S)
      BY FlattenTyped
    <3>8. (FlattenSeq(ss) \o FlattenSeq(front)) \o last = FlattenSeq(ss) \o (FlattenSeq(front) \o last)
      BY <3>7, <1>9, Zenon
    <3>9. Good(t)
      <4>1. FlattenSeq(ss \o front) = FlattenSeq(ss) \o FlattenSeq(front)
        BY <3>3
      <4> QED BY <3>5, <3>6, <3>8, <4>1, Zenon
    <3> HIDE DEF Good
    <3> QED BY <2>2, <3>9
  <2> QED BY <2>3, <2>4
<1>2. Len(tt) \in Nat
  OBVIOUS
<1> QED BY <1>1, <1>2

(***************************************************************************)
(* What is written is in order, and complete.                              *)
(*                                                                         *)
(* Queue is all that is on its way, from the batch back to the event: what *)
(* every good output has is what was ever given, less what passes of the   *)
(* queue.  A step moves an entry from one part of the queue to the next,   *)
(* and what it drops would not have passed.                                *)
(***************************************************************************)
Records == {Intended(b) : b \in Builders}

Record(entry) == ReadRow(InsertEvents(entry))

RecordsOf(list) == [k \in DOMAIN list |-> Record(list[k])]

\* Each entry as a sequence of its own, empty if the filter drops it.
Pieces(list) ==
    [k \in DOMAIN list |-> IF allowed = None \/ Forwards(list[k]) THEN <<Record(list[k])>> ELSE <<>>]

Passes(list) == FlattenSeq(Pieces(list))

Sent == batch \o (FlattenSeq(taken) \o FlattenSeq(buffer))

Queue == Sent \o (filtered \o data)

\* What an idle reader and an idle writer have under way.
StagesOK ==
    /\ reader = "next" => data = <<>> /\ filtered = <<>>
    /\ allowed = None => filtered = <<>>
    /\ writer = "idle" => batch = <<>>
    /\ writer # "merge" => taken = <<>>
    /\ writer # "idle" => pc = "run"
    /\ pc \in {"parse", "open"} => given = <<>>

\* What output s has of the batch already.
Ahead(s) == IF writer = "store" /\ s < at THEN RecordsOf(batch) ELSE <<>>

\* What output s has, when every output had "stored" before the batch.
ReadOK(s, stored) ==
    IF stores[s].good THEN Read(s) = stored \o Ahead(s)
    ELSE stores[s].type = "json" /\ written[s] = <<>>

OrderOK ==
    \E stored \in Seq(Records) :
        /\ AllIntended = stored \o Passes(Queue)
        /\ \A s \in DOMAIN stores : ReadOK(s, stored)

\* What builders make, and what of it passes the filter.
Entries == {Build(b) : b \in Builders}

Passing == {entry \in Entries : allowed = None \/ Forwards(entry)}

\* It does not matter which two of three sequences are put together first.
LEMMA EntriesAssociative == \A x, y, z \in Seq(Entries) : (x \o y) \o z = x \o (y \o z)
BY ConcatAssociative

\* The same of records.
LEMMA RecordsAssociative == \A x, y, z \in Seq(Records) : (x \o y) \o z = x \o (y \o z)
BY ConcatAssociative

\* One sequence after another, for the sets this is used with: its type and length,
\* and its elements.
LEMMA EntriesConcat ==
    ASSUME NEW p \in Seq(Entries), NEW q \in Seq(Entries)
    PROVE  p \o q \in Seq(Entries) /\ Len(p \o q) = Len(p) + Len(q)
BY ConcatProperties, Zenon

LEMMA EntriesAt ==
    ASSUME NEW p \in Seq(Entries), NEW q \in Seq(Entries)
    PROVE  \A k \in 1..Len(p) + Len(q) : (p \o q)[k] = IF k <= Len(p) THEN p[k] ELSE q[k - Len(p)]
BY ConcatProperties, Zenon

LEMMA RecordsConcat ==
    ASSUME NEW p \in Seq(Records), NEW q \in Seq(Records)
    PROVE  p \o q \in Seq(Records) /\ Len(p \o q) = Len(p) + Len(q)
BY ConcatProperties, Zenon

LEMMA RecordsAt ==
    ASSUME NEW p \in Seq(Records), NEW q \in Seq(Records)
    PROVE  \A k \in 1..Len(p) + Len(q) : (p \o q)[k] = IF k <= Len(p) THEN p[k] ELSE q[k - Len(p)]
BY ConcatProperties, Zenon

LEMMA PiecesConcat ==
    ASSUME NEW p \in Seq(Seq(Records)), NEW q \in Seq(Seq(Records))
    PROVE  p \o q \in Seq(Seq(Records)) /\ Len(p \o q) = Len(p) + Len(q)
BY ConcatProperties, Zenon

LEMMA PiecesAt ==
    ASSUME NEW p \in Seq(Seq(Records)), NEW q \in Seq(Seq(Records))
    PROVE  \A k \in 1..Len(p) + Len(q) : (p \o q)[k] = IF k <= Len(p) THEN p[k] ELSE q[k - Len(p)]
BY ConcatProperties, Zenon

LEMMA RowsConcat ==
    ASSUME NEW p \in Seq(Rows), NEW q \in Seq(Rows)
    PROVE  p \o q \in Seq(Rows) /\ Len(p \o q) = Len(p) + Len(q)
BY ConcatProperties, Zenon

LEMMA RowsAt ==
    ASSUME NEW p \in Seq(Rows), NEW q \in Seq(Rows)
    PROVE  \A k \in 1..Len(p) + Len(q) : (p \o q)[k] = IF k <= Len(p) THEN p[k] ELSE q[k - Len(p)]
BY ConcatProperties, Zenon

\* A builder's entry says what was meant, and passes if it should.
LEMMA BuilderPasses ==
    ASSUME NEW b \in Builders
    PROVE  /\ IsBuilder(b) /\ Record(Build(b)) = Intended(b)
           /\ IsIntended(b) <=> allowed = None \/ Forwards(Build(b))
<1>1. IsBuilder(b)
  BY DEF Builders
<1>2. ASSUME IsIntended(b), allowed # None PROVE Forwards(Build(b))
  <2>1. /\ Build(b) \in Entry /\ b.type \in EntryType /\ Build(b).type = b.type
        /\ Len(Build(b).data) \in Nat /\ DeviceTypeIndex \in 1..Len(Order[b.type])
    BY <1>1, BuildIsEntry, PositionsOfBuild, Positions DEF DeviceTypeIndex
  <2>2. Order[b.type][DeviceTypeIndex] = "device"
    BY <2>1, ListsAgree
  <2>3. Build(b).data[DeviceTypeIndex] = Text(b, "device")
    BY <1>1, <2>1, <2>2, PositionsOfBuild
  <2>4. CASE "device" \notin DOMAIN b.set
    BY <2>3, <2>4 DEF Text, FromUnderlying, Forwards
  <2>5. CASE "device" \in DOMAIN b.set
    <3>1. b.set["device"] \in Range(DeviceType) /\ b.set["device"] \in allowed
      BY <1>1, <1>2, <2>5 DEF IsBuilder, IsIntended
    <3>2. Text(b, "device") = ToUnderlying(DeviceType, b.set["device"])
      BY <2>5 DEF Text
    <3> QED BY <2>3, <3>1, <3>2, DevicesRead DEF Forwards
  <2> QED BY <2>4, <2>5
<1> QED BY <1>1, <1>2, RowReadsAsBuilt, ForwardsIntended DEF Record

\* Types of what is made of a list of entries.
LEMMA PiecesTyped ==
    ASSUME NEW list \in Seq(Entries)
    PROVE  /\ Pieces(list) \in Seq(Seq(Records)) /\ DOMAIN Pieces(list) = DOMAIN list
           /\ Len(Pieces(list)) = Len(list)
           /\ RecordsOf(list) \in Seq(Records) /\ Len(RecordsOf(list)) = Len(list)
           /\ Passes(list) \in Seq(Records)
<1>1. DOMAIN list = 1..Len(list) /\ Len(list) \in Nat
  OBVIOUS
<1>2. \A k \in 1..Len(list) : Record(list[k]) \in Records
  <2>1. \A entry \in Entries : Record(entry) \in Records
    BY BuilderPasses DEF Entries, Records
  <2> QED BY <2>1
<1>3. \A k \in 1..Len(list) : Pieces(list)[k] \in Seq(Records)
  BY <1>1, <1>2 DEF Pieces
<1>4. Pieces(list) \in Seq(Seq(Records)) /\ DOMAIN Pieces(list) = 1..Len(list)
      /\ Len(Pieces(list)) = Len(list)
  <2>1. DOMAIN Pieces(list) = 1..Len(list)
    BY <1>1 DEF Pieces
  <2>2. Pieces(list) = [k \in 1..Len(list) |-> Pieces(list)[k]]
    BY <1>1 DEF Pieces
  <2> QED BY <1>1, <1>3, <2>1, <2>2
<1>5. RecordsOf(list) \in Seq(Records) /\ Len(RecordsOf(list)) = Len(list)
  BY <1>1, <1>2 DEF RecordsOf
<1>6. Passes(list) \in Seq(Records)
  BY <1>4, FlattenTyped DEF Passes
<1> QED BY <1>1, <1>4, <1>5, <1>6

\* Lists that follow one another pass one after another.
LEMMA PassesConcat ==
    ASSUME NEW s \in Seq(Entries), NEW t \in Seq(Entries)
    PROVE  Passes(s \o t) = Passes(s) \o Passes(t)
<1>1. /\ s \o t \in Seq(Entries) /\ Len(s \o t) = Len(s) + Len(t)
      /\ Len(s) \in Nat /\ Len(t) \in Nat
      /\ DOMAIN s = 1..Len(s) /\ DOMAIN t = 1..Len(t)
      /\ \A k \in 1..Len(s) + Len(t) : (s \o t)[k] = IF k <= Len(s) THEN s[k] ELSE t[k - Len(s)]
  BY ConcatProperties
<1>2. /\ Pieces(s) \in Seq(Seq(Records)) /\ Pieces(t) \in Seq(Seq(Records))
      /\ Pieces(s \o t) \in Seq(Seq(Records))
      /\ Len(Pieces(s)) = Len(s) /\ Len(Pieces(t)) = Len(t)
      /\ Len(Pieces(s \o t)) = Len(s) + Len(t)
  BY <1>1, PiecesTyped
<1>3. /\ \A k \in 1..Len(s) : Pieces(s)[k] =
              IF allowed = None \/ Forwards(s[k]) THEN <<Record(s[k])>> ELSE <<>>
      /\ \A k \in 1..Len(t) : Pieces(t)[k] =
              IF allowed = None \/ Forwards(t[k]) THEN <<Record(t[k])>> ELSE <<>>
      /\ \A k \in 1..Len(s) + Len(t) : Pieces(s \o t)[k] =
              IF allowed = None \/ Forwards((s \o t)[k]) THEN <<Record((s \o t)[k])>> ELSE <<>>
  <2>1. DOMAIN (s \o t) = 1..Len(s) + Len(t)
    BY <1>1
  <2> QED BY <1>1, <2>1 DEF Pieces
<1> DEFINE both == Pieces(s) \o Pieces(t)
<1>4. /\ both \in Seq(Seq(Records)) /\ Len(both) = Len(s) + Len(t)
      /\ \A k \in 1..Len(s) + Len(t) :
            both[k] = IF k <= Len(s) THEN Pieces(s)[k] ELSE Pieces(t)[k - Len(s)]
  <2>1. Pieces(s) \in Seq(Seq(Records))
    BY <1>1, <1>2
  <2>2. Pieces(t) \in Seq(Seq(Records))
    BY <1>1, <1>2
  <2>3. Len(Pieces(s)) = Len(s)
    BY <1>1, <1>2
  <2>4. Len(Pieces(t)) = Len(t)
    BY <1>1, <1>2
  <2>5. both \in Seq(Seq(Records)) /\ Len(both) = Len(s) + Len(t)
    <3>1. both \in Seq(Seq(Records)) /\ Len(both) = Len(Pieces(s)) + Len(Pieces(t))
      BY <2>1, <2>2, PiecesConcat, Zenon
    <3> QED BY <2>3, <2>4, <3>1, Zenon
  <2>6. \A k \in 1..Len(s) + Len(t) :
           both[k] = IF k <= Len(s) THEN Pieces(s)[k] ELSE Pieces(t)[k - Len(s)]
    <3>1. \A k \in 1..Len(Pieces(s)) + Len(Pieces(t)) :
             both[k] = IF k <= Len(Pieces(s)) THEN Pieces(s)[k] ELSE Pieces(t)[k - Len(Pieces(s))]
      BY <2>1, <2>2, PiecesAt, Zenon
    <3> HIDE DEF both
    <3> QED BY <2>3, <2>4, <3>1, Zenon
  <2> QED BY <2>5, <2>6
<1>5. ASSUME NEW k \in 1..Len(s) + Len(t) PROVE Pieces(s \o t)[k] = both[k]
  <2>1. (k <= Len(s) => k \in 1..Len(s)) /\ (~(k <= Len(s)) => k - Len(s) \in 1..Len(t))
    BY <1>1
  <2> HIDE DEF both
  <2>2. CASE k <= Len(s)
    BY <2>1, <2>2, <1>1, <1>3, <1>4
  <2>3. CASE ~(k <= Len(s))
    BY <2>1, <2>3, <1>1, <1>3, <1>4
  <2> QED BY <2>2, <2>3
<1> HIDE DEF both
<1>6. Pieces(s \o t) = both
  BY <1>1, <1>2, <1>4, <1>5
<1> QED BY <1>2, <1>6, FlattenConcat DEF Passes, both

\* Of nothing, nothing passes.
LEMMA PassesEmpty == Passes(<<>>) = <<>>
<1>1. Pieces(<<>>) = <<>>
  BY DEF Pieces
<1> QED BY <1>1, FlattenEmpty DEF Passes

\* One entry passes or does not.
LEMMA PassesOne ==
    ASSUME NEW entry \in Entries
    PROVE  Passes(<<entry>>) = IF entry \in Passing THEN <<Record(entry)>> ELSE <<>>
<1> DEFINE piece == IF entry \in Passing THEN <<Record(entry)>> ELSE <<>>
<1>1. Pieces(<<entry>>) = <<piece>>
  BY DEF Pieces, Passing
<1>2. piece \in Seq(Records)
  <2>1. Record(entry) \in Records
    BY BuilderPasses DEF Entries, Records
  <2> QED BY <2>1
<1> HIDE DEF piece
<1> QED BY <1>1, <1>2, FlattenOne DEF Passes, piece

\* All of a list of entries that pass is recorded, in its order.
LEMMA PassesAll ==
    ASSUME NEW list \in Seq(Passing)
    PROVE  Passes(list) = RecordsOf(list)
<1> DEFINE Bad == {n \in Nat : \E l \in Seq(Passing) : Len(l) = n /\ Passes(l) # RecordsOf(l)}
<1>1. Bad = {}
  <2> SUFFICES ASSUME Bad # {} PROVE FALSE
    OBVIOUS
  <2>1. PICK n \in Bad : \A j \in Bad : n <= j
    <3>1. Bad \in SUBSET Nat
      OBVIOUS
    <3> HIDE DEF Bad
    <3> QED BY <3>1, LeastNumber
  <2>2. PICK l \in Seq(Passing) : Len(l) = n /\ Passes(l) # RecordsOf(l)
    BY <2>1
  <2>3. CASE l = <<>>
    <3>1. RecordsOf(<<>>) = <<>>
      BY DEF RecordsOf
    <3> QED BY <2>2, <2>3, <3>1, PassesEmpty
  <2>4. CASE l # <<>>
    <3>1. PICK front \in Seq(Passing), last \in Passing : l = Append(front, last)
      BY <2>4, SequenceEmptyOrAppend
    <3>2. Len(front) \in Nat /\ Len(front) < n
      <4>1. Len(l) = Len(front) + 1 /\ Len(front) \in Nat
        BY <3>1, AppendProperties
      <4> HIDE DEF Bad
      <4> QED BY <2>2, <4>1
    <3>3. Passes(front) = RecordsOf(front)
      <4>1. Len(front) \notin Bad
        BY <2>1, <3>2
      <4> QED BY <3>2, <4>1
    <3>4. front \in Seq(Entries) /\ last \in Entries /\ <<last>> \in Seq(Entries)
      <4>1. Passing \subseteq Entries
        BY DEF Passing
      <4> QED BY <4>1, SeqMonotonic
    <3>5. l = front \o <<last>>
      BY <3>1, AppendIsConcat
    <3>6. Passes(l) = RecordsOf(front) \o <<Record(last)>>
      BY <3>3, <3>4, <3>5, PassesConcat, PassesOne
    <3>7. RecordsOf(l) = Append(RecordsOf(front), Record(last))
      <4>1. /\ Len(l) = Len(front) + 1 /\ l[Len(front) + 1] = last
            /\ \A k \in 1..Len(front) : l[k] = front[k]
        BY <3>1, AppendProperties
      <4>2. DOMAIN l = 1..Len(front) + 1 /\ DOMAIN front = 1..Len(front)
        BY <4>1
      <4>3. RecordsOf(front) \in Seq(Records) /\ Len(RecordsOf(front)) = Len(front)
        BY <3>4, PiecesTyped
      <4>4. DOMAIN RecordsOf(l) = 1..Len(front) + 1
            /\ \A k \in 1..Len(front) + 1 : RecordsOf(l)[k] = Record(l[k])
        BY <4>2 DEF RecordsOf
      <4>5. \A k \in 1..Len(front) : RecordsOf(front)[k] = Record(front[k])
        BY <4>2 DEF RecordsOf
      <4>6. Record(last) \in Records
        BY <3>4, BuilderPasses DEF Entries, Records
      <4>7. /\ Append(RecordsOf(front), Record(last)) \in Seq(Records)
            /\ Len(Append(RecordsOf(front), Record(last))) = Len(front) + 1
            /\ Append(RecordsOf(front), Record(last))[Len(front) + 1] = Record(last)
            /\ \A k \in 1..Len(front) :
                  Append(RecordsOf(front), Record(last))[k] = RecordsOf(front)[k]
        BY <4>3, <4>6, AppendProperties
      <4>8. l \in Seq(Entries) /\ RecordsOf(l) \in Seq(Records) /\ Len(RecordsOf(l)) = Len(front) + 1
        <5>1. l \in Seq(Entries)
          BY <3>4, <3>1
        <5> QED BY <5>1, <4>1, PiecesTyped
      <4>9. \A k \in 1..Len(front) + 1 :
               RecordsOf(l)[k] = Append(RecordsOf(front), Record(last))[k]
        <5> SUFFICES ASSUME NEW k \in 1..Len(front) + 1
                     PROVE  RecordsOf(l)[k] = Append(RecordsOf(front), Record(last))[k]
          OBVIOUS
        <5>1. k \in 1..Len(front) \/ k = Len(front) + 1
          BY <3>2
        <5> QED BY <5>1, <4>1, <4>4, <4>5, <4>7
      <4> QED BY <4>7, <4>8, <4>9
    <3>8. RecordsOf(front) \o <<Record(last)>> = Append(RecordsOf(front), Record(last))
      <4>1. RecordsOf(front) \in Seq(Records) /\ Record(last) \in Records
        BY <3>4, PiecesTyped, BuilderPasses DEF Entries, Records
      <4> QED BY <4>1, AppendIsConcat
    <3> QED BY <2>2, <3>6, <3>7, <3>8
  <2> QED BY <2>3, <2>4
<1>2. Len(list) \in Nat
  OBVIOUS
<1> QED BY <1>1, <1>2

\* At the start nothing is under way.
LEMMA StagesInit == Init => StagesOK
BY DEF Init, StagesOK

\* Every step keeps the stages.
LEMMA StagesHold == IInv /\ ControlOK /\ StagesOK /\ [Next]_vars => StagesOK'
<1> SUFFICES ASSUME IInv, ControlOK, StagesOK, [Next]_vars PROVE StagesOK'
  OBVIOUS
<1>0. reader = "filter" => pc = "run"
  BY DEF IInv, ReaderOK
<1>1. CASE \E raw \in RawFilters, outs \in OutputLists : Parse(raw, outs)
  <2>1. /\ pc = "parse" /\ pc' = "open"
        /\ UNCHANGED <<reader, data, filtered, given, writer, taken, batch>>
    BY <1>1 DEF Parse, readerVars, writerVars
  <2>2. reader = "next" /\ writer = "idle"
    BY <1>0, <2>1 DEF StagesOK, ControlOK
  <2> QED BY <2>1, <2>2 DEF StagesOK
<1>2. CASE OpenDatabase \/ InitFails \/ (\E good \in BOOLEAN : OpenStream(good))
  <2>1. /\ pc = "open" /\ pc' \in {"open", "failed"}
        /\ UNCHANGED <<allowed, reader, data, filtered, given, writer, taken, batch>>
    BY <1>2 DEF OpenDatabase, InitFails, OpenStream, readerVars, writerVars
  <2> QED BY <2>1 DEF StagesOK
<1>3. CASE Run
  BY <1>3 DEF Run, StagesOK, readerVars, writerVars
<1>4. CASE \E event \in Events : TransformEvent(event)
  BY <1>4 DEF TransformEvent, StagesOK, mainVars, writerVars
<1>5. CASE ForwardAll \/ FilterEntry \/ ForwardFiltered
  BY <1>0, <1>5 DEF ForwardAll, FilterEntry, ForwardFiltered, StagesOK, mainVars, writerVars
<1>6. CASE TakeBuffer \/ MergeWith \/ StartStoring \/ StoreInDatabase \/ StoreAsJson
           \/ FinishStoring
  BY <1>6 DEF TakeBuffer, MergeWith, StartStoring, StoreInDatabase, StoreAsJson, FinishStoring,
              StagesOK, mainVars, readerVars
<1>7. CASE UNCHANGED vars
  BY <1>7 DEF StagesOK, vars, mainVars, readerVars, writerVars
<1> QED BY <1>1, <1>2, <1>3, <1>4, <1>5, <1>6, <1>7 DEF Next

\* What is kept passes, and reads the same from a row and from a document.
LEMMA KeptReads ==
    ASSUME given \in Seq(Builders)
    PROVE  /\ Built \subseteq Entries /\ Kept \subseteq Passing /\ Passing \subseteq Entries
           /\ \A entry \in Kept :
                 ReadJson(JsonEntry(entry)) = Record(entry) /\ Record(entry) \in Records
<1>1. Range(given) \subseteq Builders
  BY DEF Range
<1>2. Built \subseteq Entries
  BY <1>1 DEF Built, Entries
<1>3. Kept \subseteq Passing /\ Passing \subseteq Entries
  BY <1>2 DEF Kept, Passing
<1>4. ASSUME NEW entry \in Kept
      PROVE  ReadJson(JsonEntry(entry)) = Record(entry) /\ Record(entry) \in Records
  <2>1. PICK b \in Builders : entry = Build(b)
    BY <1>3 DEF Passing, Entries
  <2> QED BY <2>1, BuilderPasses, DocumentReadsAsBuilt DEF Records
<1> QED BY <1>2, <1>3, <1>4

\* All on its way passes the filter, or is still to be filtered.
LEMMA QueueTyped ==
    ASSUME IInv
    PROVE  /\ batch \in Seq(Passing) /\ filtered \in Seq(Passing) /\ data \in Seq(Entries)
           /\ taken \in Seq(Seq(Entries)) /\ buffer \in Seq(Seq(Entries))
           /\ FlattenSeq(taken) \in Seq(Passing) /\ FlattenSeq(buffer) \in Seq(Passing)
           /\ Sent \in Seq(Entries) /\ Sent \in Seq(Passing)
           /\ batch \in Seq(Entries) /\ filtered \in Seq(Entries)
           /\ FlattenSeq(taken) \in Seq(Entries) /\ FlattenSeq(buffer) \in Seq(Entries)
<1>1. /\ batch \in Seq(Kept) /\ filtered \in Seq(Kept) /\ data \in Seq(Built)
      /\ taken \in Seq(Seq(Kept)) /\ buffer \in Seq(Seq(Kept))
  BY DEF IInv, QueueOK, ReaderOK
<1>2. Built \subseteq Entries /\ Kept \subseteq Passing /\ Passing \subseteq Entries
  BY KeptReads DEF IInv, ReaderOK
<1>3. /\ Seq(Built) \subseteq Seq(Entries) /\ Seq(Kept) \subseteq Seq(Passing)
      /\ Seq(Passing) \subseteq Seq(Entries)
  BY <1>2, SeqMonotonic
<1>4. Seq(Seq(Kept)) \subseteq Seq(Seq(Passing)) /\ Seq(Seq(Passing)) \subseteq Seq(Seq(Entries))
  BY <1>3, SeqMonotonic
<1>5. taken \in Seq(Seq(Passing)) /\ buffer \in Seq(Seq(Passing))
  BY <1>1, <1>4
<1>6. FlattenSeq(taken) \in Seq(Passing) /\ FlattenSeq(buffer) \in Seq(Passing)
  BY <1>5, FlattenTyped
<1>7. batch \in Seq(Passing)
  BY <1>1, <1>3
<1>8. Sent \in Seq(Passing)
  BY <1>6, <1>7, ConcatProperties DEF Sent
<1>9. Sent \in Seq(Entries)
  BY <1>3, <1>8
<1> QED BY <1>1, <1>3, <1>4, <1>5, <1>6, <1>7, <1>8, <1>9

\* A step that moves entries along the queue without dropping one that passes keeps the
\* order, if no output gets anything.
LEMMA OrderStays ==
    ASSUME OrderOK, UNCHANGED <<allowed, given, stores, written>>,
           Passes(Queue') = Passes(Queue),
           \A s \in DOMAIN stores : Ahead(s)' = Ahead(s)
    PROVE  OrderOK'
<1>1. PICK stored \in Seq(Records) :
         /\ AllIntended = stored \o Passes(Queue)
         /\ \A s \in DOMAIN stores : ReadOK(s, stored)
  BY DEF OrderOK
<1>2. AllIntended' = AllIntended
  BY DEF AllIntended, IsIntended
<1>3. Passes(Queue)' = Passes(Queue')
  BY DEF Passes, Pieces, Forwards
<1>4. ASSUME NEW s \in DOMAIN stores PROVE ReadOK(s, stored)'
  <2>1. Read(s)' = Read(s)
    BY DEF Read
  <2> QED BY <1>1, <2>1 DEF ReadOK
<1> QED BY <1>1, <1>2, <1>3, <1>4 DEF OrderOK

\* The event loop hands on what passes.
LEMMA ReaderOrder ==
    ASSUME IInv, StagesOK, OrderOK, ForwardAll \/ FilterEntry \/ ForwardFiltered
    PROVE  OrderOK'
<1>0. \A x, y, z \in Seq(Entries) : (x \o y) \o z = x \o (y \o z)
  BY EntriesAssociative
<1>1. UNCHANGED <<allowed, given, stores, written, writer, taken, batch, at>>
  BY DEF ForwardAll, FilterEntry, ForwardFiltered, mainVars, writerVars
<1>2. \A s \in DOMAIN stores : Ahead(s)' = Ahead(s)
  BY <1>1 DEF Ahead
<1>3. <<>> \in Seq(Entries) /\ \A x \in Seq(Entries) : x \o <<>> = x /\ <<>> \o x = x
  BY ConcatEmptySeq
<1>4. /\ Sent \in Seq(Entries) /\ filtered \in Seq(Entries) /\ data \in Seq(Entries)
      /\ batch \in Seq(Entries) /\ FlattenSeq(taken) \in Seq(Entries)
      /\ FlattenSeq(buffer) \in Seq(Entries) /\ buffer \in Seq(Seq(Entries))
  BY QueueTyped
<1>5. ASSUME NEW list \in Seq(Entries), buffer' = Append(buffer, list)
      PROVE  Sent' = Sent \o list
  <2>1. FlattenSeq(buffer') = FlattenSeq(buffer) \o list
    BY <1>4, <1>5, FlattenAppend
  <2>2. Sent' = batch \o (FlattenSeq(taken) \o (FlattenSeq(buffer) \o list))
    BY <1>1, <2>1 DEF Sent
  <2>3. FlattenSeq(taken) \o (FlattenSeq(buffer) \o list)
           = (FlattenSeq(taken) \o FlattenSeq(buffer)) \o list
    <3> DEFINE t == FlattenSeq(taken)
               b == FlattenSeq(buffer)
    <3>1. t \in Seq(Entries) /\ b \in Seq(Entries) /\ list \in Seq(Entries)
      BY <1>4
    <3> HIDE DEF t, b
    <3>2. (t \o b) \o list = t \o (b \o list)
      BY <1>0, <3>1, Zenon
    <3> QED BY <3>2 DEF t, b
  <2>4. FlattenSeq(taken) \o FlattenSeq(buffer) \in Seq(Entries)
    BY <1>4, ConcatProperties
  <2> DEFINE behind == FlattenSeq(taken) \o FlattenSeq(buffer)
  <2>5. batch \in Seq(Entries) /\ behind \in Seq(Entries) /\ list \in Seq(Entries)
    BY <1>4, <2>4
  <2> HIDE DEF behind
  <2>6. batch \o (behind \o list) = (batch \o behind) \o list
    BY <1>0, <2>5, Zenon
  <2> QED BY <2>2, <2>3, <2>6, Zenon DEF behind, Sent
<1>6. CASE ForwardAll
  <2>1. /\ allowed = None /\ filtered = <<>> /\ filtered' = <<>> /\ data' = <<>>
        /\ buffer' = Append(buffer, data)
    BY <1>6 DEF ForwardAll, StagesOK
  <2>2. Sent' = Sent \o data
    BY <1>4, <1>5, <2>1
  <2>3. Queue' = (Sent \o data) \o (<<>> \o <<>>) /\ Queue = Sent \o (<<>> \o data)
    BY <2>1, <2>2 DEF Queue
  <2>4. Sent \o data \in Seq(Entries)
    BY <1>4, ConcatProperties
  <2>5. Queue' = Queue
    BY <1>3, <1>4, <2>3, <2>4, Zenon
  <2> QED BY <1>1, <1>2, <2>5, OrderStays
<1>7. CASE ForwardFiltered
  <2>1. /\ data = <<>> /\ data' = <<>> /\ filtered' = <<>>
        /\ buffer' = IF filtered = <<>> THEN buffer ELSE Append(buffer, filtered)
    BY <1>7 DEF ForwardFiltered
  <2>2. Sent' = Sent \o filtered
    <3>1. CASE filtered = <<>>
      <4>1. Sent' = Sent
        BY <1>1, <2>1, <3>1 DEF Sent
      <4> QED BY <1>3, <1>4, <3>1, <4>1
    <3>2. CASE filtered # <<>>
      BY <1>4, <1>5, <2>1, <3>2
    <3> QED BY <3>1, <3>2
  <2>3. Queue' = (Sent \o filtered) \o (<<>> \o <<>>) /\ Queue = Sent \o (filtered \o <<>>)
    BY <2>1, <2>2 DEF Queue
  <2>4. Sent \o filtered \in Seq(Entries)
    BY <1>4, ConcatProperties
  <2>5. Queue' = Queue
    BY <1>3, <1>4, <2>3, <2>4, Zenon
  <2> QED BY <1>1, <1>2, <2>5, OrderStays
<1>8. CASE FilterEntry
  <2>1. /\ allowed # None /\ data # <<>> /\ buffer' = buffer /\ data' = Tail(data)
        /\ filtered' = IF Forwards(Head(data)) THEN Append(filtered, Head(data)) ELSE filtered
    BY <1>8 DEF FilterEntry
  <2> DEFINE head == Head(data)
             rest == Tail(data)
  <2>2. head \in Entries /\ rest \in Seq(Entries) /\ data = <<head>> \o rest
        /\ <<head>> \in Seq(Entries)
    BY <1>4, <2>1, HeadTailProperties, ConcatProperties
  <2> HIDE DEF head, rest
  <2>3. Sent' = Sent /\ Queue' = Sent \o (filtered' \o rest)
        /\ Queue = Sent \o (filtered \o (<<head>> \o rest))
    BY <1>1, <2>1, <2>2 DEF Sent, Queue, rest
  <2>4. CASE Forwards(head)
    <3>1. filtered' = filtered \o <<head>>
      BY <1>4, <2>1, <2>2, <2>4, AppendIsConcat DEF head
    <3>2. (filtered \o <<head>>) \o rest = filtered \o (<<head>> \o rest)
      <4> DEFINE one == <<head>>
      <4>1. filtered \in Seq(Entries) /\ one \in Seq(Entries) /\ rest \in Seq(Entries)
        BY <1>4, <2>2
      <4> HIDE DEF one
      <4>2. (filtered \o one) \o rest = filtered \o (one \o rest)
        BY <1>0, <4>1, Zenon
      <4> QED BY <4>2 DEF one
    <3> QED BY <1>1, <1>2, <2>3, <3>1, <3>2, OrderStays
  <2>5. CASE ~Forwards(head)
    <3>1. filtered' = filtered /\ Passes(<<head>>) = <<>>
      BY <2>1, <2>2, <2>5, PassesOne DEF head, Passing
    <3>2. /\ filtered \o rest \in Seq(Entries) /\ <<head>> \o rest \in Seq(Entries)
          /\ filtered \o (<<head>> \o rest) \in Seq(Entries)
      BY <1>4, <2>2, ConcatProperties
    <3>3. /\ Passes(Queue') = Passes(Sent) \o (Passes(filtered) \o Passes(rest))
          /\ Passes(Queue) = Passes(Sent) \o (Passes(filtered) \o (Passes(<<head>>) \o Passes(rest)))
      <4>1. Passes(Queue') = Passes(Sent) \o Passes(filtered \o rest)
        BY <1>4, <2>3, <3>1, <3>2, PassesConcat
      <4>2. Passes(filtered \o rest) = Passes(filtered) \o Passes(rest)
        BY <1>4, <2>2, PassesConcat
      <4>3. Passes(Queue) = Passes(Sent) \o Passes(filtered \o (<<head>> \o rest))
        BY <1>4, <2>3, <3>2, PassesConcat
      <4>4. Passes(filtered \o (<<head>> \o rest)) = Passes(filtered) \o Passes(<<head>> \o rest)
        BY <1>4, <3>2, PassesConcat
      <4>5. Passes(<<head>> \o rest) = Passes(<<head>>) \o Passes(rest)
        BY <2>2, PassesConcat
      <4> QED BY <4>1, <4>2, <4>3, <4>4, <4>5, Zenon
    <3>4. <<>> \o Passes(rest) = Passes(rest)
      BY <2>2, PiecesTyped, ConcatEmptySeq
    <3>5. Passes(Queue') = Passes(Queue)
      BY <3>1, <3>3, <3>4, Zenon
    <3> QED BY <1>1, <1>2, <3>5, OrderStays
  <2> QED BY <2>4, <2>5
<1> QED BY <1>6, <1>7, <1>8

\* The entries of a list of builders.
BuildAll(list) == [k \in DOMAIN list |-> Build(list[k])]

\* Builders make entries, one each.
LEMMA BuildAllTyped ==
    ASSUME NEW list \in Seq(Builders)
    PROVE  BuildAll(list) \in Seq(Entries) /\ Len(BuildAll(list)) = Len(list)
<1>1. DOMAIN list = 1..Len(list) /\ Len(list) \in Nat
  OBVIOUS
<1>2. \A k \in 1..Len(list) : Build(list[k]) \in Entries
  BY DEF Entries
<1> QED BY <1>1, <1>2 DEF BuildAll

\* Lists of builders that follow one another make lists that do.
LEMMA BuildAllConcat ==
    ASSUME NEW s \in Seq(Builders), NEW t \in Seq(Builders)
    PROVE  BuildAll(s \o t) = BuildAll(s) \o BuildAll(t)
<1>1. /\ s \o t \in Seq(Builders) /\ Len(s \o t) = Len(s) + Len(t)
      /\ Len(s) \in Nat /\ Len(t) \in Nat
      /\ DOMAIN s = 1..Len(s) /\ DOMAIN t = 1..Len(t) /\ DOMAIN (s \o t) = 1..Len(s) + Len(t)
      /\ \A k \in 1..Len(s) + Len(t) : (s \o t)[k] = IF k <= Len(s) THEN s[k] ELSE t[k - Len(s)]
  BY ConcatProperties
<1>2. /\ BuildAll(s) \in Seq(Entries) /\ BuildAll(t) \in Seq(Entries)
      /\ BuildAll(s \o t) \in Seq(Entries)
      /\ Len(BuildAll(s)) = Len(s) /\ Len(BuildAll(t)) = Len(t)
      /\ Len(BuildAll(s \o t)) = Len(s) + Len(t)
  BY <1>1, BuildAllTyped
<1>3. /\ \A k \in 1..Len(s) : BuildAll(s)[k] = Build(s[k])
      /\ \A k \in 1..Len(t) : BuildAll(t)[k] = Build(t[k])
      /\ \A k \in 1..Len(s) + Len(t) : BuildAll(s \o t)[k] = Build((s \o t)[k])
  BY <1>1 DEF BuildAll
<1> DEFINE both == BuildAll(s) \o BuildAll(t)
<1>4. /\ both \in Seq(Entries) /\ Len(both) = Len(s) + Len(t)
      /\ \A k \in 1..Len(s) + Len(t) :
            both[k] = IF k <= Len(s) THEN BuildAll(s)[k] ELSE BuildAll(t)[k - Len(s)]
  <2>1. BuildAll(s) \in Seq(Entries)
    BY <1>1, <1>2
  <2>2. BuildAll(t) \in Seq(Entries)
    BY <1>1, <1>2
  <2>3. Len(BuildAll(s)) = Len(s)
    BY <1>1, <1>2
  <2>4. Len(BuildAll(t)) = Len(t)
    BY <1>1, <1>2
  <2>5. both \in Seq(Entries) /\ Len(both) = Len(s) + Len(t)
    <3>1. both \in Seq(Entries) /\ Len(both) = Len(BuildAll(s)) + Len(BuildAll(t))
      BY <2>1, <2>2, EntriesConcat, Zenon
    <3> QED BY <2>3, <2>4, <3>1, Zenon
  <2>6. \A k \in 1..Len(s) + Len(t) :
           both[k] = IF k <= Len(s) THEN BuildAll(s)[k] ELSE BuildAll(t)[k - Len(s)]
    <3>1. \A k \in 1..Len(BuildAll(s)) + Len(BuildAll(t)) :
             both[k] = IF k <= Len(BuildAll(s)) THEN BuildAll(s)[k] ELSE BuildAll(t)[k - Len(BuildAll(s))]
      BY <2>1, <2>2, EntriesAt, Zenon
    <3> HIDE DEF both
    <3> QED BY <2>3, <2>4, <3>1, Zenon
  <2> QED BY <2>5, <2>6
<1>5. ASSUME NEW k \in 1..Len(s) + Len(t) PROVE BuildAll(s \o t)[k] = both[k]
  <2>1. (k <= Len(s) => k \in 1..Len(s)) /\ (~(k <= Len(s)) => k - Len(s) \in 1..Len(t))
    BY <1>1
  <2> HIDE DEF both
  <2>2. CASE k <= Len(s)
    BY <2>1, <2>2, <1>1, <1>3, <1>4
  <2>3. CASE ~(k <= Len(s))
    BY <2>1, <2>3, <1>1, <1>3, <1>4
  <2> QED BY <2>2, <2>3
<1> HIDE DEF both
<1>6. BuildAll(s \o t) = both
  BY <1>1, <1>2, <1>4, <1>5
<1> QED BY <1>6 DEF both

\* What should be recorded of a list of builders is what passes of their entries.
Intends(list) ==
    [k \in DOMAIN list |-> IF IsIntended(list[k]) THEN <<Intended(list[k])>> ELSE <<>>]

LEMMA IntendedPasses ==
    ASSUME NEW list \in Seq(Builders)
    PROVE  FlattenSeq(Intends(list)) = Passes(BuildAll(list))
<1>1. DOMAIN list = 1..Len(list) /\ \A k \in DOMAIN list : list[k] \in Builders
  OBVIOUS
<1>2. DOMAIN BuildAll(list) = DOMAIN list
      /\ \A k \in DOMAIN list : BuildAll(list)[k] = Build(list[k])
  BY DEF BuildAll
<1>3. ASSUME NEW k \in DOMAIN list
      PROVE  (IF IsIntended(list[k]) THEN <<Intended(list[k])>> ELSE <<>>)
                = IF allowed = None \/ Forwards(BuildAll(list)[k])
                  THEN <<Record(BuildAll(list)[k])>> ELSE <<>>
  BY <1>1, <1>2, BuilderPasses
<1>4. Intends(list) = Pieces(BuildAll(list))
  BY <1>2, <1>3 DEF Pieces, Intends
<1> QED BY <1>4 DEF Passes

\* An event joins the end of the queue, and what is intended of it the end of the records.
LEMMA EventOrder ==
    ASSUME IInv, StagesOK, OrderOK, NEW event \in Events, TransformEvent(event)
    PROVE  OrderOK'
<1>1. /\ reader = "next" /\ data' = BuildAll(event) /\ filtered' = <<>> /\ given' = given \o event
      /\ UNCHANGED <<allowed, stores, buffer, writer, taken, batch, at, written>>
  BY DEF TransformEvent, mainVars, writerVars, BuildAll
<1>2. event \in Seq(Builders) /\ given \in Seq(Builders)
  BY StoresAssumption DEF IInv, ReaderOK, Builders
<1>3. PICK stored \in Seq(Records) :
         /\ AllIntended = stored \o Passes(Queue)
         /\ \A s \in DOMAIN stores : ReadOK(s, stored)
  BY DEF OrderOK
<1>4. /\ Sent \in Seq(Entries) /\ data' \in Seq(Entries) /\ BuildAll(given) \in Seq(Entries)
      /\ BuildAll(event) \in Seq(Entries)
  BY <1>1, <1>2, QueueTyped, BuildAllTyped
<1>5. /\ \A x \in Seq(Entries) : x \o <<>> = x /\ <<>> \o x = x
      /\ <<>> \in Seq(Entries)
  BY ConcatEmptySeq
<1>6. Queue = Sent /\ Queue' = Sent \o data'
  <2>1. filtered = <<>> /\ data = <<>> /\ Sent' = Sent
    BY <1>1 DEF StagesOK, Sent
  <2>2. Queue = Sent \o (<<>> \o <<>>) /\ Queue' = Sent \o (<<>> \o data')
    BY <1>1, <2>1 DEF Queue
  <2> QED BY <1>4, <1>5, <2>2, Zenon
<1>7. AllIntended' = Passes(BuildAll(given'))
  <2>1. given' \in Seq(Builders)
    BY <1>1, <1>2, ConcatProperties
  <2>2. AllIntended' = FlattenSeq(Intends(given'))
    BY <1>1 DEF AllIntended, Intends, IsIntended
  <2> QED BY <2>1, <2>2, IntendedPasses
<1>8. AllIntended' = AllIntended \o Passes(data')
  <2>1. BuildAll(given') = BuildAll(given) \o BuildAll(event)
    BY <1>1, <1>2, BuildAllConcat
  <2>2. Passes(BuildAll(given')) = Passes(BuildAll(given)) \o Passes(BuildAll(event))
    BY <1>4, <2>1, PassesConcat
  <2>3. AllIntended = Passes(BuildAll(given))
    BY <1>2, IntendedPasses DEF AllIntended, Intends
  <2> QED BY <1>1, <1>7, <2>2, <2>3
<1>9. Passes(Queue)' = Passes(Sent) \o Passes(data')
  <2>1. Passes(Queue)' = Passes(Queue')
    BY <1>1 DEF Passes, Pieces, Forwards
  <2>2. Passes(Sent \o data') = Passes(Sent) \o Passes(data')
    BY <1>4, PassesConcat, Zenon
  <2> QED BY <1>6, <2>1, <2>2, Zenon
<1>10. AllIntended' = stored \o Passes(Queue)'
  <2>1. \A x, y, z \in Seq(Records) : (x \o y) \o z = x \o (y \o z)
    BY RecordsAssociative
  <2>2. Passes(Sent) \in Seq(Records) /\ Passes(data') \in Seq(Records) /\ stored \in Seq(Records)
    BY <1>4, PiecesTyped
  <2>3. (stored \o Passes(Sent)) \o Passes(data') = stored \o (Passes(Sent) \o Passes(data'))
    BY <2>1, <2>2, Zenon
  <2>4. AllIntended = stored \o Passes(Sent)
    BY <1>3, <1>6
  <2> QED BY <1>8, <1>9, <2>3, <2>4, Zenon
<1>11. ASSUME NEW s \in DOMAIN stores PROVE ReadOK(s, stored)'
  <2>1. Read(s)' = Read(s) /\ Ahead(s)' = Ahead(s)
    BY <1>1 DEF Read, Ahead
  <2> QED BY <1>1, <1>3, <2>1 DEF ReadOK
<1> QED BY <1>1, <1>10, <1>11 DEF OrderOK

\* Until the outputs are open there is nothing to record, and nothing has been read.
LEMMA SetupOrder ==
    ASSUME IInv, ControlOK, StagesOK, OrderOK,
           \/ \E raw \in RawFilters, outs \in OutputLists : Parse(raw, outs)
           \/ OpenDatabase \/ InitFails \/ Run
           \/ \E good \in BOOLEAN : OpenStream(good)
    PROVE  OrderOK'
<1>1. /\ pc \in {"parse", "open"}
      /\ UNCHANGED <<reader, data, filtered, given, buffer, writer, taken, batch, at>>
  BY DEF Parse, OpenDatabase, InitFails, Run, OpenStream, readerVars, writerVars
<1>2. given = <<>> /\ writer = "idle" /\ writer' = "idle"
  BY <1>1 DEF StagesOK, ControlOK
<1>3. PICK stored \in Seq(Records) :
         /\ AllIntended = stored \o Passes(Queue)
         /\ \A s \in DOMAIN stores : ReadOK(s, stored)
  BY DEF OrderOK
<1>4. AllIntended = <<>> /\ AllIntended' = <<>>
  <2>1. AllIntended = FlattenSeq(<<>>) /\ AllIntended' = FlattenSeq(<<>>)
    BY <1>1, <1>2 DEF AllIntended
  <2> QED BY <2>1, FlattenEmpty
<1>5. data = <<>>
  BY <1>1, <1>2 DEF StagesOK, ControlOK, IInv, ReaderOK
<1>6. Passes(Queue) \in Seq(Records)
  <2>1. Queue \in Seq(Entries)
    BY QueueTyped, ConcatProperties DEF Queue
  <2> QED BY <2>1, PiecesTyped
<1>7. stored = <<>> /\ Passes(Queue) = <<>>
  <2>1. Len(stored) + Len(Passes(Queue)) = 0 /\ Len(stored) \in Nat /\ Len(Passes(Queue)) \in Nat
    <3>1. Len(stored \o Passes(Queue)) = Len(stored) + Len(Passes(Queue))
      BY <1>6, ConcatProperties
    <3>2. Len(<<>>) = 0
      OBVIOUS
    <3> QED BY <1>3, <1>4, <1>6, <3>1, <3>2
  <2>2. Len(stored) = 0 /\ Len(Passes(Queue)) = 0
    BY <2>1
  <2> QED BY <1>6, <2>2, EmptySeq
<1>8. Queue = <<>>
  <2>1. filtered \in Seq(Passing) /\ Sent \in Seq(Passing) /\ data \in Seq(Passing)
    BY <1>5, QueueTyped
  <2>2. Queue \in Seq(Passing)
    BY <2>1, ConcatProperties DEF Queue
  <2>3. RecordsOf(Queue) = <<>>
    BY <1>7, <2>2, PassesAll
  <2>4. Passing \subseteq Entries
    BY DEF Passing
  <2>5. Queue \in Seq(Entries)
    BY <2>2, <2>4, SeqMonotonic
  <2>6. Len(Queue) = 0
    <3>1. Len(RecordsOf(Queue)) = Len(Queue)
      BY <2>5, PiecesTyped
    <3> QED BY <2>3, <3>1
  <2> QED BY <2>2, <2>6, EmptySeq
<1>9. Passes(Queue)' = <<>>
  <2>1. Queue' = <<>>
    BY <1>1, <1>8 DEF Queue, Sent
  <2>2. Passes(Queue)' = FlattenSeq(<<>>)
    BY <2>1 DEF Passes, Pieces
  <2> QED BY <2>2, FlattenEmpty
<1>10. /\ stores \in Seq([type : {"sqlite", "json"}, good : BOOLEAN]) /\ DOMAIN written = DOMAIN stores
  BY DEF IInv, WriterOK
<1>11. ASSUME NEW s \in DOMAIN stores' PROVE ReadOK(s, <<>>)'
  <2>1. Ahead(s)' = <<>> /\ Ahead(s) = <<>>
    BY <1>2 DEF Ahead
  <2>2. CASE UNCHANGED <<stores, written>>
    <3>1. Read(s)' = Read(s)
      BY <2>2 DEF Read
    <3>2. ReadOK(s, <<>>)
      BY <1>3, <1>7, <2>2
    <3> QED BY <2>1, <2>2, <3>1, <3>2 DEF ReadOK
  <2>3. CASE \E good \in BOOLEAN : AddStore(good) /\ (~good => GetStorageType(NextOutput) = "json")
    <3>1. PICK good \in BOOLEAN :
             AddStore(good) /\ (~good => GetStorageType(NextOutput) = "json")
      BY <2>3
    <3> DEFINE store == [type |-> GetStorageType(NextOutput), good |-> good]
    <3>2. stores' = Append(stores, store) /\ written' = Append(written, <<>>)
          /\ (~store.good => store.type = "json")
      BY <3>1 DEF AddStore
    <3> HIDE DEF store
    <3>3. /\ \A k \in 1..Len(stores) : stores'[k] = stores[k] /\ written'[k] = written[k]
          /\ stores'[Len(stores) + 1] = store /\ written'[Len(stores) + 1] = <<>>
          /\ DOMAIN stores' = 1..Len(stores) + 1 /\ DOMAIN stores = 1..Len(stores)
          /\ Len(stores) \in Nat
      <4>1. \E A, B : stores \in Seq(A) /\ written \in Seq(B)
        BY DEF IInv, WriterOK
      <4>2. Len(written) = Len(stores)
        BY <1>10 DEF IInv, WriterOK
      <4> QED BY <3>2, <4>1, <4>2
    <3>4. CASE s \in 1..Len(stores)
      <4>1. stores'[s] = stores[s] /\ written'[s] = written[s]
        BY <3>3, <3>4
      <4>2. Read(s)' = Read(s)
        BY <4>1 DEF Read
      <4>3. ReadOK(s, <<>>)
        BY <1>3, <1>7, <3>3, <3>4
      <4> QED BY <2>1, <4>1, <4>2, <4>3 DEF ReadOK
    <3>5. CASE s = Len(stores) + 1
      <4>1. stores'[s] = store /\ written'[s] = <<>>
        BY <3>3, <3>5
      <4>2. Read(s)' = <<>>
        <5>1. CASE store.type = "sqlite"
          BY <4>1, <5>1 DEF Read
        <5>2. CASE store.type # "sqlite"
          <6>1. Read(s)' = FlattenSeq(<<>>)
            BY <4>1, <5>2 DEF Read
          <6> QED BY <6>1, FlattenEmpty
        <5> QED BY <5>1, <5>2
      <4>3. <<>> \o <<>> = <<>>
        OBVIOUS
      <4> QED BY <2>1, <3>2, <4>1, <4>2, <4>3 DEF ReadOK
    <3> QED BY <3>3, <3>4, <3>5
  <2>4. CASE OpenDatabase
    BY <2>3, <2>4 DEF OpenDatabase
  <2>5. CASE \E good \in BOOLEAN : OpenStream(good)
    BY <2>3, <2>5 DEF OpenStream
  <2>6. CASE (\E raw \in RawFilters, outs \in OutputLists : Parse(raw, outs)) \/ InitFails \/ Run
    BY <2>2, <2>6 DEF Parse, InitFails, Run, writerVars
  <2> QED BY <2>4, <2>5, <2>6
<1>12. <<>> \in Seq(Records) /\ <<>> \o <<>> = <<>>
  OBVIOUS
<1> QED BY <1>4, <1>9, <1>11, <1>12 DEF OrderOK

\* What is taken of the buffer is merged from its front.
LEMMA MergeOrder ==
    ASSUME IInv, StagesOK, OrderOK, TakeBuffer \/ MergeWith \/ StartStoring
    PROVE  OrderOK'
<1>0. \A x, y, z \in Seq(Entries) : (x \o y) \o z = x \o (y \o z)
  BY EntriesAssociative
<1>1. UNCHANGED <<allowed, given, stores, written, filtered, data>>
  BY DEF TakeBuffer, MergeWith, StartStoring, mainVars, readerVars
<1>2. \A s \in DOMAIN stores : Ahead(s)' = Ahead(s)
  <2>1. \A s \in DOMAIN stores : s \in Nat /\ ~(s < 1)
    BY DEF IInv, WriterOK
  <2>2. writer # "store" /\ (writer' = "store" => at' = 1)
    BY DEF TakeBuffer, MergeWith, StartStoring
  <2> QED BY <2>1, <2>2 DEF Ahead
<1>3. <<>> \in Seq(Entries) /\ \A x \in Seq(Entries) : x \o <<>> = x /\ <<>> \o x = x
  BY ConcatEmptySeq
<1>4. /\ batch \in Seq(Entries) /\ FlattenSeq(taken) \in Seq(Entries)
      /\ FlattenSeq(buffer) \in Seq(Entries) /\ taken \in Seq(Seq(Entries))
  BY QueueTyped
<1>5. Sent' = Sent
  <2>1. CASE TakeBuffer
    <3>1. batch = <<>> /\ taken = <<>> /\ batch' = <<>> /\ taken' = buffer /\ buffer' = <<>>
      BY <2>1 DEF TakeBuffer, StagesOK
    <3>2. Sent = <<>> \o (<<>> \o FlattenSeq(buffer)) /\ Sent' = <<>> \o (FlattenSeq(buffer) \o <<>>)
      BY <3>1, FlattenEmpty DEF Sent
    <3> QED BY <1>3, <1>4, <3>2, Zenon
  <2>2. CASE MergeWith
    <3> DEFINE head == Head(taken)
               rest == Tail(taken)
    <3>1. taken # <<>> /\ batch' = batch \o head /\ taken' = rest /\ buffer' = buffer
      BY <2>2 DEF MergeWith
    <3>2. head \in Seq(Entries) /\ rest \in Seq(Seq(Entries)) /\ taken = <<head>> \o rest
          /\ <<head>> \in Seq(Seq(Entries))
      BY <1>4, <3>1, HeadTailProperties, ConcatProperties
    <3> HIDE DEF head, rest
    <3>3. FlattenSeq(taken) = head \o FlattenSeq(rest) /\ FlattenSeq(rest) \in Seq(Entries)
      <4>1. FlattenSeq(<<head>> \o rest) = FlattenSeq(<<head>>) \o FlattenSeq(rest)
        BY <3>2, FlattenConcat
      <4>2. FlattenSeq(<<head>>) = head
        BY <3>2, FlattenOne
      <4>3. FlattenSeq(rest) \in Seq(Entries)
        BY <3>2, FlattenTyped
      <4> QED BY <3>2, <4>1, <4>2, <4>3
    <3> DEFINE t == FlattenSeq(rest)
               b == FlattenSeq(buffer)
    <3>4. Sent = batch \o ((head \o t) \o b) /\ Sent' = (batch \o head) \o (t \o b)
      BY <3>1, <3>3 DEF Sent
    <3>5. /\ batch \in Seq(Entries) /\ head \in Seq(Entries) /\ t \in Seq(Entries)
          /\ b \in Seq(Entries)
      BY <1>4, <3>2, <3>3
    <3> HIDE DEF t, b
    <3>6. (head \o t) \o b = head \o (t \o b)
      BY <1>0, <3>5, Zenon
    <3>7. t \o b \in Seq(Entries)
      BY <3>5, ConcatProperties
    <3>8. (batch \o head) \o (t \o b) = batch \o (head \o (t \o b))
      <4> DEFINE u == t \o b
      <4>1. u \in Seq(Entries)
        BY <3>7
      <4> HIDE DEF u
      <4>2. (batch \o head) \o u = batch \o (head \o u)
        BY <1>0, <3>5, <4>1, SMTT(30)
      <4> QED BY <4>2 DEF u
    <3> QED BY <3>4, <3>6, <3>8, Zenon
  <2>3. CASE StartStoring
    BY <2>3 DEF StartStoring, Sent
  <2> QED BY <2>1, <2>2, <2>3
<1>6. Passes(Queue') = Passes(Queue)
  BY <1>1, <1>5 DEF Queue
<1> QED BY <1>1, <1>2, <1>6, OrderStays

\* What passes of the queue begins with the batch.
LEMMA BatchPasses ==
    ASSUME IInv, StagesOK, writer = "store" \/ writer = "idle"
    PROVE  /\ Passes(Queue) = RecordsOf(batch) \o Passes(FlattenSeq(buffer) \o (filtered \o data))
           /\ FlattenSeq(buffer) \o (filtered \o data) \in Seq(Entries)
           /\ RecordsOf(batch) \in Seq(Records)
           /\ Passes(FlattenSeq(buffer) \o (filtered \o data)) \in Seq(Records)
<1>0. \A x, y, z \in Seq(Entries) : (x \o y) \o z = x \o (y \o z)
  BY EntriesAssociative
<1>1. /\ batch \in Seq(Entries) /\ batch \in Seq(Passing) /\ FlattenSeq(buffer) \in Seq(Entries)
      /\ filtered \in Seq(Entries) /\ data \in Seq(Entries)
  BY QueueTyped
<1>2. Sent = batch \o FlattenSeq(buffer)
  <2>1. taken = <<>>
    BY DEF StagesOK
  <2>2. <<>> \o FlattenSeq(buffer) = FlattenSeq(buffer)
    BY <1>1, ConcatEmptySeq
  <2> QED BY <2>1, <2>2, FlattenEmpty DEF Sent
<1> DEFINE b == FlattenSeq(buffer)
           e == filtered \o data
<1>3. b \in Seq(Entries) /\ e \in Seq(Entries) /\ batch \in Seq(Entries)
  BY <1>1, ConcatProperties
<1>4. Queue = (batch \o b) \o e
  BY <1>2 DEF Queue
<1> HIDE DEF b, e
<1>5. (batch \o b) \o e = batch \o (b \o e) /\ b \o e \in Seq(Entries)
  <2>1. (batch \o b) \o e = batch \o (b \o e)
    BY <1>0, <1>3, Zenon
  <2> QED BY <2>1, <1>3, ConcatProperties
<1>6. Passes(Queue) = Passes(batch) \o Passes(b \o e)
  BY <1>3, <1>4, <1>5, PassesConcat
<1>7. Passes(batch) = RecordsOf(batch)
  BY <1>1, PassesAll
<1>8. RecordsOf(batch) \in Seq(Records) /\ Passes(b \o e) \in Seq(Records)
  BY <1>3, <1>5, PiecesTyped
<1> QED BY <1>5, <1>6, <1>7, <1>8 DEF b, e

\* When the last store has the batch, every good output has it.
LEMMA FinishOrder ==
    ASSUME IInv, StagesOK, OrderOK, FinishStoring
    PROVE  OrderOK'
<1>1. /\ writer = "store" /\ writer' = "idle" /\ at > Len(stores) /\ batch' = <<>>
      /\ UNCHANGED <<allowed, given, stores, written, buffer, taken, filtered, data>>
  BY DEF FinishStoring, mainVars, readerVars
<1>2. PICK stored \in Seq(Records) :
         /\ AllIntended = stored \o Passes(Queue)
         /\ \A s \in DOMAIN stores : ReadOK(s, stored)
  BY DEF OrderOK
<1> DEFINE rest == FlattenSeq(buffer) \o (filtered \o data)
<1>8. PICK now \in Seq(Records) : now = RecordsOf(batch)
  BY <1>1, BatchPasses
<1>3. /\ Passes(Queue) = now \o Passes(rest) /\ rest \in Seq(Entries)
      /\ now \in Seq(Records) /\ Passes(rest) \in Seq(Records)
  BY <1>1, <1>8, BatchPasses
<1>4. Queue' = rest
  <2>1. taken = <<>>
    BY <1>1 DEF StagesOK
  <2>2. FlattenSeq(buffer) \in Seq(Entries)
    BY QueueTyped
  <2>3. <<>> \o (<<>> \o FlattenSeq(buffer)) = FlattenSeq(buffer)
    BY <2>2, ConcatEmptySeq
  <2> QED BY <1>1, <2>1, <2>3, FlattenEmpty DEF Queue, Sent
<1>5. Passes(Queue)' = Passes(rest) /\ AllIntended' = AllIntended
  <2>1. Passes(Queue)' = Passes(Queue')
    BY <1>1 DEF Passes, Pieces, Forwards
  <2>2. AllIntended' = AllIntended
    BY <1>1 DEF AllIntended, IsIntended
  <2> QED BY <1>4, <2>1, <2>2
<1> HIDE DEF rest
<1>6. stored \o now \in Seq(Records) /\ AllIntended' = (stored \o now) \o Passes(Queue)'
  <2>1. \A x, y, z \in Seq(Records) : (x \o y) \o z = x \o (y \o z)
    BY RecordsAssociative
  <2> DEFINE p == Passes(rest)
  <2>2. stored \in Seq(Records) /\ now \in Seq(Records) /\ p \in Seq(Records)
    BY <1>3
  <2>3. AllIntended' = stored \o (now \o p) /\ Passes(Queue)' = p
    BY <1>2, <1>3, <1>5
  <2> HIDE DEF p
  <2>4. (stored \o now) \o p = stored \o (now \o p)
    BY <2>1, <2>2, Zenon
  <2>5. stored \o now \in Seq(Records)
    BY <2>2, ConcatProperties
  <2> QED BY <2>3, <2>4, <2>5, Zenon
<1>7. ASSUME NEW s \in DOMAIN stores PROVE ReadOK(s, stored \o now)'
  <2>1. Read(s)' = Read(s)
    BY <1>1 DEF Read
  <2>2. s < at
    BY <1>1 DEF IInv, WriterOK
  <2>3. Ahead(s) = now /\ Ahead(s)' = <<>>
    BY <1>1, <1>8, <2>2 DEF Ahead
  <2>4. (stored \o now) \o <<>> = stored \o now
    BY <1>6, ConcatEmptySeq
  <2> QED BY <1>1, <1>2, <2>1, <2>3, <2>4 DEF ReadOK
<1> QED BY <1>1, <1>6, <1>7 DEF OrderOK

\* What the documents of a JSON output say, document by document.
ReadDocuments(docs) ==
    [k \in DOMAIN docs |-> [j \in DOMAIN docs[k] |-> ReadJson(docs[k][j])]]

\* The batch is added to what the output says, whichever form it takes there.
LEMMA RowsRead ==
    ASSUME given \in Seq(Builders), NEW w \in Seq(Rows), NEW list \in Seq(Kept)
    PROVE  LET read(rows) == [k \in DOMAIN rows |-> ReadRow(rows[k])]
           IN  read(w \o [k \in DOMAIN list |-> InsertEvents(list[k])]) = read(w) \o RecordsOf(list)
<1> DEFINE read(rows) == [k \in DOMAIN rows |-> ReadRow(rows[k])]
           new == [k \in DOMAIN list |-> InsertEvents(list[k])]
           both == read(w) \o RecordsOf(list)
<1>1. /\ DOMAIN list = 1..Len(list) /\ Len(list) \in Nat /\ DOMAIN w = 1..Len(w) /\ Len(w) \in Nat
      /\ \A k \in 1..Len(list) : list[k] \in Kept
      /\ \A k \in 1..Len(w) : w[k] \in Rows
  OBVIOUS
<1>2. new \in Seq(Rows) /\ Len(new) = Len(list)
      /\ \A k \in 1..Len(list) : new[k] = InsertEvents(list[k])
  BY <1>1 DEF Rows
<1> HIDE DEF new
<1>3. /\ w \o new \in Seq(Rows) /\ DOMAIN (w \o new) = 1..Len(w) + Len(list)
      /\ \A k \in 1..Len(w) + Len(list) :
            (w \o new)[k] = IF k <= Len(w) THEN w[k] ELSE new[k - Len(w)]
  <2>1. w \o new \in Seq(Rows) /\ Len(w \o new) = Len(w) + Len(new)
    BY <1>2, RowsConcat, Zenon
  <2>2. \A k \in 1..Len(w) + Len(new) :
           (w \o new)[k] = IF k <= Len(w) THEN w[k] ELSE new[k - Len(w)]
    BY <1>2, RowsAt, Zenon
  <2>3. DOMAIN (w \o new) = 1..Len(w \o new)
    BY <2>1
  <2> QED BY <1>2, <2>1, <2>2, <2>3, Zenon
<1>4. \A row \in Rows : ReadRow(row) \in Records
  BY KeptReads DEF Rows, Record
<1>5. read(w) \in Seq(Records) /\ Len(read(w)) = Len(w)
      /\ \A k \in 1..Len(w) : read(w)[k] = ReadRow(w[k])
  BY <1>1, <1>4
<1>6. RecordsOf(list) \in Seq(Records) /\ Len(RecordsOf(list)) = Len(list)
      /\ \A k \in 1..Len(list) : RecordsOf(list)[k] = Record(list[k])
  BY <1>1, KeptReads DEF RecordsOf
<1>7. /\ both \in Seq(Records) /\ Len(both) = Len(w) + Len(list)
      /\ \A k \in 1..Len(w) + Len(list) :
            both[k] = IF k <= Len(w) THEN read(w)[k] ELSE RecordsOf(list)[k - Len(w)]
  <2> HIDE DEF read
  <2>1. read(w) \in Seq(Records)
    BY <1>1, <1>5, <1>6
  <2>2. RecordsOf(list) \in Seq(Records)
    BY <1>1, <1>5, <1>6
  <2>3. Len(read(w)) = Len(w)
    BY <1>1, <1>5, <1>6
  <2>4. Len(RecordsOf(list)) = Len(list)
    BY <1>1, <1>5, <1>6
  <2>5. both \in Seq(Records) /\ Len(both) = Len(read(w)) + Len(RecordsOf(list))
    BY <2>1, <2>2, RecordsConcat, Zenon
  <2>6. \A k \in 1..Len(read(w)) + Len(RecordsOf(list)) :
           both[k] = IF k <= Len(read(w)) THEN read(w)[k] ELSE RecordsOf(list)[k - Len(read(w))]
    BY <2>1, <2>2, RecordsAt, Zenon
  <2> HIDE DEF both
  <2> QED BY <2>3, <2>4, <2>5, <2>6, Zenon
<1>8. /\ read(w \o new) \in Seq(Records) /\ Len(read(w \o new)) = Len(w) + Len(list)
      /\ \A k \in 1..Len(w) + Len(list) : read(w \o new)[k] = ReadRow((w \o new)[k])
  <2> DEFINE c == w \o new
  <2>1. c \in Seq(Rows) /\ DOMAIN c = 1..Len(w) + Len(list) /\ Len(w) + Len(list) \in Nat
    BY <1>1, <1>3
  <2> HIDE DEF c
  <2>2. \A k \in 1..Len(w) + Len(list) : ReadRow(c[k]) \in Records
    BY <2>1, <1>4
  <2>3. /\ read(c) \in Seq(Records) /\ Len(read(c)) = Len(w) + Len(list)
        /\ \A k \in 1..Len(w) + Len(list) : read(c)[k] = ReadRow(c[k])
    BY <2>1, <2>2
  <2> QED BY <2>3 DEF c
<1> HIDE DEF both, read
<1>9. ASSUME NEW k \in 1..Len(w) + Len(list) PROVE read(w \o new)[k] = both[k]
  <2>1. (k <= Len(w) => k \in 1..Len(w)) /\ (~(k <= Len(w)) => k - Len(w) \in 1..Len(list))
    BY <1>1
  <2>2. CASE k <= Len(w)
    BY <2>1, <2>2, <1>3, <1>5, <1>7, <1>8
  <2>3. CASE ~(k <= Len(w))
    BY <2>1, <2>3, <1>2, <1>3, <1>6, <1>7, <1>8 DEF Record
  <2> QED BY <2>2, <2>3
<1>10. read(w \o new) = both
  <2>1. Len(w) + Len(list) \in Nat
    BY <1>1
  <2> QED BY <2>1, <1>7, <1>8, <1>9, SameSequence
<1> QED BY <1>10 DEF read, both, new

\* So it is to a JSON output, as a document.
LEMMA DocumentsRead ==
    ASSUME given \in Seq(Builders), NEW w \in Seq(Documents), NEW list \in Seq(Kept)
    PROVE  LET document == [k \in DOMAIN list |-> JsonEntry(list[k])]
           IN  FlattenSeq(ReadDocuments(Append(w, document)))
                  = FlattenSeq(ReadDocuments(w)) \o RecordsOf(list)
<1> DEFINE document == [k \in DOMAIN list |-> JsonEntry(list[k])]
<1>1. /\ DOMAIN list = 1..Len(list) /\ Len(list) \in Nat /\ DOMAIN w = 1..Len(w) /\ Len(w) \in Nat
      /\ \A k \in 1..Len(list) : list[k] \in Kept
  OBVIOUS
<1>2. RecordsOf(list) \in Seq(Records)
  BY <1>1, KeptReads DEF RecordsOf
<1>3. document \in Documents /\ DOMAIN document = 1..Len(list)
      /\ \A j \in 1..Len(list) : document[j] = JsonEntry(list[j])
  BY <1>1 DEF Documents
<1>4. [j \in DOMAIN document |-> ReadJson(document[j])] = RecordsOf(list)
  <2>1. \A j \in 1..Len(list) : ReadJson(document[j]) = Record(list[j])
    BY <1>1, <1>3, KeptReads
  <2> HIDE DEF document
  <2> QED BY <1>1, <1>3, <2>1 DEF RecordsOf
<1> HIDE DEF document
<1>5. /\ DOMAIN Append(w, document) = 1..Len(w) + 1
      /\ Append(w, document)[Len(w) + 1] = document
      /\ \A k \in 1..Len(w) : Append(w, document)[k] = w[k]
  BY <1>1, <1>3, AppendProperties
<1>6. ReadDocuments(w) \in Seq(Seq(Records)) /\ Len(ReadDocuments(w)) = Len(w)
      /\ \A k \in 1..Len(w) : ReadDocuments(w)[k] = [j \in DOMAIN w[k] |-> ReadJson(w[k][j])]
  <2>1. ASSUME NEW k \in 1..Len(w) PROVE [j \in DOMAIN w[k] |-> ReadJson(w[k][j])] \in Seq(Records)
    <3> DEFINE d == w[k]
    <3>1. d \in Seq({JsonEntry(entry) : entry \in Kept})
      BY DEF Documents
    <3> HIDE DEF d
    <3>2. DOMAIN d = 1..Len(d) /\ Len(d) \in Nat
          /\ \A j \in 1..Len(d) : d[j] \in {JsonEntry(entry) : entry \in Kept}
      BY <3>1
    <3>3. \A j \in 1..Len(d) : ReadJson(d[j]) \in Records
      BY <3>2, KeptReads
    <3>4. [j \in DOMAIN d |-> ReadJson(d[j])] \in Seq(Records)
      BY <3>2, <3>3
    <3> QED BY <3>4 DEF d
  <2> QED BY <1>1, <2>1 DEF ReadDocuments
<1>7. ReadDocuments(Append(w, document)) = Append(ReadDocuments(w), RecordsOf(list))
  <2> DEFINE all == Append(ReadDocuments(w), RecordsOf(list))
             docs == Append(w, document)
  <2>1. /\ DOMAIN all = 1..Len(w) + 1 /\ all[Len(w) + 1] = RecordsOf(list)
        /\ \A k \in 1..Len(w) : all[k] = ReadDocuments(w)[k]
        /\ all \in Seq(Seq(Records))
    BY <1>1, <1>2, <1>6, AppendProperties
  <2>2. /\ DOMAIN docs = 1..Len(w) + 1 /\ docs[Len(w) + 1] = document
        /\ \A k \in 1..Len(w) : docs[k] = w[k]
    BY <1>5
  <2> HIDE DEF all, docs
  <2>3. /\ DOMAIN ReadDocuments(docs) = 1..Len(w) + 1
        /\ \A k \in 1..Len(w) + 1 :
              ReadDocuments(docs)[k] = [j \in DOMAIN docs[k] |-> ReadJson(docs[k][j])]
        /\ ReadDocuments(docs) = [k \in 1..Len(w) + 1 |-> ReadDocuments(docs)[k]]
    BY <2>2 DEF ReadDocuments
  <2>4. ASSUME NEW k \in 1..Len(w) + 1 PROVE ReadDocuments(docs)[k] = all[k]
    <3>1. CASE k = Len(w) + 1
      <4>1. docs[k] = document /\ all[k] = RecordsOf(list)
        BY <2>1, <2>2, <3>1
      <4> QED BY <1>4, <2>3, <4>1
    <3>2. CASE k \in 1..Len(w)
      <4>1. docs[k] = w[k] /\ all[k] = ReadDocuments(w)[k]
        BY <2>1, <2>2, <3>2
      <4> QED BY <1>6, <2>3, <3>2, <4>1
    <3> QED BY <1>1, <3>1, <3>2
  <2>5. all \in Seq(Seq(Records)) /\ Len(all) = Len(w) + 1 /\ Len(w) + 1 \in Nat
    BY <1>1, <2>1
  <2>6. \A k \in 1..Len(w) + 1 : all[k] \in Seq(Records)
    BY <2>1, <2>5
  <2>7. ReadDocuments(docs) = [k \in 1..Len(w) + 1 |-> all[k]]
    BY <2>3, <2>4, SMTT(30)
  <2>8. [k \in 1..Len(w) + 1 |-> all[k]] \in Seq(Seq(Records))
        /\ Len([k \in 1..Len(w) + 1 |-> all[k]]) = Len(w) + 1
    BY <2>5, <2>6
  <2>9. ReadDocuments(docs) = all
    BY <2>4, <2>5, <2>7, <2>8, SameSequence
  <2> QED BY <2>9 DEF docs, all
<1>8. FlattenSeq(Append(ReadDocuments(w), RecordsOf(list)))
         = FlattenSeq(ReadDocuments(w)) \o RecordsOf(list)
  BY <1>2, <1>6, FlattenAppend
<1> QED BY <1>7, <1>8 DEF document

\* A store that gets the batch is one further ahead; the others have what they had.
LEMMA StoreOrder ==
    ASSUME IInv, StagesOK, OrderOK, StoreInDatabase \/ StoreAsJson
    PROVE  OrderOK'
<1>1. /\ writer = "store" /\ writer' = "store" /\ at \in DOMAIN stores /\ at' = at + 1
      /\ UNCHANGED <<allowed, given, stores, buffer, taken, batch, filtered, data>>
      /\ DOMAIN written = DOMAIN stores /\ DOMAIN stores = 1..Len(stores) /\ Len(stores) \in Nat
  BY DEF StoreInDatabase, StoreAsJson, mainVars, readerVars, IInv, WriterOK
<1>2. PICK stored \in Seq(Records) :
         /\ AllIntended = stored \o Passes(Queue)
         /\ \A s \in DOMAIN stores : ReadOK(s, stored)
  BY DEF OrderOK
<1>3. AllIntended' = AllIntended /\ Passes(Queue)' = Passes(Queue)
  BY <1>1 DEF AllIntended, IsIntended, Passes, Pieces, Forwards, Queue, Sent
<1>4. given \in Seq(Builders) /\ batch \in Seq(Kept) /\ RecordsOf(batch) \in Seq(Records)
  <2>1. given \in Seq(Builders) /\ batch \in Seq(Kept)
    BY DEF IInv, ReaderOK, QueueOK
  <2> QED BY <1>1, <2>1, BatchPasses
<1>5. ASSUME NEW s \in DOMAIN stores, s # at PROVE ReadOK(s, stored)'
  <2>1. written'[s] = written[s]
    BY <1>1, <1>5 DEF StoreInDatabase, StoreAsJson
  <2>2. Read(s)' = Read(s)
    BY <1>1, <2>1 DEF Read
  <2>3. s < at + 1 <=> s < at
    BY <1>1, <1>5
  <2>4. Ahead(s)' = Ahead(s)
    <3>1. RecordsOf(batch)' = RecordsOf(batch)
      BY <1>1 DEF RecordsOf
    <3> QED BY <1>1, <2>3, <3>1 DEF Ahead
  <2> QED BY <1>1, <1>2, <2>1, <2>2, <2>4 DEF ReadOK
<1>6. ASSUME NEW s \in DOMAIN stores, s = at PROVE ReadOK(s, stored)'
  <2>1. Ahead(s) = <<>> /\ Ahead(s)' = RecordsOf(batch)
    <3>1. ~(s < at) /\ s < at'
      BY <1>1, <1>6
    <3>2. RecordsOf(batch)' = RecordsOf(batch)
      BY <1>1 DEF RecordsOf
    <3> QED BY <1>1, <3>1, <3>2 DEF Ahead
  <2>2. written[s] \in Contents(s)
    BY DEF IInv, WriterOK
  <2>3. CASE StoreInDatabase
    <3>1. /\ stores[s].type = "sqlite" /\ stores'[s] = stores[s]
          /\ written'[s] = written[s] \o [k \in DOMAIN batch |-> InsertEvents(batch[k])]
      BY <1>1, <1>6, <2>3 DEF StoreInDatabase
    <3>2. written[s] \in Seq(Rows)
      BY <2>2, <3>1 DEF Contents
    <3>3. Read(s)' = Read(s) \o RecordsOf(batch)
      BY <1>4, <3>1, <3>2, RowsRead DEF Read
    <3>4. stores[s].good /\ Read(s) = stored \o <<>>
      BY <1>2, <2>1, <3>1 DEF ReadOK
    <3>5. stored \o <<>> = stored
      BY ConcatEmptySeq
    <3> QED BY <2>1, <3>1, <3>3, <3>4, <3>5 DEF ReadOK
  <2>4. CASE StoreAsJson
    <3>1. /\ stores[s].type = "json" /\ stores'[s] = stores[s]
          /\ written'[s] = IF batch = <<>> \/ ~stores[s].good THEN written[s]
                           ELSE Append(written[s], [k \in DOMAIN batch |-> JsonEntry(batch[k])])
      BY <1>1, <1>6, <2>4 DEF StoreAsJson
    <3>2. written[s] \in Seq(Documents)
      BY <2>2, <3>1 DEF Contents
    <3>3. CASE ~stores[s].good
      BY <1>2, <3>1, <3>3 DEF ReadOK
    <3>4. CASE stores[s].good
      <4>1. Read(s) = FlattenSeq(ReadDocuments(written[s]))
            /\ Read(s)' = FlattenSeq(ReadDocuments(written'[s]))
        BY <3>1 DEF Read, ReadDocuments
      <4>2. stored \o <<>> = stored /\ Read(s) = stored \o <<>>
        BY <1>2, <2>1, <3>4, ConcatEmptySeq DEF ReadOK
      <4>3. Read(s)' = Read(s) \o RecordsOf(batch)
        <5>1. CASE batch = <<>>
          <6>1. RecordsOf(batch) = <<>> /\ written'[s] = written[s]
            BY <3>1, <5>1 DEF RecordsOf
          <6> QED BY <4>1, <4>2, <6>1
        <5>2. CASE batch # <<>>
          BY <1>4, <3>1, <3>2, <3>4, <4>1, <5>2, DocumentsRead
        <5> QED BY <5>1, <5>2
      <4> QED BY <2>1, <3>1, <3>4, <4>2, <4>3 DEF ReadOK
    <3> QED BY <3>3, <3>4
  <2> QED BY <2>3, <2>4
<1> QED BY <1>1, <1>2, <1>3, <1>5, <1>6 DEF OrderOK

\* At the start there is nothing to record.
LEMMA OrderInit == Init => OrderOK
<1> SUFFICES ASSUME Init PROVE OrderOK
  OBVIOUS
<1>1. given = <<>> /\ Queue = <<>> /\ DOMAIN stores = {}
  <2>1. <<>> \o (<<>> \o <<>>) = <<>> /\ <<>> \o <<>> = <<>>
    OBVIOUS
  <2> QED BY <2>1, FlattenEmpty DEF Init, Queue, Sent
<1>2. AllIntended = <<>>
  BY <1>1, FlattenEmpty DEF AllIntended
<1>3. Passes(Queue) = <<>>
  BY <1>1, PassesEmpty
<1>4. <<>> \in Seq(Records) /\ <<>> \o <<>> = <<>>
  OBVIOUS
<1> QED BY <1>1, <1>2, <1>3, <1>4 DEF OrderOK

\* Every step keeps the order.
LEMMA OrderHolds == IInv /\ ControlOK /\ StagesOK /\ OrderOK /\ [Next]_vars => OrderOK'
<1> SUFFICES ASSUME IInv, ControlOK, StagesOK, OrderOK, [Next]_vars PROVE OrderOK'
  OBVIOUS
<1>1. CASE UNCHANGED vars
  <2>1. /\ UNCHANGED <<allowed, given, stores, written>>
        /\ \A s \in DOMAIN stores : Ahead(s)' = Ahead(s)
        /\ Queue' = Queue
    BY <1>1 DEF vars, mainVars, readerVars, writerVars, Ahead, RecordsOf, Queue, Sent
  <2> QED BY <2>1, OrderStays
<1> QED BY <1>1, SetupOrder, EventOrder, ReaderOrder, MergeOrder, StoreOrder, FinishOrder DEF Next

\* A sequence begins with what it is put together from.
LEMMA PrefixOfConcat ==
    ASSUME NEW S, NEW s \in Seq(S), NEW t \in Seq(S)
    PROVE  IsPrefix(s, s \o t)
<1>1. /\ s \o t \in Seq(S) /\ Len(s) \in Nat /\ Len(t) \in Nat /\ Len(s \o t) = Len(s) + Len(t)
      /\ \A k \in 1..Len(s) : (s \o t)[k] = s[k]
  BY ConcatProperties
<1> DEFINE u == s \o t
           n == Len(s)
<1>2. u \in Seq(S) /\ n \in Nat /\ n <= Len(u) /\ \A k \in 1..n : u[k] = s[k]
  BY <1>1
<1> HIDE DEF u
<1>3. SubSeq(s, 1, n) = SubSeq(u, 1, n)
  <2>1. /\ SubSeq(s, 1, n) \in Seq(S) /\ Len(SubSeq(s, 1, n)) = n
        /\ \A k \in 1..n : SubSeq(s, 1, n)[k] = s[k]
    BY <1>2
  <2>2. /\ SubSeq(u, 1, n) \in Seq(S) /\ Len(SubSeq(u, 1, n)) = n
        /\ \A k \in 1..n : SubSeq(u, 1, n)[k] = u[k]
    BY <1>2
  <2> HIDE DEF n
  <2> QED BY <1>2, <2>1, <2>2, SameSequence
<1> QED BY <1>2, <1>3 DEF IsPrefix, u

\* What every output has is the beginning of what should be recorded; a good one lacks
\* what is in the buffer, when nothing else is under way.
LEMMA OrderedIsRecorded ==
    IInv /\ ControlOK /\ StagesOK /\ OrderOK => RecordedAsBuilt
<1> SUFFICES ASSUME IInv, ControlOK, StagesOK, OrderOK, NEW s \in DOMAIN stores
             PROVE  /\ IsPrefix(Read(s), AllIntended)
                    /\ stores[s].good /\ reader = "next" /\ writer = "idle" =>
                          Len(Read(s)) + Len(FlattenSeq(buffer)) = Len(AllIntended)
  BY DEF RecordedAsBuilt
<1>1. PICK stored \in Seq(Records) : AllIntended = stored \o Passes(Queue) /\ ReadOK(s, stored)
  BY DEF OrderOK
<1>2. Passes(Queue) \in Seq(Records)
  <2>1. Queue \in Seq(Entries)
    BY QueueTyped, ConcatProperties DEF Queue
  <2> QED BY <2>1, PiecesTyped
<1>3. AllIntended \in Seq(Records)
  BY <1>1, <1>2, ConcatProperties
<1>4. CASE ~stores[s].good
  <2>1. Read(s) = <<>>
    <3>1. stores[s].type = "json" /\ written[s] = <<>>
      BY <1>1, <1>4 DEF ReadOK
    <3>2. Read(s) = FlattenSeq(<<>>)
      BY <3>1 DEF Read
    <3> QED BY <3>2, FlattenEmpty
  <2>2. <<>> \o AllIntended = AllIntended /\ <<>> \in Seq(Records)
    BY <1>3, ConcatEmptySeq
  <2>3. IsPrefix(<<>>, <<>> \o AllIntended)
    BY <1>3, <2>2, PrefixOfConcat
  <2> QED BY <1>4, <2>1, <2>2, <2>3
<1>5. CASE stores[s].good
  <2>1. Read(s) = stored \o Ahead(s)
    BY <1>1, <1>5 DEF ReadOK
  <2>2. CASE Ahead(s) = <<>>
    <3>1. Read(s) = stored
      BY <2>1, <2>2, ConcatEmptySeq
    <3>2. IsPrefix(Read(s), AllIntended)
      BY <1>1, <1>2, <3>1, PrefixOfConcat
    <3>3. ASSUME reader = "next", writer = "idle"
          PROVE  Len(Read(s)) + Len(FlattenSeq(buffer)) = Len(AllIntended)
      <4>1. data = <<>> /\ filtered = <<>> /\ batch = <<>> /\ taken = <<>>
        BY <3>3 DEF StagesOK
      <4>2. FlattenSeq(buffer) \in Seq(Passing) /\ FlattenSeq(buffer) \in Seq(Entries)
        BY QueueTyped
      <4>3. Queue = FlattenSeq(buffer)
        <5>1. Queue = (<<>> \o (<<>> \o FlattenSeq(buffer))) \o (<<>> \o <<>>)
          BY <4>1, FlattenEmpty DEF Queue, Sent
        <5>2. (<<>> \o (<<>> \o FlattenSeq(buffer))) \o (<<>> \o <<>>) = FlattenSeq(buffer)
          <6>1. <<>> \in Seq(Entries) /\ \A x \in Seq(Entries) : x \o <<>> = x /\ <<>> \o x = x
            BY ConcatEmptySeq
          <6> QED BY <4>2, <6>1, Zenon
        <5> QED BY <5>1, <5>2
      <4>4. Passes(Queue) = RecordsOf(FlattenSeq(buffer))
        BY <4>2, <4>3, PassesAll
      <4>5. Len(Passes(Queue)) = Len(FlattenSeq(buffer))
        BY <4>2, <4>4, PiecesTyped
      <4>6. Len(AllIntended) = Len(stored) + Len(Passes(Queue))
        BY <1>1, <1>2, ConcatProperties
      <4> QED BY <3>1, <4>5, <4>6
    <3> QED BY <3>2, <3>3
  <2>3. CASE Ahead(s) # <<>>
    <3>1. writer = "store" /\ Ahead(s) = RecordsOf(batch)
      BY <2>3 DEF Ahead
    <3> DEFINE now == RecordsOf(batch)
               rest == Passes(FlattenSeq(buffer) \o (filtered \o data))
    <3>2. /\ Passes(Queue) = now \o rest /\ now \in Seq(Records) /\ rest \in Seq(Records)
          /\ Read(s) = stored \o now
      BY <2>1, <3>1, BatchPasses
    <3> HIDE DEF now, rest
    <3>3. (stored \o now) \o rest = stored \o (now \o rest)
      <4>1. \A x, y, z \in Seq(Records) : (x \o y) \o z = x \o (y \o z)
        BY RecordsAssociative
      <4> QED BY <3>2, <4>1, Zenon
    <3>4. stored \o now \in Seq(Records)
      BY <3>2, ConcatProperties
    <3>5. IsPrefix(stored \o now, (stored \o now) \o rest)
      BY <3>2, <3>4, PrefixOfConcat
    <3> QED BY <1>1, <3>1, <3>2, <3>3, <3>5
  <2> QED BY <2>2, <2>3
<1> QED BY <1>4, <1>5

\* For all outputs, filters and events: each output says, in order, what the builders
\* were given less the devices the filter does not list, and nothing else; once nothing is
\* under way, a good one lacks only what is still in the buffer.
THEOREM RecordedAsBuiltAlways == Spec => []RecordedAsBuilt
<1>1. Init => IInv /\ ControlOK /\ StagesOK /\ OrderOK
  BY InitHolds, InitControl, StagesInit, OrderInit
<1>2. IInv /\ ControlOK /\ StagesOK /\ OrderOK /\ [Next]_vars
         => (IInv /\ ControlOK /\ StagesOK /\ OrderOK)'
  BY StepHolds, ControlHolds, StagesHold, OrderHolds
<1> QED BY <1>1, <1>2, OrderedIsRecorded, PTL DEF Spec
=============================================================================
