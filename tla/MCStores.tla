------------------------------ MODULE MCStores ------------------------------
EXTENDS Stores

MCOutputs == {"a.sqlite", "b.json", "-"}
MCExtension == [output \in MCOutputs |->
    CASE output = "a.sqlite" -> "sqlite" [] output = "b.json" -> "json" [] OTHER -> ""]
MCOutputLists == {<<>>, <<"a.sqlite", "-">>, <<"b.json", "a.sqlite">>}
MCRawFilters == {{}, {"keyboard", "all"}, {"keyboard", "touchscreen"}, {"mouse"}}

\* Each member has its own name as its text, so that a value that strays shows.
Builder(type, members, device, modifiers) ==
    [type |-> type,
     set |-> [member \in members |->
        CASE member = "device" -> device [] member = "action" -> "kRelease" [] OTHER -> member],
     modifiers |-> modifiers]

Move   == Builder("kMouseMove", MouseMove \ {"interval", "touch_id"}, "kMouse", <<>>)
Press  == Builder("kKey", Key, "kKeyboard", <<"kShift", "kMod5">>)
Scroll == Builder("kMouseScroll", MouseScroll \ {"horizontal"}, "kTouchpad", <<>>)
Touch  == Builder("kMouseMove", MouseMove, "kTouchscreen", <<>>)
Tap    == Builder("kMouseClick", MouseClick \ {"button"}, "kTouchscreen", <<"kControl">>)

MCTexts == Range(Decimal) \cup UNION {Members[type] : type \in EntryType} \cup {""}

MCEvents == {<<>>, <<Move>>, <<Press>>, <<Scroll, Move>>, <<Touch, Tap>>}
=============================================================================
