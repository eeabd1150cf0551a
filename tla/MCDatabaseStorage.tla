-------------------------- MODULE MCDatabaseStorage --------------------------
(* Data for model checking DatabaseStorage: batches with two entry types,    *)
(* modifiers, an entry without data and an empty batch.                      *)
EXTENDS DatabaseStorage

CONSTANTS w1, w2, w3, w4

MCEntry(type, mods, empty) == [type |-> type, mods |-> mods, empty |-> empty]

MCBatch ==
    [w \in Writers |->
        CASE w = w1 -> <<MCEntry("key", 2, FALSE), MCEntry("move", 0, FALSE)>>
          [] w = w2 -> <<MCEntry("move", 0, TRUE), MCEntry("move", 0, FALSE)>>
          [] w = w3 -> <<MCEntry("key", 0, FALSE)>>
          [] OTHER  -> <<>>]
=============================================================================
