------------------------- MODULE MCEventTransformer -------------------------
(* EventTransformer for model checking.  What was returned last is written and
   never read, so the view leaves it out. *)
EXTENDS EventTransformer, TLC

CONSTANTS d1, d2

MCCapabilities == (d1 :> {"keyboard", "touch", "tablet"}) @@ (d2 :> {"keyboard", "pointer", "touch"})

View == <<libinputVars, device_uuids, previous_absolute, previous_touch,
          device_intervals, keyboard, history>>
=============================================================================
