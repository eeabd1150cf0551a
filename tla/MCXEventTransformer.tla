------------------------ MODULE MCXEventTransformer ------------------------
(* XEventTransformer for model checking.  The view leaves out event, which no *)
(* action and no property of the run with the view reads.                     *)
EXTENDS XEventTransformer

CONSTANTS mouse, keyboard, screen

View == <<serverVars, queue, pc, listed, cacheVars, data, recorded>>
=============================================================================
