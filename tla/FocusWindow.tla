---------------------------- MODULE FocusWindow ----------------------------
(***************************************************************************)
(* The window fields of X11 entries: EventSwitch::SetWindowFields          *)
(* (event_switch.h) over the queries of x11.cpp.                           *)
(*                                                                         *)
(* Each query is one request or several, and between two requests the X    *)
(* server, its window manager and its other clients go on.  They are       *)
(* external.  A request about a window that does not exist (any more) is   *)
(* answered with an error, and Xlib hands errors to a handler before the   *)
(* call returns; evget installs none, and the default one ends the         *)
(* process.                                                                *)
(***************************************************************************)
CONSTANTS
    Windows,      \* windows of other clients
    NoWindow,     \* 0, also X's None
    Unset         \* a field that is not recorded, a property that is not there;
                  \* neither is a window, and they differ

VARIABLES
    atoms,        \* X server: the names that XInternAtom finds
    alive,        \* X server: windows that exist
    active,       \* X server: property _NET_ACTIVE_WINDOW of the root
    titled,       \* X server: windows with a _NET_WM_NAME
    framed,       \* X server: windows whose parent is a frame, not the root
    pc,           \* where SetWindowFields is
    window,       \* the window it asks about
    origin,       \* what the coordinates in the XWindowAttributes are relative to
    name,         \* the fields it sets; of a position, what it is relative to
    position,
    size

serverVars == <<atoms, alive, active, titled, framed>>
fieldVars  == <<name, position, size>>
vars == <<serverVars, pc, window, origin, fieldVars>>

OptionalAtoms == {"_NET_ACTIVE_WINDOW", "_NET_WM_NAME"}

Init ==
    /\ \E known \in SUBSET OptionalAtoms : atoms = {"WM_NAME"} \cup known
    /\ alive = Windows
    /\ active = Unset
    /\ titled \in SUBSET Windows
    /\ framed \in SUBSET Windows
    /\ pc = "idle"
    /\ window = NoWindow /\ origin = "root"
    /\ name = Unset /\ position = Unset /\ size = Unset

(***************************************************************************)
(* The server.  The property is set by the window manager, in its own time. *)
(***************************************************************************)
Destroy(w) ==
    /\ w \in alive
    /\ alive' = alive \ {w}
    /\ UNCHANGED <<atoms, active, titled, framed, pc, window, origin, fieldVars>>

SetActive ==
    /\ "_NET_ACTIVE_WINDOW" \in atoms
    /\ active' \in alive \cup {NoWindow}
    /\ UNCHANGED <<atoms, alive, titled, framed, pc, window, origin, fieldVars>>

Reparent(w) ==
    /\ w \in alive
    /\ framed' = IF w \in framed THEN framed \ {w} ELSE framed \cup {w}
    /\ UNCHANGED <<atoms, alive, active, titled, pc, window, origin, fieldVars>>

ServerStep == SetActive \/ \E w \in Windows : Destroy(w) \/ Reparent(w)

(***************************************************************************)
(* Which window.                                                           *)
(***************************************************************************)
SetWindowFields ==
    /\ pc \in {"idle", "built"}
    /\ pc' = "active"
    /\ window' = NoWindow
    /\ name' = Unset /\ position' = Unset /\ size' = Unset
    /\ UNCHANGED <<serverVars, origin>>

(* A property that says "none" is a window as good as any other. *)
GetActiveWindow ==
    /\ pc = "active"
    /\ IF "_NET_ACTIVE_WINDOW" \in atoms /\ active # Unset
       THEN window' = active /\ pc' = "name"
       ELSE UNCHANGED window /\ pc' = "focus"
    /\ UNCHANGED <<serverVars, origin, fieldVars>>

(* XGetInputFocus returns 1 in every case, which is compared with Success, 0: the
   window that has the focus is never taken. *)
GetFocusWindow ==
    /\ pc = "focus"
    /\ pc' = "built"
    /\ UNCHANGED <<serverVars, window, origin, fieldVars>>

(***************************************************************************)
(* GetWindowName, GetWindowPosition and GetWindowSize make no request      *)
(* about window 0.                                                         *)
(***************************************************************************)
Answered == window \in alive

GetNetWmName ==
    /\ pc = "name"
    /\ \/ "_NET_WM_NAME" \notin atoms /\ pc' = "position" /\ UNCHANGED name
       \/ /\ "_NET_WM_NAME" \in atoms
          /\ \/ Answered /\ window \in titled /\ name' = "_NET_WM_NAME" /\ pc' = "position"
             \/ Answered /\ window \notin titled /\ UNCHANGED name /\ pc' = "wm_name"
             \/ window = NoWindow /\ UNCHANGED name /\ pc' = "wm_name"
    /\ UNCHANGED <<serverVars, window, origin, position, size>>

GetWmName ==
    /\ pc = "wm_name"
    /\ \/ Answered /\ name' \in {"WM_NAME", ""}
       \/ window = NoWindow /\ name' = ""
    /\ pc' = "position"
    /\ UNCHANGED <<serverVars, window, origin, position, size>>

PositionAttributes ==
    /\ pc = "position"
    /\ \/ /\ Answered
          /\ origin' = IF window \in framed THEN "frame" ELSE "root"
          /\ pc' = "tree"
       \/ window = NoWindow /\ UNCHANGED origin /\ pc' = "size"
    /\ UNCHANGED <<serverVars, window, fieldVars>>

QueryTree ==
    /\ pc = "tree" /\ Answered
    /\ IF window \in framed
       THEN pc' = "translate" /\ UNCHANGED position
       ELSE pc' = "size" /\ position' = origin
    /\ UNCHANGED <<serverVars, window, origin, name, size>>

TranslateCoordinates ==
    /\ pc = "translate" /\ Answered
    /\ position' = "root"
    /\ pc' = "size"
    /\ UNCHANGED <<serverVars, window, origin, name, size>>

GetWindowSize ==
    /\ pc = "size"
    /\ \/ Answered /\ size' = "set"
       \/ window = NoWindow /\ UNCHANGED size
    /\ pc' = "built"
    /\ UNCHANGED <<serverVars, window, origin, name, position>>

(* The default error handler exits. *)
XError ==
    /\ \/ pc = "name" /\ "_NET_WM_NAME" \in atoms
       \/ pc \in {"wm_name", "position", "tree", "translate", "size"}
    /\ ~Answered /\ window # NoWindow
    /\ pc' = "exited"
    /\ UNCHANGED <<serverVars, window, origin, fieldVars>>

Next ==
    \/ ServerStep
    \/ SetWindowFields \/ GetActiveWindow \/ GetFocusWindow
    \/ GetNetWmName \/ GetWmName
    \/ PositionAttributes \/ QueryTree \/ TranslateCoordinates
    \/ GetWindowSize
    \/ XError

Spec == Init /\ [][Next]_vars

-----------------------------------------------------------------------------
(* What x11.cpp says of a window that is gone, "window does not exist", with an
   empty result to go on with, and x11.h of its queries, "`nullopt` if
   unavailable": a window that closes while an entry is built costs the entry
   its fields, not evget its life. *)
WindowGoneIsNull == pc # "exited"
=============================================================================
