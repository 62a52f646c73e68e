----------------------------- MODULE HidService -----------------------------
(***************************************************************************)
(* What the USB host promises the game: the keycode changes only while a   *)
(* keyboard is being served; a device is served only after an enumeration  *)
(* that ended well; the class served never changes without a new           *)
(* enumeration; and a failed enumeration is left only by a new connection. *)
(***************************************************************************)
EXTENDS Integers

CONSTANTS Keys, HID_K, HID_M, UNINIT

VARIABLES
  phase,        \* "down", "enumerating", "up" or "failed"
  class,        \* the class served, UNINIT unless up
  keycode

serviceVars == <<phase, class, keycode>>

Init == phase = "down" /\ class = UNINIT /\ keycode = 0

\* A connection (again), from any phase.
Attach ==
  /\ phase' = "enumerating"
  /\ class' = UNINIT
  /\ UNCHANGED keycode

\* A disconnection, or an illegal line state, from any phase.
Detach ==
  /\ phase' = "down"
  /\ class' = UNINIT
  /\ UNCHANGED keycode

GiveUp ==
  /\ phase = "enumerating"
  /\ phase' = "failed"
  /\ UNCHANGED <<class, keycode>>

Serve(c) ==
  /\ phase = "enumerating"
  /\ phase' = "up"
  /\ class' = c
  /\ UNCHANGED keycode

Report ==
  /\ phase = "up"
  /\ class = HID_K
  /\ keycode' \in Keys
  /\ UNCHANGED <<phase, class>>

Next == Attach \/ Detach \/ GiveUp \/ (\E c \in {HID_K, HID_M} : Serve(c)) \/ Report

Spec == Init /\ [][Next]_serviceVars
=============================================================================
