----------------------------- MODULE MCUsbHost -----------------------------
(***************************************************************************)
(* UsbHost for TLC: a keyboard and a low speed mouse, and few addresses.   *)
(***************************************************************************)
EXTENDS UsbHost, TLC

CONSTANTS kbd, mouse

MCKind == [d \in Devices |-> IF d = kbd THEN "kbd" ELSE "mouse"]
=============================================================================
