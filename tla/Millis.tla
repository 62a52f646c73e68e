------------------------------- MODULE Millis -------------------------------
(***************************************************************************)
(* The millisecond clock the firmware reads in transfer.c:                 *)
(* (alt_nticks()*1000)/alt_ticks_per_second(), a 32-bit product that wraps *)
(* to 0 before the division.  A deadline is such a reading plus a delay    *)
(* and does not wrap with it.                                              *)
(***************************************************************************)
EXTENDS Naturals

CONSTANT Wrap         \* 2^32 / 1000: the readings are below it

ASSUME WrapAssumption == Wrap \in Nat /\ Wrap > 0

VARIABLE now          \* what the expression yields

Deadline(delay) == now + delay
Advance         == now' = (now + 1) % Wrap
=============================================================================
