-------------------------------- MODULE Vga --------------------------------
(***************************************************************************)
(* The video timing of VGA_controller.sv.  Its vertical sync is the frame  *)
(* clock of the game: Players, Gomba and Coins take one frame at each of   *)
(* its rising edges, while Color_Mapper draws the registers they change.   *)
(* A step is a rising edge of the pixel clock.                             *)
(***************************************************************************)
EXTENDS Naturals

CONSTANTS
  hpixels, vlines,      \* 799, 524: the last pixel and line
  Columns, Lines,       \* 640, 480: the visible ones
  HsyncFirst, HsyncEnd, \* 656, 752
  VsyncFirst, VsyncLast \* 490, 491

ASSUME VgaAssumption ==
  /\ hpixels \in Nat /\ vlines \in Nat
  /\ Columns < HsyncFirst /\ HsyncFirst < HsyncEnd /\ HsyncEnd <= hpixels
  /\ Lines + 1 < VsyncFirst /\ VsyncFirst <= VsyncLast /\ VsyncLast < vlines

VARIABLES
  hc, vc,     \* DrawX, DrawY
  hs, vs,     \* sync registers, active low
  fresh       \* history: no pixel since the reset

vars == <<hc, vc, hs, vs, fresh>>

Init == hc = 0 /\ vc = 0 /\ hs = FALSE /\ vs = FALSE /\ fresh = TRUE

Reset == hc' = 0 /\ vc' = 0 /\ hs' = FALSE /\ vs' = FALSE /\ fresh' = TRUE

Hsync == hc + 1 >= HsyncFirst /\ hc + 1 < HsyncEnd

\* mutant: the pulse as long as the visible lines
VsyncVisible == vc >= Lines
Vsync        == vc + 1 = VsyncFirst \/ vc + 1 = VsyncLast

Pixel ==
  /\ hc' = IF hc = hpixels THEN 0 ELSE hc + 1
  /\ vc' = CASE hc # hpixels                  -> vc
             [] hc = hpixels /\ vc # vlines   -> vc + 1
             [] hc = hpixels /\ vc = vlines   -> 0
  /\ hs' = ~Hsync /\ vs' = ~Vsync
  /\ fresh' = FALSE

Next == Pixel \/ Reset
Spec == Init /\ [][Next]_vars

display == hc < Columns /\ vc < Lines

-----------------------------------------------------------------------------

\* The registers a frame changes are not being drawn: the frame clock rises
\* while no pixel is displayed, other than at the first pixel after a reset.
FrameEdgeInBlank == [][~vs /\ vs' /\ ~fresh => ~display]_vars
=============================================================================
