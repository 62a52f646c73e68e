-------------------------------- MODULE Arena --------------------------------
(***************************************************************************)
(* What the game's circuits share: 10-bit unsigned arithmetic, the screen  *)
(* geometry, and the parts of a player's frame that mario_d.sv and         *)
(* luigi.sv have in common.  The literals of the circuits are constants,   *)
(* so that a run can use a smaller arena with the same shape; the code's   *)
(* own value stands beside each.                                           *)
(***************************************************************************)
EXTENDS Integers, FiniteSets

CONSTANTS
  Modulus,      \* 1024: positions and motions are 10 bits wide
  XMax,         \* 1023
  YMax,         \* 479
  Ground,       \* 384: a player's y on the ground
  PipeTop,      \* 320: a player's y on a pipe
  Pipes,        \* {100, 640}
  PipeWidth,    \* 62
  Width,        \* 26
  Height,       \* 32
  Step,         \* 2: pixels walked in a frame
  Jump,         \* 15: upward motion at take-off
  Ceiling,      \* 5
  Screen,       \* 640
  ScrollAt,     \* 320: screen column from which Mario scrolls the level
  ScrollMax     \* 383

ASSUME ArenaAssumption ==
  /\ Modulus \in Nat /\ Modulus > 0
  /\ Pipes \subseteq 0 .. Modulus - 1
  /\ \A c \in {XMax, YMax, Ground, PipeTop, PipeWidth, Width, Height, Step,
               Jump, Ceiling, Screen, ScrollAt, ScrollMax} : c \in 0 .. Modulus - 1
  /\ PipeTop < Ground /\ Ground <= YMax
  /\ Step > 0 /\ 2 * Step < Modulus     \* a step to the left has bit 9 set

Word == 0 .. Modulus - 1

Add(a, b)   == (a + b) % Modulus
Neg(a)      == (Modulus - a) % Modulus          \* ~a + 1
Negative(a) == 2 * a >= Modulus                 \* bit 9

(***************************************************************************)
(* A player's registers: position, motion, state with the side it faces,   *)
(* and already_jump.  RUN stands for RUN_1..RUN_3, which differ in the     *)
(* sprite only; the sprite flags and animation counters are left out.      *)
(***************************************************************************)
Modes  == {"STAND", "RUN", "JUMP", "IN_AIR", "GLIDE", "DIE"}
Player == [x : Word, y : Word, xm : Word, ym : Word,
           mode : Modes, side : {"L", "R"}, already_jump : BOOLEAN]

AtRest(x) == [x |-> x, y |-> Ground, xm |-> 0, ym |-> 0,
              mode |-> "STAND", side |-> "R", already_jump |-> FALSE]

(***************************************************************************)
(* What holds a player up: the ground, a pipe, or the other player's head. *)
(***************************************************************************)
Overlaps(x1, x2) == Add(x1, Width) > x2 /\ x1 < Add(x2, Width)
Foot(p)          == Add(p.y, p.ym)
OnPipe(p)        == /\ Foot(p) >= PipeTop /\ Foot(p) < Ground
                    /\ \E e \in Pipes : Add(p.x, Width) > e /\ p.x < Add(e, PipeWidth)
\* mutant: any height above the other counts as its head
OnHeadUnbounded(p, o) == Foot(p) < Ground /\ Overlaps(p.x, o.x)
OnHead(p, o)     == /\ Foot(p) < Ground /\ Foot(p) >= Add(o.y, Neg(Height))
                    /\ Overlaps(p.x, o.x)
InAir(p, o)      == Foot(p) < Ground /\ ~OnPipe(p) /\ ~OnHead(p, o)

Altitude(p, o) ==
  CASE OnPipe(p)                    -> PipeTop
    [] OnHead(p, o) /\ ~OnPipe(p)   -> Add(o.y, Neg(Height))
    [] OTHER                        -> Ground

(***************************************************************************)
(* The position registers: they follow the motion registers of the frame   *)
(* before, and a player does not walk into the other one at its height.    *)
(***************************************************************************)
Clamp(v, max) == IF v >= max THEN max ELSE v

NextY(p, o) ==
  CASE p.mode = "DIE"                  -> Clamp(Foot(p), YMax)
    [] p.mode # "DIE" /\ InAir(p, o)   -> Foot(p)
    [] OTHER                           -> Altitude(p, o)

\* mutant: compares heights before the move
NextXStaleHeight(p, o) ==
  LET x == Clamp(Add(p.x, p.xm), XMax)
  IN  IF Overlaps(x, o.x) /\ p.y = o.y THEN p.x ELSE x

NextX(p, o) ==
  LET x == Clamp(Add(p.x, p.xm), XMax)
  IN  IF Overlaps(x, o.x) /\ NextY(p, o) = o.y THEN p.x ELSE x

(***************************************************************************)
(* The state machine's common states.  keys holds the player's own keys    *)
(* ("w", "a", "d") that are down, alive is the input from collision.sv.    *)
(***************************************************************************)
Dying(p) == [p EXCEPT !.mode = "DIE", !.xm = 0, !.ym = Neg(Jump)]

Stand(p, keys, alive, o) ==
  LET still == [p EXCEPT !.xm = 0, !.ym = 0]
  IN  IF ~alive THEN Dying(still)
      ELSE IF "w" \in keys /\ ~p.already_jump
        THEN [still EXCEPT !.mode = "JUMP", !.already_jump = TRUE]
      ELSE IF "a" \in keys
        THEN [still EXCEPT !.mode = "RUN", !.side = "L", !.already_jump = FALSE]
      ELSE IF "d" \in keys
        THEN [still EXCEPT !.mode = "RUN", !.side = "R", !.already_jump = FALSE]
      ELSE IF "w" \notin keys THEN [still EXCEPT !.already_jump = FALSE]
      ELSE IF InAir(p, o) THEN [still EXCEPT !.mode = "IN_AIR"]
      ELSE still

\* The "air walls" at a pipe's sides stop a walking player whose key is down.
WallOnRight(p, xm, keys) ==
  /\ "d" \in keys /\ p.y > PipeTop
  /\ \E e \in Pipes : Add(Add(p.x, xm), Width) > e + 1 /\ Add(p.x, xm) < e - 1
WallOnLeft(p, xm, keys) ==
  /\ "a" \in keys /\ p.y > PipeTop
  /\ \E e \in Pipes : Add(p.x, xm) > e + 1 /\ Add(p.x, xm) < e + PipeWidth + 1

Run(p, xm, keys, alive, o) ==
  LET q   == [p EXCEPT !.xm = xm, !.ym = 0, !.already_jump = @ /\ "w" \in keys]
      key == IF p.side = "R" THEN "d" ELSE "a"
  IN  IF ~alive THEN Dying(q)
      ELSE IF InAir(p, o) THEN [q EXCEPT !.mode = "IN_AIR"]
      ELSE IF "w" \in keys /\ ~p.already_jump
        THEN [q EXCEPT !.mode = "JUMP", !.already_jump = TRUE]
      ELSE IF key \in keys THEN q
      ELSE [q EXCEPT !.mode = "STAND"]

TakeOff(p) == [p EXCEPT !.mode = "IN_AIR", !.ym = Neg(Jump), !.already_jump = TRUE]

\* Steering in the air sets the motion of a player that has none.
Steer(p, keys, leftmost, process) ==
  CASE p.xm = 0 /\ "a" \in keys /\ "d" \notin keys ->
         IF Add(p.x, Neg(Step)) <= leftmost THEN 0 ELSE Neg(Step)
    [] p.xm = 0 /\ "d" \in keys /\ "a" \notin keys ->
         IF Add(p.x, Step) >= Add(process, Screen - 1) THEN 0 ELSE Step
    [] OTHER -> p.xm

\* The motion of the next frame in the air: gravity, or turned round at the top.
\* mutant: the motion is cleared, as in the other states
LiftHovers(p) == 0
Lift(p)       == IF Foot(p) < Ceiling THEN Neg(p.ym) ELSE Add(p.ym, 1)

\* mutant: the key is forgotten at the landing
KeyForgotten(keys)  == FALSE
KeyAtLanding(keys)  == "w" \in keys

Fly(p, xm, keys, alive, o) ==
  LET q == [p EXCEPT !.xm = xm, !.already_jump = TRUE]
  IN  IF ~alive THEN Dying(q)
      ELSE IF InAir(p, o) THEN [q EXCEPT !.ym = Lift(p)]
      ELSE [q EXCEPT !.mode = "GLIDE", !.side = IF "a" \in keys THEN "L" ELSE "R",
                     !.ym = 0, !.already_jump = KeyAtLanding(keys)]

\* The state a glide ends in follows the motion register.
AfterGlide(p) ==
  CASE p.xm = 0          -> [p EXCEPT !.mode = "STAND"]
    [] p.xm = Step       -> [p EXCEPT !.mode = "RUN", !.side = "R"]
    [] p.xm = Neg(Step)  -> [p EXCEPT !.mode = "RUN", !.side = "L"]

Fall(p) == [p EXCEPT !.ym = Add(@, 1)]
=============================================================================
