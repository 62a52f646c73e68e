------------------------------ MODULE Players ------------------------------
(***************************************************************************)
(* The two players: mario_d.sv, which also scrolls the level (process),    *)
(* and luigi.sv, which stops the scrolling when Luigi is at the screen's   *)
(* left edge (at_edge).  All registers change together, at the rising edge *)
(* of the frame clock, from their values before it.  collision.sv is the   *)
(* environment here: it may kill a player between two frames.              *)
(***************************************************************************)
EXTENDS Arena

CONSTANTS
  MarioStart,   \* 20
  LuigiStart,   \* 80: a little inside the first pipe
  MaxKeys,      \* keys in the keycode PIO: main.c fills one of its four bytes
  LuigiMoves,   \* the keys somebody presses for Luigi
  MaxDeaths     \* bound: players that die between two resets (2: both)

ASSUME PlayersAssumption ==
  /\ MarioStart \in Word /\ LuigiStart \in Word
  /\ MaxKeys \in Nat /\ MaxDeaths \in Nat /\ LuigiMoves \subseteq {"w", "a", "d"}

\* The screen fits the level at every step of the scrolling that is allowed:
\* process = 382 is the last multiple of 2 below 383, and 384 + 640 = 1024.
ASSUME ScreenAssumption ==
  \A n \in 0 .. ScrollMax : n * Step < ScrollMax => (n + 1) * Step + Screen <= Modulus

VARIABLES
  mario, luigi,             \* Player registers
  process,                  \* the screen's left edge in the level
  at_edge,                  \* luigi.sv's register, input luigi_at_edge of mario_d
  mario_dead, luigi_dead,   \* collision.sv's registers
  mario_held, luigi_held    \* history: the jump key has been down since take-off

playerVars == <<mario, luigi, process, at_edge, mario_held, luigi_held>>
deathVars  == <<mario_dead, luigi_dead>>
vars       == <<playerVars, deathVars>>

\* The keys down at a frame edge, Mario's (w, a, d) and Luigi's (arrows).
Pressed == {k \in (SUBSET {"w", "a", "d"}) \X (SUBSET LuigiMoves) :
              Cardinality(k[1]) + Cardinality(k[2]) <= MaxKeys}

PlayersInit ==
  /\ mario = AtRest(MarioStart) /\ luigi = AtRest(LuigiStart)
  /\ process = 0 /\ at_edge = FALSE
  /\ mario_held = FALSE /\ luigi_held = FALSE

PlayersReset ==
  /\ mario' = AtRest(MarioStart) /\ luigi' = AtRest(LuigiStart)
  /\ process' = 0 /\ at_edge' = FALSE
  /\ mario_held' = FALSE /\ luigi_held' = FALSE

Moved(p, q, o) == [q EXCEPT !.x = NextX(p, o), !.y = NextY(p, o)]

\* history only: held from the take-off on, as long as w stays down
Held(p, held, keys) == "w" \in keys /\ (held \/ p.mode = "JUMP")

(***************************************************************************)
(* Mario's side of a frame.                                                *)
(***************************************************************************)
AtLeftEdge == mario.x <= Add(process, 1)
AtLevelEnd == Add(mario.x, Width) >= XMax

MarioRunMotion(keys) ==
  LET right == IF AtLevelEnd THEN 0 ELSE Step
      left  == IF Add(mario.x, mario.xm) <= 1 \/ AtLeftEdge THEN 0 ELSE Neg(Step)
  IN  IF mario.side = "R" THEN IF WallOnRight(mario, right, keys) THEN 0 ELSE right
                          ELSE IF WallOnLeft(mario, left, keys) THEN 0 ELSE left

MarioAirMotion(keys) ==
  IF mario.side = "L" /\ InAir(mario, luigi) /\ AtLeftEdge
    THEN 0 ELSE Steer(mario, keys, 1, process)

MarioGlide ==
  LET q == [mario EXCEPT !.ym = 0]
  IN  IF mario_dead THEN Dying(q)
      ELSE IF AtLevelEnd \/ (mario.side = "L" /\ AtLeftEdge) THEN [q EXCEPT !.xm = 0]
      ELSE AfterGlide(q)

MarioNext(keys) ==
  CASE mario.mode = "STAND"  -> Stand(mario, keys, ~mario_dead, luigi)
    [] mario.mode = "RUN"    -> Run(mario, MarioRunMotion(keys), keys, ~mario_dead, luigi)
    [] mario.mode = "JUMP"   -> TakeOff(mario)
    [] mario.mode = "IN_AIR" -> Fly(mario, MarioAirMotion(keys), keys, ~mario_dead, luigi)
    [] mario.mode = "GLIDE"  -> MarioGlide
    [] mario.mode = "DIE"    -> Fall(mario)

\* mutant: no limit
ScrollsPastEnd == mario.x >= Add(process, ScrollAt) /\ ~Negative(mario.xm) /\ ~at_edge

Scrolls == /\ mario.x >= Add(process, ScrollAt) /\ ~Negative(mario.xm)
           /\ process < ScrollMax /\ ~at_edge

MarioFrame(keys) ==
  /\ mario' = Moved(mario, MarioNext(keys), luigi)
  /\ process' = IF Scrolls THEN Add(process, mario.xm) ELSE process
  /\ mario_held' = Held(mario, mario_held, keys)

(***************************************************************************)
(* Luigi's side: no check against the level's end, and at_edge.            *)
(***************************************************************************)
LuigiAtProcess == luigi.x <= process

\* A run to the left, or a steer to the left, that the screen's edge stops.
RunStopped == Add(luigi.x, luigi.xm) <= process
SteerStopped(keys) == /\ luigi.xm = 0 /\ "a" \in keys /\ "d" \notin keys
                      /\ Add(luigi.x, Neg(Step)) <= process

LuigiRunMotion(keys) ==
  LET left == IF RunStopped THEN 0 ELSE Neg(Step)
  IN  IF luigi.side = "R" THEN IF WallOnRight(luigi, Step, keys) THEN 0 ELSE Step
                          ELSE IF WallOnLeft(luigi, left, keys) THEN 0 ELSE left

LuigiAirMotion(keys) ==
  Steer(luigi, keys, IF luigi.side = "L" THEN process ELSE 1, process)

LuigiOnScreenRight == Add(luigi.x, Width) >= Add(process, Screen)

LuigiGlide ==
  IF luigi_dead THEN Dying(luigi)
  ELSE [AfterGlide(luigi) EXCEPT !.xm = IF LuigiOnScreenRight \/ LuigiAtProcess THEN 0 ELSE @]

LuigiNext(keys) ==
  CASE luigi.mode = "STAND"  -> Stand(luigi, keys, ~luigi_dead, mario)
    [] luigi.mode = "RUN"    -> Run(luigi, LuigiRunMotion(keys), keys, ~luigi_dead, mario)
    [] luigi.mode = "JUMP"   -> TakeOff(luigi)
    [] luigi.mode = "IN_AIR" -> Fly(luigi, LuigiAirMotion(keys), keys, ~luigi_dead, mario)
    [] luigi.mode = "GLIDE"  -> LuigiGlide
    [] luigi.mode = "DIE"    -> Fall(luigi)

\* mutant: only a moving Luigi reports the edge
NextAtEdgeMoving(keys) ==
  CASE luigi.mode = "RUN"    -> luigi.side = "L" /\ RunStopped
    [] luigi.mode = "GLIDE"  -> ~LuigiOnScreenRight /\ LuigiAtProcess
    [] OTHER                 -> FALSE

NextAtEdge(keys) ==
  CASE luigi.mode = "STAND"  -> LuigiAtProcess
    [] luigi.mode = "RUN"    -> luigi.side = "L" /\ RunStopped
    [] luigi.mode = "IN_AIR" -> at_edge \/ (luigi.side = "L" /\ SteerStopped(keys))
    [] luigi.mode = "GLIDE"  -> ~LuigiOnScreenRight /\ LuigiAtProcess
    [] luigi.mode \in {"JUMP", "DIE"} -> at_edge

LuigiFrame(keys) ==
  /\ luigi' = Moved(luigi, LuigiNext(keys), mario)
  /\ at_edge' = NextAtEdge(keys)
  /\ luigi_held' = Held(luigi, luigi_held, keys)

(***************************************************************************)
(* A frame, a player's death, and the reset button.                        *)
(***************************************************************************)
PlayersFrame == \E k \in Pressed : MarioFrame(k[1]) /\ LuigiFrame(k[2])

Frame == PlayersFrame /\ UNCHANGED deathVars

Dead == Cardinality({p \in {"mario", "luigi"} :
                       IF p = "mario" THEN mario_dead ELSE luigi_dead})

Kill == /\ Dead < MaxDeaths
        /\ \/ ~mario_dead /\ mario_dead' = TRUE /\ UNCHANGED luigi_dead
           \/ ~luigi_dead /\ luigi_dead' = TRUE /\ UNCHANGED mario_dead
        /\ UNCHANGED playerVars

Init  == PlayersInit /\ mario_dead = FALSE /\ luigi_dead = FALSE
Reset == PlayersReset /\ mario_dead' = FALSE /\ luigi_dead' = FALSE
Next  == Frame \/ Kill \/ Reset
Spec  == Init /\ [][Next]_vars
FairSpec == Spec /\ WF_vars(Frame)

-----------------------------------------------------------------------------

\* A living player is never below the ground, whatever the 10-bit sums of
\* position and motion, the pipes and the other player's head make of its
\* height (altitude, mario_d.sv:148-181 and luigi.sv).
AboveGround == \A p \in {mario, luigi} : p.mode # "DIE" => p.y <= Ground

\* One press of the jump key gives one jump: while it stays down from the
\* take-off on, through flight, landing, walking and standing, no other jump
\* starts (already_jump, with the one key main.c passes on).
OnePressOneJump ==
  /\ mario.mode = "JUMP" => ~mario_held
  /\ luigi.mode = "JUMP" => ~luigi_held

\* The level is never scrolled past its end: the screen's right edge stays
\* within the 10-bit level although process is compared one step late.
ScreenInLevel == process + Screen <= Modulus

\* A Luigi who only stands is scrolled at most one step out of the screen:
\* at_edge travels through one register before it stops Mario's scrolling.
StandingLuigiOnScreen == luigi.mode = "STAND" => luigi.x + Step >= process

\* Mario never walks or lands more than one step into a living Luigi at his
\* own height, however he comes to stand beside him (the position check uses
\* the other's registers of the frame before).  For a Luigi who stays put.
Apart(p, o) == p.x + Width <= o.x + Step \/ o.x + Width <= p.x + Step
PlayersKeepApart ==
  (mario.mode # "DIE" /\ luigi.mode # "DIE" /\ mario.y = luigi.y) => Apart(mario, luigi)

\* Whoever is in the air lands: on the ground, a pipe or the other's head.
\* For a Luigi who stays put: two players who jump and lift each other to the
\* ceiling can reach motion 0 there, which the turn-round leaves at 0, and hover.
Lands == \A p \in {"mario", "luigi"} :
  LET mode == IF p = "mario" THEN mario.mode ELSE luigi.mode
  IN  mode = "IN_AIR" ~> mode # "IN_AIR"
=============================================================================
