------------------------------- MODULE Gomba -------------------------------
(***************************************************************************)
(* The gomba (gomba.sv) and the collisions (collision.sv) beside the       *)
(* players.  The collision registers and the vanishing gomba's position    *)
(* follow the 50 MHz clock, everything else the 60 Hz frame clock: between *)
(* two frames the former reach a state that no further clock edge changes. *)
(***************************************************************************)
EXTENDS Players

CONSTANTS
  GombaStart,   \* 450
  GombaSize,    \* 32
  Pace,         \* 1: pixels in a frame
  GombaWait     \* 4: frames between two decisions (gomba_counter[1], counter2[0])

ASSUME GombaAssumption ==
  /\ GombaStart \in Word /\ GombaSize \in Word /\ Pace \in Word
  /\ GombaWait \in Nat

\* The pen: the gomba starts between two pipes, the screen at the level's end
\* leaves the right one in view, and two frames of motion do not carry it
\* across a pipe (2 * 2 + 2 < 62 + 32) or out of the words (640 + 2 + 4 <= 1023).
ASSUME PenAssumption ==
  /\ 0 < Pace /\ Pace <= Step /\ 2 * Pace <= PipeWidth
  /\ 2 * Step + 2 < PipeWidth + GombaSize
  /\ \E e \in Pipes : e < GombaStart
  /\ \E e \in Pipes : e >= GombaStart
  /\ \A e \in Pipes :
       IF e < GombaStart THEN e + PipeWidth <= GombaStart
       ELSE /\ GombaStart + GombaSize <= e + 2 /\ Modulus - Screen + GombaSize <= e + 2
            /\ e + 2 + 2 * Step <= XMax

VARIABLES
  gomba,        \* position, motion, state (LEFT is LEFT_1 and LEFT_2), frames waited
  gomba_dead,   \* collision.sv's register
  disappear     \* gomba.sv's register

gombaVars == <<gomba, gomba_dead, disappear>>
varsWithGomba == <<vars, gombaVars>>

Creature == [x : Word, y : Word, xm : Word, wait : 0 .. GombaWait,
             mode : {"LEFT", "RIGHT", "DIE", "DISAPPEAR"}]

AtStart == [x |-> GombaStart, y |-> Ground, xm |-> 0, wait |-> 0, mode |-> "LEFT"]

(***************************************************************************)
(* gomba.sv: it walks towards the nearer living player.                    *)
(***************************************************************************)
Distance(x) == IF x < gomba.x THEN gomba.x - x ELSE x - gomba.x

AtLeft(p) == p.x < gomba.x

MarioAtLeft ==
  CASE ~mario_dead /\ ~luigi_dead ->
         IF Distance(mario.x) <= Distance(luigi.x) THEN AtLeft(mario) ELSE AtLeft(luigi)
    [] ~mario_dead /\ luigi_dead  -> AtLeft(mario)
    [] mario_dead /\ ~luigi_dead  -> AtLeft(luigi)
    [] mario_dead /\ luigi_dead   -> FALSE

Head(mode) == [gomba EXCEPT !.mode = mode,
                            !.xm = IF mode = "LEFT" THEN Neg(Pace) ELSE Pace]

Walk ==
  IF gomba_dead THEN [gomba EXCEPT !.mode = "DIE", !.xm = 0, !.wait = 0]
  ELSE IF gomba.x <= process THEN [gomba EXCEPT !.mode = "RIGHT", !.xm = Step]
  ELSE IF Add(gomba.x, GombaSize) >= XMax THEN Head("LEFT")
  ELSE IF gomba.wait < GombaWait THEN [gomba EXCEPT !.wait = @ + 1]
  ELSE [Head(IF MarioAtLeft THEN "LEFT" ELSE "RIGHT") EXCEPT !.wait = 0]

\* The air walls turn it round, by the state it was in and its new motion.
AgainstPipe(xm) ==
  /\ gomba.y > PipeTop
  /\ \E e \in Pipes : /\ Add(Add(gomba.x, xm), GombaSize) > e + 2
                      /\ Add(gomba.x, xm) < e + PipeWidth

\* mutant: no wall on the right
BounceFromLeftOnly(next) ==
  IF AgainstPipe(next.xm) /\ gomba.mode = "LEFT" /\ Negative(next.xm)
    THEN [next EXCEPT !.mode = "RIGHT", !.xm = Pace]
    ELSE next

Bounce(next) ==
  IF AgainstPipe(next.xm) /\ (gomba.mode = "LEFT" <=> Negative(next.xm))
    THEN LET back == Head(IF gomba.mode = "LEFT" THEN "RIGHT" ELSE "LEFT")
         IN  [next EXCEPT !.mode = back.mode, !.xm = back.xm]
    ELSE next

\* mutant: a dead gomba waits for a living player
GombaNextWaits ==
  CASE gomba.mode \in {"LEFT", "RIGHT"} -> Bounce(Walk)
    [] OTHER -> IF mario_dead THEN [gomba EXCEPT !.mode = "DISAPPEAR"] ELSE gomba

GombaNext ==
  CASE gomba.mode \in {"LEFT", "RIGHT"} -> Bounce(Walk)
    [] gomba.mode = "DIE"               -> IF gomba.wait < GombaWait
                                             THEN [gomba EXCEPT !.wait = @ + 1]
                                             ELSE [gomba EXCEPT !.mode = "DISAPPEAR"]
    [] gomba.mode = "DISAPPEAR"         -> gomba

GombaFrame ==
  IF disappear THEN UNCHANGED <<gomba, disappear>>
  ELSE /\ gomba' = [GombaNext EXCEPT !.x = Clamp(Add(gomba.x, gomba.xm), XMax)]
       /\ disappear' = (gomba.mode = "DISAPPEAR")

(***************************************************************************)
(* collision.sv                                                            *)
(***************************************************************************)
Touches(p) == /\ p.y < Add(gomba.y, GombaSize) /\ gomba.y < Add(p.y, Height)
              /\ p.x < Add(gomba.x, GombaSize) /\ gomba.x < Add(p.x, Width)
\* mutant: the sign bit misread
DownwardBySign(p) == p.ym > 0 /\ Negative(p.ym)
Downward(p) == p.ym > 0 /\ ~Negative(p.ym)
Stomps(p, dead) == Touches(p) /\ Downward(p) /\ ~dead
Killed(p, dead) == Touches(p) /\ ~Stomps(p, dead) /\ ~gomba_dead

Collisions ==
  /\ mario_dead' = (mario_dead \/ Killed(mario, mario_dead))
  /\ luigi_dead' = (luigi_dead \/ Killed(luigi, luigi_dead))
  /\ gomba_dead' = (\/ gomba_dead \/ gomba.x < process
                    \/ Stomps(mario, mario_dead) \/ Stomps(luigi, luigi_dead))

\* At every clock edge a gomba that has disappeared is put at the origin.
Vanish == gomba' = IF disappear THEN [gomba EXCEPT !.x = 0, !.y = 0, !.xm = 0, !.wait = 0]
                                ELSE gomba

Settled == /\ ~disappear \/ (gomba.x = 0 /\ gomba.y = 0)
           /\ mario_dead \/ ~Killed(mario, mario_dead)
           /\ luigi_dead \/ ~Killed(luigi, luigi_dead)
           /\ \/ gomba_dead
              \/ /\ ~Stomps(mario, mario_dead) /\ ~Stomps(luigi, luigi_dead)
                 /\ gomba.x >= process

Clock == ~Settled /\ Collisions /\ Vanish /\ UNCHANGED <<playerVars, disappear>>

\* Bound: frames are followed only until more than MaxDeaths players are dead.
GombaPlayersFrame == /\ Settled /\ Dead <= MaxDeaths
                     /\ PlayersFrame /\ GombaFrame /\ UNCHANGED <<deathVars, gomba_dead>>

GombaReset == Reset /\ gomba' = AtStart /\ gomba_dead' = FALSE /\ disappear' = FALSE

GombaInit == Init /\ gomba = AtStart /\ gomba_dead = FALSE /\ disappear = FALSE
GombaStep == GombaPlayersFrame \/ Clock \/ GombaReset
GombaSpec == GombaInit /\ [][GombaStep]_varsWithGomba
GombaFairSpec == GombaSpec /\ WF_varsWithGomba(Clock) /\ WF_varsWithGomba(GombaPlayersFrame)

-----------------------------------------------------------------------------

\* A living gomba stays between the pipes it started between, although the
\* air wall looks at the next motion and the position follows the last one.
Penned ==
  ~gomba_dead => \A e \in Pipes :
    IF e < GombaStart THEN gomba.x + Step >= e + PipeWidth ELSE gomba.x + GombaSize <= e + Step + 2

\* Who jumps on the gomba kills it: a living player in free flight above it
\* that touches it one frame later is moving downwards then, so that the
\* collision registers take it for a stomp and not for a death.
Above(p) == p.mode = "IN_AIR" /\ p.y + Height <= gomba.y
FallOnGombaStomps ==
  [][GombaPlayersFrame =>
       /\ (Above(mario) /\ ~mario_dead /\ Touches(mario)') => Stomps(mario, mario_dead)'
       /\ (Above(luigi) /\ ~luigi_dead /\ Touches(luigi)') => Stomps(luigi, luigi_dead)']_varsWithGomba

\* A dead gomba vanishes, unless a reset or the end of the game comes first.
GombaVanishes == gomba_dead ~> (disappear \/ ~gomba_dead \/ Dead > MaxDeaths)
=============================================================================
