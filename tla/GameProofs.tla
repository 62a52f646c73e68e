------------------------------ MODULE GameProofs ------------------------------
(***************************************************************************)
(* Proofs about the game beside the players, for every arena: the gomba in *)
(* its pen and under Mario's feet (gomba.sv, collision.sv), and the coins  *)
(* and the score (coin.sv, eat_coin.sv, score.sv).                         *)
(***************************************************************************)
EXTENDS Gomba, Coins, PlayersProofs

LEMMA GombaNumbers ==
  /\ GombaStart \in Word /\ GombaSize \in Word /\ Pace \in Word /\ GombaWait \in Nat
  /\ 0 < Pace /\ Pace <= Step /\ Neg(Pace) = Modulus - Pace /\ Neg(Pace) \in Word
  /\ Neg(Pace) # 0 /\ Neg(Pace) # Pace /\ Neg(Pace) # Step
  /\ Negative(Neg(Pace)) /\ ~Negative(Pace) /\ ~Negative(Step) /\ ~Negative(0)
<1>1. /\ Pace \in Word /\ Pace \in Nat /\ 0 < Pace /\ Pace <= Step /\ Modulus \in Nat
      /\ Step \in Nat /\ 2 * Step < Modulus
  BY GombaAssumption, PenAssumption, ArenaNumbers DEF Word
<1>2. Neg(Pace) = Modulus - Pace /\ Neg(Pace) \in Word
  BY <1>1, NegOfWord
<1> QED
  BY <1>1, <1>2, GombaAssumption DEF Negative

(***************************************************************************)
(* The gomba's registers.                                                  *)
(***************************************************************************)
Paces == {0, Pace, Step, Neg(Pace)}

GombaType ==
  /\ gomba \in Creature /\ gomba.xm \in Paces /\ gomba.y \in {0, Ground}

LEMMA PacesWords == Paces \subseteq Word
BY GombaNumbers, MotionWords, ArenaNumbers DEF Paces

\* What a frame decides: a creature at its place, with a motion it can have.
LEMMA HeadType ==
  ASSUME GombaType, NEW mode \in {"LEFT", "RIGHT"}
  PROVE  /\ Head(mode) \in Creature /\ Head(mode).y = gomba.y /\ Head(mode).mode = mode
         /\ Head(mode).xm = (IF mode = "LEFT" THEN Neg(Pace) ELSE Pace)
BY GombaNumbers DEF Head, GombaType, Creature

\* How the gomba chooses its way in a frame, before it looks at the pipes.
LEMMA WalkType ==
  ASSUME GombaType, gomba.mode \in {"LEFT", "RIGHT"}
  PROVE  /\ Walk \in Creature /\ Walk.y = gomba.y
         /\ \/ gomba_dead /\ Walk.mode = "DIE" /\ Walk.xm = 0
            \/ gomba.x <= process /\ Walk.mode = "RIGHT" /\ Walk.xm = Step
            \/ Walk.mode = "LEFT" /\ Walk.xm = Neg(Pace)
            \/ Walk.mode = "RIGHT" /\ Walk.xm = Pace
            \/ Walk.mode = gomba.mode /\ Walk.xm = gomba.xm
<1>1. /\ gomba \in Creature /\ 0 \in 0 .. GombaWait /\ 0 \in Word /\ Step \in Word
  BY GombaNumbers, MotionWords, ArenaNumbers DEF GombaType
<1>2. CASE gomba_dead
  <2>1. Walk = [gomba EXCEPT !.mode = "DIE", !.xm = 0, !.wait = 0]
    BY <1>2 DEF Walk
  <2> QED
    BY <1>1, <1>2, <2>1 DEF Creature
<1>3. CASE ~gomba_dead /\ gomba.x <= process
  <2>1. Walk = [gomba EXCEPT !.mode = "RIGHT", !.xm = Step]
    BY <1>3 DEF Walk
  <2> QED
    BY <1>1, <1>3, <2>1 DEF Creature
<1>4. CASE ~gomba_dead /\ ~(gomba.x <= process) /\ Add(gomba.x, GombaSize) >= XMax
  <2>1. Walk = Head("LEFT")
    BY <1>4 DEF Walk
  <2> QED
    BY <2>1, HeadType
<1>5. CASE /\ ~gomba_dead /\ ~(gomba.x <= process) /\ ~(Add(gomba.x, GombaSize) >= XMax)
           /\ gomba.wait < GombaWait
  <2>1. Walk = [gomba EXCEPT !.wait = @ + 1]
    BY <1>5 DEF Walk
  <2>2. gomba.wait + 1 \in 0 .. GombaWait
    BY <1>1, <1>5, GombaNumbers DEF Creature
  <2> QED
    BY <1>1, <2>1, <2>2 DEF Creature
<1>6. CASE /\ ~gomba_dead /\ ~(gomba.x <= process) /\ ~(Add(gomba.x, GombaSize) >= XMax)
           /\ ~(gomba.wait < GombaWait)
  <2>1. PICK mode \in {"LEFT", "RIGHT"} : Walk = [Head(mode) EXCEPT !.wait = 0]
    BY <1>6 DEF Walk
  <2>2. PICK q : q = Head(mode)
    OBVIOUS
  <2>3. /\ q \in Creature /\ q.y = gomba.y /\ q.mode = mode
        /\ q.xm = (IF mode = "LEFT" THEN Neg(Pace) ELSE Pace)
    BY <2>2, HeadType
  <2>4. Walk = [q EXCEPT !.wait = 0]
    BY <2>1, <2>2
  <2> QED
    BY <1>1, <2>3, <2>4 DEF Creature
<1> QED
  BY <1>2, <1>3, <1>4, <1>5, <1>6

LEMMA BounceType ==
  ASSUME GombaType, gomba.mode \in {"LEFT", "RIGHT"}
  PROVE  /\ Bounce(Walk) \in Creature /\ Bounce(Walk).y = gomba.y
         /\ Bounce(Walk).xm \in Paces
<1>1. /\ Walk \in Creature /\ Walk.y = gomba.y /\ Walk.xm \in Paces
  BY WalkType DEF Paces, GombaType
<1>2. PICK w : w = Walk
  OBVIOUS
<1>3. CASE Bounce(Walk) = Walk
  BY <1>1, <1>3
<1>4. CASE Bounce(Walk) # Walk
  <2>1. PICK mode \in {"LEFT", "RIGHT"} :
          Bounce(w) = [w EXCEPT !.mode = Head(mode).mode, !.xm = Head(mode).xm]
    BY <1>2, <1>4 DEF Bounce
  <2>2. /\ Head(mode).mode = mode /\ Head(mode).xm \in Paces
    BY HeadType DEF Paces
  <2>3. Head(mode).xm \in Word
    BY <2>2, PacesWords
  <2> QED
    BY <1>1, <1>2, <2>1, <2>2, <2>3 DEF Creature
<1> QED
  BY <1>3, <1>4

LEMMA GombaNextType ==
  ASSUME GombaType
  PROVE  GombaNext \in Creature /\ GombaNext.y = gomba.y /\ GombaNext.xm \in Paces
<1>1. gomba \in Creature /\ gomba.xm \in Paces
  BY DEF GombaType
<1>2. CASE gomba.mode \in {"LEFT", "RIGHT"}
  BY <1>2, BounceType DEF GombaNext
<1>3. CASE gomba.mode = "DIE"
  <2>1. GombaNext = IF gomba.wait < GombaWait THEN [gomba EXCEPT !.wait = @ + 1]
                                              ELSE [gomba EXCEPT !.mode = "DISAPPEAR"]
    BY <1>3 DEF GombaNext
  <2>2. gomba.wait < GombaWait => gomba.wait + 1 \in 0 .. GombaWait
    BY <1>1, GombaNumbers DEF Creature
  <2> QED
    BY <1>1, <2>1, <2>2 DEF Creature
<1>4. CASE gomba.mode = "DISAPPEAR"
  BY <1>1, <1>4 DEF GombaNext
<1> QED
  BY <1>1, <1>2, <1>3, <1>4 DEF Creature

LEMMA GombaFrameType ==
  ASSUME GombaType, GombaFrame
  PROVE  /\ GombaType' /\ gomba'.y = gomba.y
         /\ ~disappear => /\ gomba'.x = Clamp(Add(gomba.x, gomba.xm), XMax)
                          /\ gomba'.xm = GombaNext.xm /\ gomba'.mode = GombaNext.mode
<1>1. CASE disappear
  BY <1>1 DEF GombaFrame, GombaType
<1>2. CASE ~disappear
  <2>1. PICK q : q = GombaNext
    OBVIOUS
  <2>2. q \in Creature /\ q.y = gomba.y /\ q.xm \in Paces
    BY <2>1, GombaNextType
  <2>3. PICK x : x = Clamp(Add(gomba.x, gomba.xm), XMax)
    OBVIOUS
  <2>4. x \in Word
    BY <2>3, SumOfWords, ClampedWord, ArenaNumbers DEF GombaType, Creature
  <2>5. gomba' = [q EXCEPT !.x = x]
    BY <1>2, <2>1, <2>3 DEF GombaFrame
  <2>6. gomba' \in Creature /\ gomba'.x = x /\ gomba'.y = q.y /\ gomba'.xm = q.xm
        /\ gomba'.mode = q.mode
    BY <2>2, <2>4, <2>5 DEF Creature
  <2> QED
    BY <1>2, <2>1, <2>2, <2>3, <2>6 DEF GombaType
<1> QED
  BY <1>1, <1>2

LEMMA VanishType ==
  ASSUME GombaType, Vanish
  PROVE  GombaType' /\ (~disappear => gomba' = gomba)
<1>1. CASE disappear
  <2>1. gomba' = [gomba EXCEPT !.x = 0, !.y = 0, !.xm = 0, !.wait = 0]
    BY <1>1 DEF Vanish
  <2>2. gomba \in Creature /\ 0 \in Word /\ 0 \in 0 .. GombaWait
    BY MotionWords, GombaNumbers DEF GombaType
  <2> QED
    BY <1>1, <2>1, <2>2 DEF GombaType, Creature, Paces
<1>2. CASE ~disappear
  BY <1>2 DEF Vanish, GombaType
<1> QED
  BY <1>1, <1>2

LEMMA AtStartType ==
  /\ AtStart \in Creature /\ AtStart.x = GombaStart /\ AtStart.y = Ground
  /\ AtStart.xm = 0 /\ AtStart.mode = "LEFT"
BY GombaNumbers, MotionWords, ArenaNumbers DEF AtStart, Creature

LEMMA GombaTypeKept ==
  ASSUME GombaType, [GombaStep]_varsWithGomba
  PROVE  GombaType'
<1>1. CASE GombaPlayersFrame
  BY <1>1, GombaFrameType DEF GombaPlayersFrame
<1>2. CASE Clock
  BY <1>2, VanishType DEF Clock
<1>3. CASE GombaReset
  BY <1>3, AtStartType DEF GombaReset, GombaType, Paces
<1>4. CASE UNCHANGED varsWithGomba
  BY <1>4 DEF varsWithGomba, gombaVars, GombaType
<1> QED
  BY <1>1, <1>2, <1>3, <1>4 DEF GombaStep

\* What the players do beside the gomba is a step of theirs.
LEMMA GombaPlayersSteps == ASSUME [GombaStep]_varsWithGomba PROVE PlayersStep
BY DEF GombaStep, GombaPlayersFrame, Clock, GombaReset, Reset, varsWithGomba, vars, PlayersStep

(***************************************************************************)
(* The pen.  The air walls look at the position with the next motion, the  *)
(* position follows the motion of the frame before: a gomba that walks to  *)
(* the left is past its pipe, one that walks to the right is within a step *)
(* of the other pipe once its motion is added.                             *)
(***************************************************************************)
Signed(xm) == IF Negative(xm) THEN xm - Modulus ELSE xm

InPen(x, xm) ==
  \A e \in Pipes :
    IF e < GombaStart
    THEN /\ x + Pace >= e + PipeWidth
         /\ xm = Neg(Pace) => x >= e + PipeWidth
    ELSE /\ x + GombaSize <= e + 2 + Step
         /\ x + Signed(xm) + GombaSize <= e + 2 + Step

Pen ==
  ~gomba_dead =>
    /\ ~disappear /\ gomba.y = Ground /\ InPen(gomba.x, gomba.xm)
    /\ \/ gomba.mode = "LEFT" /\ gomba.xm = 0 /\ gomba.x = GombaStart
       \/ gomba.mode = "LEFT" /\ gomba.xm = Neg(Pace)
       \/ gomba.mode = "RIGHT" /\ gomba.xm \in {Pace, Step}

LEMMA SignedPaces ==
  /\ Signed(0) = 0 /\ Signed(Pace) = Pace /\ Signed(Step) = Step /\ Signed(Neg(Pace)) = -Pace
BY GombaNumbers, ArenaNumbers DEF Signed, Word

LEMMA PenNumbers ==
  /\ Pace \in Nat /\ Step \in Nat /\ GombaSize \in Nat /\ GombaStart \in Nat
  /\ PipeWidth \in Nat /\ XMax \in Nat /\ Modulus \in Nat /\ Ground \in Nat /\ PipeTop \in Nat
  /\ Screen \in Nat /\ XMax < Modulus /\ 0 < Pace /\ Pace <= Step /\ PipeTop < Ground
  /\ \A e \in Pipes : e \in Nat
BY GombaNumbers, ArenaNumbers DEF Word

\* In the pen no sum of position and motion wraps.
LEMMA RoomInPen ==
  ASSUME NEW x \in Word, NEW xm, InPen(x, xm)
  PROVE  x >= Pace /\ x + GombaSize + Step <= XMax
<1>1. PICK e \in Pipes : e < GombaStart
  BY PenAssumption
<1>2. PICK d \in Pipes : d >= GombaStart
  BY PenAssumption
<1>3. x + Pace >= e + PipeWidth /\ 2 * Pace <= PipeWidth
  BY <1>1, PenAssumption DEF InPen
<1>4. x + GombaSize <= d + 2 + Step /\ d + 2 + 2 * Step <= XMax
  <2>1. ~(d < GombaStart)
    BY <1>2, PenNumbers
  <2> QED
    BY <2>1, PenAssumption DEF InPen
<1>5. x \in Nat
  BY ArenaNumbers DEF Word
<1> QED
  BY <1>1, <1>2, <1>3, <1>4, <1>5, PenNumbers

LEMMA SumInPen ==
  ASSUME NEW x \in Word, x >= Pace, x + GombaSize + Step <= XMax, NEW m \in Paces
  PROVE  /\ Add(x, m) = x + Signed(m) /\ x + Signed(m) <= XMax
         /\ Add(Add(x, m), GombaSize) = x + Signed(m) + GombaSize
<1>1. x \in Nat /\ x < Modulus /\ GombaSize \in Word /\ m \in Word
  BY ArenaNumbers, GombaNumbers, PacesWords DEF Word
<1>2. /\ Add(x, m) = IF x + m < Modulus THEN x + m ELSE x + m - Modulus
      /\ Add(x, m) \in Word
  BY <1>1, SumOfWords
<1>3. Add(x, m) = x + Signed(m) /\ x + Signed(m) + GombaSize <= XMax
      /\ x + Signed(m) \in Nat
  BY <1>1, <1>2, SignedPaces, PenNumbers, GombaNumbers DEF Paces
<1>4. Add(Add(x, m), GombaSize) = x + Signed(m) + GombaSize
  BY <1>1, <1>2, <1>3, SumOfWords, PenNumbers
<1> QED
  BY <1>1, <1>3, <1>4, PenNumbers

\* A motion with no wall ahead stays on its side of every pipe.
LEMMA FreeAhead ==
  ASSUME GombaType, gomba.y = Ground, InPen(gomba.x, gomba.xm),
         NEW m \in Paces, ~AgainstPipe(m), NEW e \in Pipes
  PROVE  \/ gomba.x + Signed(m) + GombaSize <= e + 2
         \/ gomba.x + Signed(m) >= e + PipeWidth
<1>1. gomba.x \in Word /\ gomba.x \in Nat
  BY ArenaNumbers DEF GombaType, Creature, Word
<1>2. /\ Add(gomba.x, m) = gomba.x + Signed(m)
      /\ Add(Add(gomba.x, m), GombaSize) = gomba.x + Signed(m) + GombaSize
  BY <1>1, RoomInPen, SumInPen
<1>3. Signed(m) \in Int
  BY SignedPaces, PenNumbers DEF Paces
<1> QED
  BY <1>1, <1>2, <1>3, PenNumbers DEF AgainstPipe

\* The ways a living gomba can go on, the air walls looked at.
LEMMA NextWay ==
  ASSUME GombaType, gomba.mode \in {"LEFT", "RIGHT"}, ~gomba_dead, gomba.x >= process,
         process \in Word
  PROVE  \/ /\ GombaNext.mode = "LEFT" /\ GombaNext.xm = Neg(Pace)
            /\ gomba.mode = "LEFT" => ~AgainstPipe(Neg(Pace))
         \/ /\ GombaNext.mode = "RIGHT" /\ GombaNext.xm = Pace
            /\ gomba.mode = "RIGHT" => ~AgainstPipe(Pace)
         \/ /\ GombaNext.mode = "RIGHT" /\ GombaNext.xm = Step /\ gomba.x = process
            /\ gomba.mode = "RIGHT" => ~AgainstPipe(Step)
         \/ /\ GombaNext.mode = "RIGHT" /\ gomba.mode = "RIGHT"
            /\ GombaNext.xm = gomba.xm /\ (Negative(gomba.xm) \/ ~AgainstPipe(gomba.xm))
         \/ /\ GombaNext.mode = "LEFT" /\ gomba.mode = "LEFT"
            /\ GombaNext.xm = gomba.xm /\ ~Negative(gomba.xm)
<1>1. GombaNext = Bounce(Walk)
  BY DEF GombaNext
<1>2. /\ gomba.x <= process => gomba.x = process
      /\ Walk \in Creature /\ Walk.y = gomba.y
  BY WalkType, ArenaNumbers DEF GombaType, Creature, Word
<1>3. PICK w : w = Walk
  OBVIOUS
<1>4. \/ gomba.x = process /\ w.mode = "RIGHT" /\ w.xm = Step
      \/ w.mode = "LEFT" /\ w.xm = Neg(Pace)
      \/ w.mode = "RIGHT" /\ w.xm = Pace
      \/ w.mode = gomba.mode /\ w.xm = gomba.xm
  BY <1>2, <1>3, WalkType
<1>5. CASE AgainstPipe(w.xm) /\ (gomba.mode = "LEFT" <=> Negative(w.xm))
  <2>1. PICK mode : mode = IF gomba.mode = "LEFT" THEN "RIGHT" ELSE "LEFT"
    OBVIOUS
  <2>2. Bounce(w) = [w EXCEPT !.mode = Head(mode).mode, !.xm = Head(mode).xm]
    BY <1>5, <2>1 DEF Bounce
  <2>3. Bounce(w).mode = Head(mode).mode /\ Bounce(w).xm = Head(mode).xm
    BY <1>2, <1>3, <2>2 DEF Creature
  <2> QED
    BY <1>1, <1>3, <2>1, <2>3, HeadType
<1>6. CASE ~(AgainstPipe(w.xm) /\ (gomba.mode = "LEFT" <=> Negative(w.xm)))
  <2>1. GombaNext = w
    BY <1>1, <1>3, <1>6 DEF Bounce
  <2> QED
    BY <1>4, <1>6, <2>1, GombaNumbers DEF GombaType, Paces
<1> QED
  BY <1>5, <1>6

\* A frame of a living gomba, in numbers.
LEMMA InPenKept ==
  ASSUME GombaType, Pen, ~gomba_dead, GombaFrame, gomba.x >= process,
         process \in Word, process + Screen <= Modulus
  PROVE  /\ InPen(gomba'.x, gomba'.xm)
         /\ \/ gomba'.mode = "LEFT" /\ gomba'.xm = 0 /\ gomba'.x = GombaStart
            \/ gomba'.mode = "LEFT" /\ gomba'.xm = Neg(Pace)
            \/ gomba'.mode = "RIGHT" /\ gomba'.xm \in {Pace, Step}
<1> DEFINE x == gomba.x
           m == Signed(gomba.xm)
           x1 == gomba'.x
           m1 == Signed(gomba'.xm)
<1>1. /\ ~disappear /\ gomba.y = Ground /\ InPen(x, gomba.xm)
      /\ gomba.xm \in Paces /\ x \in Word
      /\ \/ gomba.mode = "LEFT" /\ gomba.xm = 0 /\ x = GombaStart
         \/ gomba.mode = "LEFT" /\ gomba.xm = Neg(Pace)
         \/ gomba.mode = "RIGHT" /\ gomba.xm \in {Pace, Step}
  BY DEF Pen, GombaType, Creature
<1>2. x1 = x + m
  <2>1. x1 = Clamp(Add(x, gomba.xm), XMax)
    BY <1>1, GombaFrameType
  <2>2. Add(x, gomba.xm) = x + m /\ x + m <= XMax
    BY <1>1, RoomInPen, SumInPen
  <2>3. x + m \in Int
    BY <1>1, SignedPaces, PenNumbers, ArenaNumbers DEF Paces, Word
  <2> QED
    BY <2>1, <2>2, <2>3, PenNumbers DEF Clamp
<1>3. \/ /\ gomba'.mode = "LEFT" /\ gomba'.xm = Neg(Pace)
         /\ gomba.mode = "LEFT" => ~AgainstPipe(Neg(Pace))
      \/ /\ gomba'.mode = "RIGHT" /\ gomba'.xm = Pace
         /\ gomba.mode = "RIGHT" => ~AgainstPipe(Pace)
      \/ /\ gomba'.mode = "RIGHT" /\ gomba'.xm = Step
         /\ gomba.mode = "RIGHT" => ~AgainstPipe(Step)
         /\ gomba.mode = "LEFT" => x = process
      \/ /\ gomba'.mode = "LEFT" /\ gomba'.xm = 0
         /\ gomba.mode = "LEFT" /\ gomba.xm = 0 /\ x = GombaStart
  <2>1. gomba.mode \in {"LEFT", "RIGHT"} /\ gomba'.mode = GombaNext.mode /\ gomba'.xm = GombaNext.xm
    BY <1>1, GombaFrameType
  <2> QED
    BY <1>1, <2>1, NextWay, GombaNumbers
<1>4. x \in Nat /\ process \in Nat /\ (x = process => x + Screen <= Modulus)
  BY <1>1, ArenaNumbers DEF Word
<1>5. /\ gomba.xm = 0 => m = 0
      /\ gomba.xm = Pace => m = Pace
      /\ gomba.xm = Step => m = Step
      /\ gomba.xm = Neg(Pace) => m = -Pace
      /\ gomba'.xm = 0 => m1 = 0
      /\ gomba'.xm = Pace => m1 = Pace
      /\ gomba'.xm = Step => m1 = Step
      /\ gomba'.xm = Neg(Pace) => m1 = -Pace
  BY SignedPaces
<1>6. ASSUME NEW e \in Pipes, e < GombaStart
      PROVE  x1 + Pace >= e + PipeWidth /\ (gomba'.xm = Neg(Pace) => x1 >= e + PipeWidth)
  <2>1. /\ x + Pace >= e + PipeWidth
        /\ gomba.xm = Neg(Pace) => x >= e + PipeWidth
        /\ e + PipeWidth <= GombaStart /\ e \in Nat
    BY <1>1, <1>6, PenAssumption, PenNumbers DEF InPen
  <2>2. 2 * Step + 2 < PipeWidth + GombaSize
    BY PenAssumption
  <2>3. CASE gomba.mode = "LEFT" /\ gomba.xm = 0 /\ x = GombaStart
    BY <1>2, <1>4, <1>5, <2>1, <2>3, PenNumbers
  <2>4. CASE gomba.mode = "RIGHT" /\ gomba.xm \in {Pace, Step}
    BY <1>2, <1>4, <1>5, <2>1, <2>4, PenNumbers
  <2>5. CASE gomba.mode = "LEFT" /\ gomba.xm = Neg(Pace)
    <3>1. gomba'.xm = Neg(Pace) => ~AgainstPipe(Neg(Pace))
      BY <1>3, <2>5, GombaNumbers
    <3>2. ~AgainstPipe(Neg(Pace)) => \/ x - Pace + GombaSize <= e + 2
                                     \/ x - Pace >= e + PipeWidth
      <4>1. Neg(Pace) \in Paces /\ Signed(Neg(Pace)) = -Pace
        BY SignedPaces DEF Paces
      <4>2. ~AgainstPipe(Neg(Pace)) => \/ x + (-Pace) + GombaSize <= e + 2
                                       \/ x + (-Pace) >= e + PipeWidth
        BY <1>1, <1>6, <4>1, FreeAhead
      <4> QED
        BY <1>4, <4>2, PenNumbers
    <3> QED
      BY <1>2, <1>4, <1>5, <2>1, <2>2, <2>5, <3>1, <3>2, PenNumbers
  <2> QED
    BY <1>1, <2>3, <2>4, <2>5
<1>7. ASSUME NEW e \in Pipes, ~(e < GombaStart)
      PROVE  x1 + GombaSize <= e + 2 + Step /\ x1 + m1 + GombaSize <= e + 2 + Step
  <2>1. /\ x + GombaSize <= e + 2 + Step /\ x + m + GombaSize <= e + 2 + Step
        /\ GombaStart + GombaSize <= e + 2 /\ Modulus - Screen + GombaSize <= e + 2
        /\ e \in Nat
    BY <1>1, <1>7, PenAssumption, PenNumbers DEF InPen
  <2>2. 2 * Step + 2 < PipeWidth + GombaSize
    BY PenAssumption
  <2>3. CASE gomba.mode = "LEFT"
    BY <1>1, <1>2, <1>3, <1>4, <1>5, <2>1, <2>3, PenNumbers
  <2>4. CASE gomba.mode = "RIGHT"
    <3>1. /\ ~AgainstPipe(Pace) => x + Pace + GombaSize <= e + 2 \/ x + Pace >= e + PipeWidth
          /\ ~AgainstPipe(Step) => x + Step + GombaSize <= e + 2 \/ x + Step >= e + PipeWidth
      <4>1. Pace \in Paces /\ Step \in Paces /\ Signed(Pace) = Pace /\ Signed(Step) = Step
        BY SignedPaces DEF Paces
      <4> QED
        BY <1>1, <1>7, <4>1, FreeAhead
    <3>2. /\ ~AgainstPipe(Pace) => x + Pace + GombaSize <= e + 2
          /\ ~AgainstPipe(Step) => x + Step + GombaSize <= e + 2
      BY <1>4, <2>1, <2>2, <3>1, PenNumbers
    <3>3. m \in {Pace, Step}
      BY <1>1, <1>5, <2>4
    <3> QED
      BY <1>2, <1>3, <1>4, <1>5, <2>1, <2>4, <3>2, <3>3, PenNumbers
  <2> QED
    BY <1>1, <2>3, <2>4
<1>8. InPen(x1, gomba'.xm)
  BY <1>6, <1>7 DEF InPen
<1> QED
  BY <1>1, <1>2, <1>3, <1>4, <1>5, <1>8, PenNumbers

LEMMA PenStart == InPen(GombaStart, 0)
BY PenAssumption, PenNumbers, SignedPaces, GombaNumbers DEF InPen

LEMMA PenKept ==
  ASSUME GombaType, PlayersType, Scrolled, Pen, [GombaStep]_varsWithGomba
  PROVE  Pen'
<1>1. CASE GombaPlayersFrame
  <2>1. GombaFrame /\ Settled /\ (gomba_dead' <=> gomba_dead)
    BY <1>1 DEF GombaPlayersFrame
  <2>2. CASE ~gomba_dead
    <3>1. ~disappear /\ gomba.y = Ground /\ gomba.mode \in {"LEFT", "RIGHT"}
      BY <2>2 DEF Pen
    <3>2. gomba.x >= process
      BY <2>1, <2>2 DEF Settled
    <3>3. process \in Word /\ process + Screen <= Modulus
      BY DEF PlayersType, Scrolled
    <3>4. ~disappear' /\ gomba'.y = Ground
      BY <2>1, <3>1, GombaFrameType DEF GombaFrame
    <3> QED
      BY <2>1, <2>2, <3>2, <3>3, <3>4, InPenKept DEF Pen
  <2> QED
    BY <2>1, <2>2 DEF Pen
<1>2. CASE Clock
  <2>1. ~gomba_dead' => ~gomba_dead
    BY <1>2 DEF Clock, Collisions
  <2> QED
    BY <1>2, <2>1, VanishType DEF Clock, Pen
<1>3. CASE GombaReset
  BY <1>3, AtStartType, PenStart DEF GombaReset, Pen
<1>4. CASE UNCHANGED varsWithGomba
  BY <1>4 DEF varsWithGomba, gombaVars, Pen
<1> QED
  BY <1>1, <1>2, <1>3, <1>4 DEF GombaStep

LEMMA PenSuffices == GombaType /\ Pen => Penned
<1>1. GombaType => gomba.x \in Nat
  BY ArenaNumbers DEF GombaType, Creature, Word
<1> QED
  BY <1>1, PenNumbers DEF Pen, InPen, Penned

PenInv == PlayersType /\ Scrolled /\ GombaType /\ Pen

LEMMA PenInvariant ==
  /\ GombaInit => PenInv
  /\ PenInv /\ [GombaStep]_varsWithGomba => PenInv'
<1>1. GombaInit => PenInv
  BY InitKept, AtStartType, PenStart DEF GombaInit, Init, PenInv, GombaType, Pen, Paces
<1>2. PenInv /\ [GombaStep]_varsWithGomba => PenInv'
  BY GombaPlayersSteps, TypeKept, ScrolledKept, GombaTypeKept, PenKept DEF PenInv
<1> QED
  BY <1>1, <1>2

\* A living gomba never walks more than a step into the pipes it started
\* between, however the players draw it from side to side and the screen's
\* edge pushes it, although the air walls are one motion ahead of the
\* position (gomba.sv).
THEOREM GombaStaysPenned == GombaSpec => []Penned
<1>1. PenInv => Penned
  BY PenSuffices DEF PenInv
<1> QED
  BY <1>1, PenInvariant, PTL DEF GombaSpec

(***************************************************************************)
(* Under Mario's feet, beside a Luigi nobody moves.                        *)
(***************************************************************************)
\* Luigi stands on the far side of the pen's left pipe, which keeps the gomba
\* out of his reach. In the code: 80 + 26 + 1 <= 100 + 62.
BehindPipe ==
  /\ Unattended
  /\ \E e \in Pipes : e < GombaStart /\ LuigiStart + Width + Pace <= e + PipeWidth

LuigiLives == luigi_dead = FALSE /\ luigi = AtRest(LuigiStart)

LEMMA LuigiLivesKept ==
  ASSUME BehindPipe, PlayersType, GombaType, Pen, LuigiLives, [GombaStep]_varsWithGomba
  PROVE  LuigiLives'
<1>1. CASE GombaPlayersFrame
  BY <1>1, LuigiRests DEF GombaPlayersFrame, deathVars, LuigiLives, BehindPipe
<1>2. CASE Clock
  <2>1. luigi' = luigi /\ luigi_dead' = (luigi_dead \/ Killed(luigi, luigi_dead))
    BY <1>2 DEF Clock, Collisions, playerVars
  <2>2. ~Killed(luigi, luigi_dead)
    <3>1. SUFFICES ASSUME Touches(luigi), ~gomba_dead PROVE FALSE
      BY DEF Killed
    <3>2. PICK e \in Pipes : e < GombaStart /\ LuigiStart + Width + Pace <= e + PipeWidth
      BY DEF BehindPipe
    <3>3. gomba.x + Pace >= e + PipeWidth
      BY <3>1, <3>2 DEF Pen, InPen
    <3>4. gomba.x < Add(LuigiStart, Width)
      BY <3>1, AtRestType, ArenaNumbers DEF Touches, LuigiLives
    <3>5. Add(LuigiStart, Width) <= LuigiStart + Width /\ Add(LuigiStart, Width) \in Nat
      BY AddBounds, ArenaNumbers
    <3>6. gomba.x \in Nat /\ LuigiStart \in Nat /\ Width \in Nat
      BY ArenaNumbers DEF GombaType, Creature, Word
    <3> QED
      BY <3>2, <3>3, <3>4, <3>5, <3>6, PenNumbers
  <2> QED
    BY <2>1, <2>2 DEF LuigiLives
<1>3. CASE GombaReset
  BY <1>3 DEF GombaReset, Reset, PlayersReset, LuigiLives
<1>4. CASE UNCHANGED varsWithGomba
  BY <1>4 DEF varsWithGomba, vars, playerVars, deathVars, LuigiLives
<1> QED
  BY <1>1, <1>2, <1>3, <1>4 DEF GombaStep

FallInv ==
  PenInv /\ AboveGround /\ MarioFlies /\ LuigiLives

LEMMA FallInvariant ==
  ASSUME BehindPipe, FlightFits
  PROVE  /\ GombaInit => FallInv
         /\ FallInv /\ [GombaStep]_varsWithGomba => FallInv'
<1>1. GombaInit => FallInv
  <2>1. ASSUME GombaInit PROVE MarioFlies /\ LuigiLives
    <3>1. PlayersInit /\ luigi_dead = FALSE
      BY <2>1 DEF GombaInit, Init
    <3>2. mario.mode = "STAND" /\ mario.ym = 0 /\ mario.y = Ground
      BY <3>1, AtRestType, ArenaNumbers DEF PlayersInit
    <3> QED
      BY <3>1, <3>2 DEF PlayersInit, MarioFlies, Heights, LuigiLives
  <2> QED
    BY <2>1, PenInvariant, InitKept DEF FallInv, GombaInit, Init
<1>2. ASSUME FallInv, [GombaStep]_varsWithGomba PROVE FallInv'
  <2>1. PlayersStep /\ PlayersType /\ AboveGround /\ MarioFlies /\ Unattended
        /\ GombaType /\ Pen /\ LuigiLives
    BY <1>2, GombaPlayersSteps DEF FallInv, PenInv, BehindPipe
  <2>2. LuigiWaits
    BY <2>1 DEF LuigiLives, LuigiWaits
  <2>3. AboveGround' /\ MarioFlies'
    BY <2>1, <2>2, AboveGroundKept, MarioFliesKept
  <2>4. LuigiLives'
    BY <1>2, <2>1, LuigiLivesKept
  <2> QED
    BY <1>2, <2>3, <2>4, PenInvariant DEF FallInv
<1> QED
  BY <1>1, <1>2

\* Mario in the air above the gomba, one frame on.
LEMMA MarioFallsOnGomba ==
  ASSUME FlightFits, FallInv, GombaPlayersFrame, Above(mario), ~mario_dead, Touches(mario)'
  PROVE  Stomps(mario, mario_dead)'
<1>1. PICK k \in Pressed : MarioFrame(k[1]) /\ LuigiFrame(k[2])
  BY DEF GombaPlayersFrame, PlayersFrame
<1>2. PlayersType /\ GombaType /\ AboveGround /\ MarioFlies /\ LuigiLives
  BY DEF FallInv, PenInv
<1>3. luigi.y = Ground /\ luigi.mode # "DIE" /\ mario.mode = "IN_AIR"
  BY <1>2, AtRestType, ArenaNumbers DEF LuigiLives, Above
<1>4. FrameOf(k) /\ k[1] \in Keys
  BY <1>1, <1>2, FrameParts, PressedKeys
<1>5. /\ Fit(mario) /\ mario \in Player /\ luigi \in Player /\ mario' \in Player
      /\ mario.y <= Ground
  BY <1>2, <1>3, <1>4 DEF PlayersType, Fit, AboveGround, FrameOf, Follows
<1>6. /\ Height \in Nat /\ Ground \in Nat /\ PipeTop \in Nat /\ Modulus \in Nat
      /\ Height \in Word /\ mario.y \in Nat /\ mario'.y \in Nat /\ mario'.y \in Word
      /\ mario.ym \in Word /\ mario'.ym \in Word
  BY <1>5, ArenaNumbers DEF Word, Player
<1>7. gomba.y = Ground /\ gomba'.y = Ground /\ mario.y + Height <= Ground
  <2>1. gomba'.y = gomba.y
    BY <1>2, GombaFrameType DEF GombaPlayersFrame
  <2> QED
    BY <1>2, <1>6, <2>1 DEF GombaType, Above, FlightFits
<1>8. mario'.y > Ground - Height
  <2>1. Ground < Add(mario'.y, Height)
    BY <1>7 DEF Touches
  <2>2. Add(mario'.y, Height) <= mario'.y + Height /\ Add(mario'.y, Height) \in Nat
    BY <1>6, AddBounds
  <2> QED
    BY <1>6, <2>1, <2>2
<1>9. PICK v \in Int : Flight(mario, v)
  BY <1>2, <1>3 DEF MarioFlies
<1>10. /\ Foot(mario) = mario.y + v /\ Foot(mario) >= Ceiling /\ v < Height
       /\ Add(mario.ym, 1) = MotionOf(v + 1)
  <2>1. v # Height /\ v <= Height
    BY <1>5, <1>6, <1>7, <1>9, FlightArithmetic DEF Flight
  <2> QED
    BY <1>5, <1>6, <1>9, <2>1, FlightArithmetic
<1>11. mario'.y = NextY(mario, luigi)
  BY <1>4 DEF FrameOf
<1>12. InAir(mario, luigi)
  <2>1. SUFFICES ASSUME ~InAir(mario, luigi) PROVE FALSE
    OBVIOUS
  <2>2. Foot(mario) < Ground
    BY <1>6, <1>7, <1>9, <1>10
  <2>3. mario'.y \in {PipeTop, Ground - Height}
    BY <1>3, <1>11, <2>1, <2>2, HeadAltitude DEF NextY, InAir, Altitude
  <2> QED
    BY <1>6, <1>8, <2>3 DEF FlightFits
<1>13. v > 0
  <2>1. mario'.y = mario.y + v
    BY <1>3, <1>10, <1>11, <1>12 DEF NextY
  <2> QED
    BY <1>6, <1>7, <1>8, <1>9, <2>1
<1>14. mario'.ym = Lift(mario)
  <2>1. mario' = Moved(mario, MarioNext(k[1]), luigi)
    BY <1>1 DEF MarioFrame
  <2>2. Follows(MarioNext(k[1]), mario, k[1])
    BY <1>4, <1>5, MarioFollows
  <2>3. mario'.ym = MarioNext(k[1]).ym
    BY <1>5, <2>1, <2>2, MovedFollows
  <2> QED
    BY <1>3, <1>4, <1>5, <1>12, <2>3, MarioMotion
<1>15. mario'.ym = v + 1
  <2>1. ~(Foot(mario) < Ceiling)
    BY <1>5, <1>10, FootType, ArenaNumbers DEF Word
  <2> QED
    BY <1>9, <1>10, <1>13, <1>14, <2>1 DEF Lift, MotionOf
<1>16. Downward(mario)'
  BY <1>6, <1>9, <1>10, <1>13, <1>15 DEF Downward, Negative, FlightFits
<1>17. ~mario_dead'
  BY DEF GombaPlayersFrame, deathVars
<1> QED
  BY <1>16, <1>17 DEF Stomps

\* Who jumps on the gomba kills it: Mario in free flight above it who touches
\* it a frame later is moving downwards then, and collision.sv takes it for a
\* stomp and not for his death.  Luigi, whom nobody moves, is never above it.
THEOREM FallIsStomp == BehindPipe /\ FlightFits => (GombaSpec => FallOnGombaStomps)
<1> SUFFICES ASSUME BehindPipe, FlightFits PROVE GombaSpec => FallOnGombaStomps
  OBVIOUS
<1> DEFINE Stomp ==
      GombaPlayersFrame =>
        /\ (Above(mario) /\ ~mario_dead /\ Touches(mario)') => Stomps(mario, mario_dead)'
        /\ (Above(luigi) /\ ~luigi_dead /\ Touches(luigi)') => Stomps(luigi, luigi_dead)'
<1>1. FallInv /\ [GombaStep]_varsWithGomba => [Stomp]_varsWithGomba
  <2>1. FallInv => ~Above(luigi)
    <3>1. LuigiLives => luigi.mode = "STAND"
      BY AtRestType, ArenaNumbers DEF LuigiLives
    <3> QED
      BY <3>1 DEF FallInv, Above
  <2> QED
    BY <2>1, MarioFallsOnGomba
<1>2. (GombaInit => FallInv) /\ (FallInv /\ [GombaStep]_varsWithGomba => FallInv')
  BY FallInvariant
<1>3. FallOnGombaStomps <=> [][Stomp]_varsWithGomba
  BY DEF FallOnGombaStomps
<1> QED
  BY <1>1, <1>2, <1>3, PTL DEF GombaSpec

(***************************************************************************)
(* The players in the two games.                                           *)
(***************************************************************************)
LEMMA WithGombaIsAGame == GombaSpec => AnyGame
<1>1. GombaInit => PlayersInit
  BY DEF GombaInit, Init
<1>2. [GombaStep]_varsWithGomba => [PlayersMove]_playerVars
  BY GombaPlayersSteps DEF PlayersStep, PlayersMove
<1> QED
  BY <1>1, <1>2, PTL DEF GombaSpec, AnyGame

\* The gomba and the collisions leave the players' own promises alone.
THEOREM PlayersBesideGomba ==
  /\ GombaSpec => []AboveGround /\ []ScreenInLevel
  /\ MaxKeys = 1 => (GombaSpec => []OnePressOneJump)
  /\ Unattended => (GombaSpec => []StandingLuigiOnScreen)
  /\ Unattended /\ FlightFits /\ RoomBeside => (GombaSpec => []PlayersKeepApart)
<1>1. GombaSpec => []AboveGround /\ []ScreenInLevel
  BY WithGombaIsAGame, NobodySinks, ScreenStaysInLevel, PTL
<1>2. ASSUME MaxKeys = 1 PROVE GombaSpec => []OnePressOneJump
  <2>1. AnyGame => []OnePressOneJump
    BY <1>2, HeldKeyJumpsOnce
  <2> QED
    BY <2>1, WithGombaIsAGame, PTL
<1>3. ASSUME Unattended PROVE GombaSpec => []StandingLuigiOnScreen
  <2>1. AnyGame => []StandingLuigiOnScreen
    BY <1>3, LuigiStaysOnScreen
  <2> QED
    BY <2>1, WithGombaIsAGame, PTL
<1>4. ASSUME Unattended, FlightFits, RoomBeside PROVE GombaSpec => []PlayersKeepApart
  <2>1. AnyGame => []PlayersKeepApart
    BY <1>4, PlayersStayApart
  <2> QED
    BY <2>1, WithGombaIsAGame, PTL
<1> QED
  BY <1>1, <1>2, <1>3, <1>4

(***************************************************************************)
(* The coins.                                                              *)
(***************************************************************************)
CoinType ==
  coin \in [CoinStarts -> [x : Word, y : Word, state : {"SPIN", "EAT"}, eaten : BOOLEAN]]

LEMMA CoinNextType ==
  ASSUME CoinType, NEW c \in CoinStarts
  PROVE  /\ CoinNext(c) \in [x : Word, y : Word, state : {"SPIN", "EAT"}, eaten : BOOLEAN]
         /\ ~coin_alive[c] => CoinNext(c).state = "EAT"
BY DEF CoinType, CoinNext, Spin, Eat

LEMMA PutType ==
  ASSUME CoinType, NEW c \in CoinStarts
  PROVE  Put(c) \in [x : Word, y : Word, state : {"SPIN", "EAT"}, eaten : BOOLEAN]
BY MotionWords DEF CoinType, Put

LEMMA CoinTypeInvariant ==
  /\ CoinInit => CoinType
  /\ CoinType /\ [CoinStep]_varsWithCoins => CoinType'
<1>1. NewCoins \in [CoinStarts -> [x : Word, y : Word, state : {"SPIN", "EAT"}, eaten : BOOLEAN]]
  BY CoinAssumption DEF NewCoins
<1>2. CoinInit => CoinType
  BY <1>1 DEF CoinInit, CoinType
<1>3. ASSUME CoinType, [CoinStep]_varsWithCoins PROVE CoinType'
  <2>1. CASE CoinFrame
    BY <1>3, <2>1, CoinNextType DEF CoinFrame, CoinType
  <2>2. CASE CoinClock
    BY <1>3, <2>2, PutType DEF CoinClock, CoinType
  <2>3. CASE CoinKill
    BY <1>3, <2>3 DEF CoinKill, coinVars, CoinType
  <2>4. CASE CoinReset
    BY <1>1, <2>4 DEF CoinReset, CoinType
  <2>5. CASE UNCHANGED varsWithCoins
    BY <1>3, <2>5 DEF varsWithCoins, coinVars, CoinType
  <2> QED
    BY <1>3, <2>1, <2>2, <2>3, <2>4, <2>5 DEF CoinStep
<1> QED
  BY <1>2, <1>3

\* coin_alive of a coin somebody touches has settled at 0.
LEMMA TouchedIsSettled ==
  ASSUME CoinSettled, NEW c \in CoinStarts, Touched(c)
  PROVE  ~coin_alive[c]
<1>1. coin_alive[c] = AliveIn(c)
  BY DEF CoinSettled
<1>2. CASE AtHeight(mario, c)
  <2>1. AliveIn(c) = ~AtColumn(mario, c)
    BY <1>2 DEF AliveIn
  <2> QED
    BY <1>1, <1>2, <2>1 DEF Touched
<1>3. CASE ~AtHeight(mario, c)
  <2>1. AtHeight(luigi, c) /\ AtColumn(luigi, c)
    BY <1>3 DEF Touched
  <2>2. AliveIn(c) = ~AtColumn(luigi, c)
    BY <1>3, <2>1 DEF AliveIn
  <2> QED
    BY <1>1, <2>1, <2>2
<1> QED
  BY <1>2, <1>3

\* A coin a player touches at a frame edge is taken in that frame: coin_alive
\* has settled between the frames, and the coin's own state machine sees it
\* before the player's next move can set it again (eat_coin.sv, coin.sv).
THEOREM CoinsAreTaken == CoinSpec => TouchedCoinIsTaken
<1> DEFINE Taken == Moves => \A c \in CoinStarts : Touched(c) => coin'[c].state = "EAT"
<1>1. CoinType /\ [CoinStep]_varsWithCoins => [Taken]_varsWithCoins
  <2>1. SUFFICES ASSUME CoinType, CoinStep, Moves, NEW c \in CoinStarts, Touched(c)
                 PROVE  coin'[c].state = "EAT"
    OBVIOUS
  <2>2. CoinFrame
    BY <2>1 DEF CoinStep, CoinClock, CoinKill, CoinReset, Kill, Reset, coinVars, Moves
  <2>3. coin'[c] = CoinNext(c)
    BY <2>2 DEF CoinFrame
  <2> QED
    BY <2>1, <2>2, <2>3, CoinNextType, TouchedIsSettled DEF CoinFrame
<1>2. TouchedCoinIsTaken <=> [][Taken]_varsWithCoins
  BY DEF TouchedCoinIsTaken
<1> QED
  BY <1>1, <1>2, CoinTypeInvariant, PTL DEF CoinSpec

\* The adder of score.sv extends each coin_alive to 3 bits before it inverts
\* it, so that a coin that is left counts 6 and a collected one 7; with the
\* circuit's seven coins, or with three, the sum is the number of collected
\* ones.  (With six or with eight coins it would not be.)
THEOREM ScoreIsCollected ==
  Cardinality(CoinStarts) \in {3, 7} => (CoinSpec => []ScoreCountsCollected)
<1> SUFFICES ASSUME Cardinality(CoinStarts) \in {3, 7}
             PROVE  CoinSpec => []ScoreCountsCollected
  OBVIOUS
<1>1. ScoreCountsCollected
  <2> DEFINE n == Cardinality(Collected)
             r == Cardinality(CoinStarts \ Collected)
  <2>1. IsFiniteSet(CoinStarts) /\ Collected \subseteq CoinStarts
    BY CoinAssumption DEF Collected
  <2>2. n \in Nat /\ n <= Cardinality(CoinStarts) /\ IsFiniteSet(Collected)
    BY <2>1, FS_Subset, FS_CardinalityType
  <2>3. r = Cardinality(CoinStarts) - Cardinality(CoinStarts \cap Collected)
    BY <2>1, FS_Difference
  <2>4. CoinStarts \cap Collected = Collected
    BY <2>1
  <2>5. r = Cardinality(CoinStarts) - n
    BY <2>3, <2>4
  <2> HIDE DEF n, r
  <2>6. score = (7 * n + 6 * r - 2) % 8
    BY DEF score, n, r
  <2>7. n \in 0 .. 7 /\ 7 * n + 6 * r - 2 \in {n + 16, n + 40}
        /\ (n + 16) % 8 = n /\ (n + 40) % 8 = n
    BY <2>2, <2>5
  <2>8. score = n
    BY <2>6, <2>7
  <2> QED
    BY <2>8 DEF ScoreCountsCollected, n
<1> QED
  BY <1>1, PTL
=============================================================================
