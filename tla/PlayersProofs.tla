----------------------------- MODULE PlayersProofs -----------------------------
(***************************************************************************)
(* Proofs about the players for every arena: the state machines of         *)
(* mario_d.sv and luigi.sv with their 10-bit sums, the scrolling and the   *)
(* register at_edge.  The lemmas are about a frame, a reset, or a step     *)
(* that leaves the players alone (PlayersStep), so that they serve every   *)
(* specification the players are composed with.                            *)
(***************************************************************************)
EXTENDS Players, TLAPS, FiniteSetTheorems

PlayersStep == PlayersFrame \/ PlayersReset \/ UNCHANGED playerVars

LEMMA ArenaNumbers ==
  /\ Modulus \in Nat /\ Modulus > 0 /\ Pipes \subseteq Word
  /\ XMax \in Word /\ YMax \in Word /\ Ground \in Word /\ PipeTop \in Word
  /\ PipeWidth \in Word /\ Width \in Word /\ Height \in Word /\ Step \in Word
  /\ Jump \in Word /\ Ceiling \in Word /\ Screen \in Word /\ ScrollAt \in Word
  /\ ScrollMax \in Word /\ MarioStart \in Word /\ LuigiStart \in Word
  /\ PipeTop < Ground /\ Ground <= YMax /\ Step > 0 /\ 2 * Step < Modulus
BY ArenaAssumption, PlayersAssumption DEF Word

(***************************************************************************)
(* The arithmetic of words.                                                *)
(***************************************************************************)
\* A sum of two words is reduced at most once.
LEMMA SumOfWords ==
  ASSUME NEW a \in Word, NEW b \in Word
  PROVE  /\ Add(a, b) = IF a + b < Modulus THEN a + b ELSE a + b - Modulus
         /\ Add(a, b) \in Word
<1>1. Modulus \in Nat /\ Modulus > 0
  BY ArenaNumbers
<1>2. \A n \in 0 .. 2 * Modulus - 1 : n % Modulus = IF n < Modulus THEN n ELSE n - Modulus
  BY <1>1
<1>3. a + b \in 0 .. 2 * Modulus - 1 /\ a \in Nat /\ b \in Nat
  BY <1>1 DEF Word
<1>4. Add(a, b) = IF a + b < Modulus THEN a + b ELSE a + b - Modulus
  BY <1>1, <1>2, <1>3 DEF Add
<1> QED
  BY <1>1, <1>3, <1>4 DEF Word

LEMMA AddBounds ==
  ASSUME NEW a \in Word
  PROVE  Add(a, 0) = a /\ \A b \in Word : Add(a, b) <= a + b /\ Add(a, b) \in Nat
<1>1. a \in Nat /\ a < Modulus /\ 0 \in Word /\ Modulus \in Nat
  BY ArenaNumbers DEF Word
<1>2. Add(a, 0) = a
  BY <1>1, SumOfWords
<1>3. ASSUME NEW b \in Word PROVE Add(a, b) <= a + b /\ Add(a, b) \in Nat
  <2>1. b \in Nat /\ b < Modulus
    BY <1>1 DEF Word
  <2> QED
    BY <1>1, <2>1, SumOfWords
<1> QED
  BY <1>2, <1>3

LEMMA NegOfWord ==
  ASSUME NEW a \in Word
  PROVE  Neg(a) = (IF a = 0 THEN 0 ELSE Modulus - a) /\ Neg(a) \in Word
<1>1. Modulus \in Nat /\ Modulus > 0 /\ a \in 0 .. Modulus - 1
  BY ArenaNumbers DEF Word
<1>2. Modulus % Modulus = 0 /\ \A n \in 0 .. Modulus - 1 : n % Modulus = n
  BY <1>1
<1>3. Neg(a) = IF a = 0 THEN 0 ELSE Modulus - a
  BY <1>1, <1>2 DEF Neg
<1> QED
  BY <1>1, <1>3 DEF Word

LEMMA ClampedWord ==
  ASSUME NEW v \in Word, NEW m \in Word
  PROVE  Clamp(v, m) \in Word /\ Clamp(v, m) <= m /\ Clamp(v, m) <= v
BY ArenaNumbers DEF Clamp, Word

(***************************************************************************)
(* What a frame makes of a player's registers.                             *)
(***************************************************************************)
Keys    == SUBSET {"w", "a", "d"}
Motions == {0, Step, Neg(Step)}

\* A player whose motion register holds a step or none.
Fit(p) == p \in Player /\ p.xm \in Motions

\* One press, one jump: a held key is remembered, and a jump starts without.
OneJump(p, held) == held => p.already_jump /\ p.mode # "JUMP"

\* q can follow p: a dead player stays dead, and with one key at a time the
\* memory of the held key is kept.
Follows(q, p, keys) ==
  /\ Fit(q) /\ (p.mode = "DIE" => q.mode = "DIE")
  /\ \A held \in BOOLEAN :
       OneJump(p, held) /\ ("w" \in keys => keys = {"w"}) => OneJump(q, Held(p, held, keys))

LEMMA MotionWords ==
  /\ Motions \subseteq Word /\ Neg(Step) = Modulus - Step /\ Neg(Step) \in Word
  /\ Neg(Step) # 0 /\ Neg(Step) # Step /\ Step # 0 /\ 0 \in Word
<1>1. Neg(Step) = Modulus - Step /\ Neg(Step) \in Word
  BY ArenaNumbers, NegOfWord
<1> QED
  BY <1>1, ArenaNumbers DEF Motions, Word

\* The form in which the states below show it: r remembers a key that p did.
LEMMA RemembersFollows ==
  ASSUME NEW p \in Player, NEW r \in Player, NEW keys \in Keys,
         r.xm \in Motions, p.mode # "DIE", p.mode # "JUMP",
         p.already_jump /\ keys = {"w"} => r.already_jump /\ r.mode # "JUMP"
  PROVE  Follows(r, p, keys)
BY DEF Follows, Fit, OneJump, Held

LEMMA DyingFollows ==
  ASSUME NEW p \in Player, NEW q \in Player, NEW keys \in Keys, p.mode # "JUMP",
         p.already_jump /\ "w" \in keys => q.already_jump
  PROVE  Follows(Dying(q), p, keys)
<1>1. Neg(Jump) \in Word /\ 0 \in Word
  BY ArenaNumbers, NegOfWord DEF Word
<1>2. Dying(q) \in Player /\ Dying(q).xm = 0 /\ Dying(q).mode = "DIE"
      /\ Dying(q).already_jump = q.already_jump
  BY <1>1 DEF Dying, Player, Modes
<1> QED
  BY <1>2 DEF Follows, Fit, Motions, OneJump, Held

LEMMA StandFollows ==
  ASSUME NEW p \in Player, NEW o, NEW keys \in Keys, NEW alive \in BOOLEAN, p.mode = "STAND"
  PROVE  Follows(Stand(p, keys, alive, o), p, keys)
<1> DEFINE still == [p EXCEPT !.xm = 0, !.ym = 0]
<1>0. still \in Player /\ still.xm = 0 /\ still.mode = "STAND" /\ still.already_jump = p.already_jump
  BY MotionWords DEF Player, Modes
<1>1. PICK q \in Player : /\ q = still /\ q.xm = 0 /\ q.mode = "STAND"
                          /\ q.already_jump = p.already_jump
  BY <1>0
<1>2. CASE ~alive
  <2>1. Stand(p, keys, alive, o) = Dying(q)
    BY <1>1, <1>2 DEF Stand
  <2> QED
    BY <1>1, <2>1, DyingFollows
<1>3. CASE alive /\ "w" \in keys /\ ~p.already_jump
  <2>1. Stand(p, keys, alive, o) = [q EXCEPT !.mode = "JUMP", !.already_jump = TRUE]
    BY <1>1, <1>3 DEF Stand
  <2> QED
    BY <1>1, <1>3, <2>1 DEF Follows, Fit, Motions, OneJump, Held, Player, Modes
<1>4. CASE alive /\ ~("w" \in keys /\ ~p.already_jump) /\ ("a" \in keys \/ "d" \in keys)
  <2>1. PICK side \in {"L", "R"} :
          Stand(p, keys, alive, o)
            = [q EXCEPT !.mode = "RUN", !.side = side, !.already_jump = FALSE]
    BY <1>1, <1>4 DEF Stand
  <2> DEFINE r == [q EXCEPT !.mode = "RUN", !.side = side, !.already_jump = FALSE]
  <2>2. r \in Player /\ r.xm = 0
    BY <1>1 DEF Player, Modes
  <2> HIDE DEF r
  <2>3. r = Stand(p, keys, alive, o) /\ 0 \in Motions
    BY <2>1 DEF r, Motions
  <2>4. keys # {"w"}
    BY <1>4
  <2> QED
    BY <2>2, <2>3, <2>4, RemembersFollows
<1>5. CASE alive /\ ~("w" \in keys /\ ~p.already_jump) /\ "a" \notin keys
           /\ "d" \notin keys
  <2>1. Stand(p, keys, alive, o)
          \in {[q EXCEPT !.already_jump = FALSE], [q EXCEPT !.mode = "IN_AIR"], q}
        /\ ("w" \in keys => Stand(p, keys, alive, o) \in {[q EXCEPT !.mode = "IN_AIR"], q})
    BY <1>1, <1>5 DEF Stand
  <2>2. CASE Stand(p, keys, alive, o) = [q EXCEPT !.mode = "IN_AIR"]
    BY <1>1, <2>2 DEF Follows, Fit, Motions, OneJump, Held, Player, Modes
  <2>3. CASE Stand(p, keys, alive, o) = q
    BY <1>1, <2>3 DEF Follows, Fit, Motions, OneJump, Held, Player, Modes
  <2>4. CASE Stand(p, keys, alive, o) = [q EXCEPT !.already_jump = FALSE] /\ "w" \notin keys
    BY <1>1, <2>4 DEF Follows, Fit, Motions, OneJump, Held, Player, Modes
  <2> QED
    BY <2>1, <2>2, <2>3, <2>4
<1> QED
  BY <1>2, <1>3, <1>4, <1>5

LEMMA RunFollows ==
  ASSUME NEW p \in Player, NEW o, NEW keys \in Keys, NEW alive \in BOOLEAN,
         NEW xm \in Motions, p.mode = "RUN"
  PROVE  Follows(Run(p, xm, keys, alive, o), p, keys)
<1> DEFINE still == [p EXCEPT !.xm = xm, !.ym = 0, !.already_jump = @ /\ "w" \in keys]
<1>0. still \in Player /\ still.xm = xm /\ still.mode = "RUN" /\ (still.already_jump <=> p.already_jump /\ "w" \in keys)
  BY MotionWords DEF Player, Modes
<1>1. PICK q \in Player : /\ q = still /\ q.xm = xm /\ q.mode = "RUN"
                          /\ (q.already_jump <=> p.already_jump /\ "w" \in keys)
  BY <1>0
<1>2. CASE ~alive
  <2>1. Run(p, xm, keys, alive, o) = Dying(q)
    BY <1>1, <1>2 DEF Run
  <2> QED
    BY <1>1, <2>1, DyingFollows
<1>3. CASE alive
  <2>1. \/ Run(p, xm, keys, alive, o)
             \in {[q EXCEPT !.mode = "IN_AIR"], q, [q EXCEPT !.mode = "STAND"]}
        \/ /\ Run(p, xm, keys, alive, o) = [q EXCEPT !.mode = "JUMP", !.already_jump = TRUE]
           /\ ~p.already_jump
    BY <1>1, <1>3 DEF Run
  <2>2. CASE Run(p, xm, keys, alive, o) = [q EXCEPT !.mode = "IN_AIR"]
    BY <1>1, <2>2 DEF Follows, Fit, OneJump, Held, Player, Modes
  <2>3. CASE Run(p, xm, keys, alive, o) = q
    BY <1>1, <2>3 DEF Follows, Fit, OneJump, Held, Player, Modes
  <2>4. CASE Run(p, xm, keys, alive, o) = [q EXCEPT !.mode = "STAND"]
    BY <1>1, <2>4 DEF Follows, Fit, OneJump, Held, Player, Modes
  <2>5. CASE /\ Run(p, xm, keys, alive, o) = [q EXCEPT !.mode = "JUMP", !.already_jump = TRUE]
             /\ ~p.already_jump
    BY <1>1, <2>5 DEF Follows, Fit, OneJump, Held, Player, Modes
  <2> QED
    BY <2>1, <2>2, <2>3, <2>4, <2>5
<1> QED
  BY <1>2, <1>3

LEMMA TakeOffFollows ==
  ASSUME NEW p, Fit(p), NEW keys \in Keys, p.mode = "JUMP"
  PROVE  Follows(TakeOff(p), p, keys)
<1>1. Neg(Jump) \in Word
  BY ArenaNumbers, NegOfWord
<1> QED
  BY <1>1 DEF TakeOff, Follows, Fit, OneJump, Held, Player, Modes

LEMMA LiftType == ASSUME NEW p \in Player PROVE Lift(p) \in Word
<1>1. p.ym \in Word /\ 1 \in Word
  BY ArenaNumbers DEF Player, Word
<1> QED
  BY <1>1, NegOfWord, SumOfWords DEF Lift

LEMMA FlyFollows ==
  ASSUME NEW p \in Player, NEW o, NEW keys \in Keys, NEW alive \in BOOLEAN,
         NEW xm \in Motions, p.mode = "IN_AIR"
  PROVE  Follows(Fly(p, xm, keys, alive, o), p, keys)
<1> DEFINE still == [p EXCEPT !.xm = xm, !.already_jump = TRUE]
<1>0. still \in Player /\ still.xm = xm /\ still.mode = "IN_AIR" /\ still.already_jump
  BY MotionWords DEF Player, Modes
<1>1. PICK q \in Player : /\ q = still /\ q.xm = xm /\ q.mode = "IN_AIR"
                          /\ q.already_jump
  BY <1>0
<1>2. CASE ~alive
  <2>1. Fly(p, xm, keys, alive, o) = Dying(q)
    BY <1>1, <1>2 DEF Fly
  <2> QED
    BY <1>1, <2>1, DyingFollows
<1>3. CASE alive /\ InAir(p, o)
  <2>1. Fly(p, xm, keys, alive, o) = [q EXCEPT !.ym = Lift(p)]
    BY <1>1, <1>3 DEF Fly
  <2>2. [q EXCEPT !.ym = Lift(p)] \in Player
    BY LiftType DEF Player
  <2> QED
    <3>1. [q EXCEPT !.ym = Lift(p)].mode = "IN_AIR" /\ [q EXCEPT !.ym = Lift(p)].xm = xm
          /\ [q EXCEPT !.ym = Lift(p)].already_jump
      BY <1>1 DEF Player
    <3> QED
      BY <2>1, <2>2, <3>1, RemembersFollows
<1>4. CASE alive /\ ~InAir(p, o)
  <2>1. PICK side \in {"L", "R"} :
          Fly(p, xm, keys, alive, o)
            = [q EXCEPT !.mode = "GLIDE", !.side = side, !.ym = 0,
                        !.already_jump = KeyAtLanding(keys)]
    BY <1>1, <1>4 DEF Fly
  <2>2. KeyAtLanding(keys) \in BOOLEAN /\ (KeyAtLanding(keys) <=> "w" \in keys)
    BY DEF KeyAtLanding
  <2> DEFINE r == [q EXCEPT !.mode = "GLIDE", !.side = side, !.ym = 0,
                            !.already_jump = KeyAtLanding(keys)]
  <2>3. r \in Player /\ r.xm = xm /\ r.mode = "GLIDE" /\ r.already_jump = KeyAtLanding(keys)
    BY <1>1, <2>2, MotionWords DEF Player, Modes
  <2> HIDE DEF r
  <2>4. r = Fly(p, xm, keys, alive, o)
    BY <2>1 DEF r
  <2> QED
    BY <2>2, <2>3, <2>4, RemembersFollows
<1> QED
  BY <1>2, <1>3, <1>4

LEMMA AfterGlideFollows ==
  ASSUME NEW p, Fit(p)
  PROVE  /\ AfterGlide(p) \in Player /\ AfterGlide(p).xm = p.xm
         /\ AfterGlide(p).mode \in {"STAND", "RUN"}
         /\ AfterGlide(p).already_jump = p.already_jump
BY MotionWords DEF AfterGlide, Fit, Motions, Player, Modes

LEMMA FallFollows ==
  ASSUME NEW p, Fit(p), NEW keys \in Keys, p.mode = "DIE"
  PROVE  Follows(Fall(p), p, keys)
<1>1. p.ym \in Word /\ 1 \in Word
  BY ArenaNumbers DEF Fit, Player, Word
<1>2. Add(p.ym, 1) \in Word
  BY <1>1, SumOfWords
<1> QED
  BY <1>2 DEF Fall, Follows, Fit, OneJump, Held, Player, Modes

LEMMA SteerType ==
  ASSUME NEW p, Fit(p), NEW keys, NEW leftmost, NEW screen
  PROVE  Steer(p, keys, leftmost, screen) \in Motions
BY DEF Steer, Fit, Motions

(***************************************************************************)
(* Where a frame puts a player.                                            *)
(***************************************************************************)
LEMMA FootType == ASSUME NEW p \in Player PROVE Foot(p) \in Word
BY SumOfWords DEF Foot, Player

LEMMA AltitudeType ==
  ASSUME NEW p \in Player, NEW o \in Player
  PROVE  Altitude(p, o) \in Word /\ Altitude(p, o) <= Ground
<1>1. Foot(p) \in Word /\ Add(o.y, Neg(Height)) \in Word
  BY FootType, ArenaNumbers, NegOfWord, SumOfWords DEF Player
<1>2. OnHead(p, o) => Add(o.y, Neg(Height)) <= Foot(p) /\ Foot(p) < Ground
  BY DEF OnHead
<1> QED
  BY <1>1, <1>2, ArenaNumbers DEF Altitude, Word

\* A player stays in the level's words, and a living one above the ground.
LEMMA NextYType ==
  ASSUME NEW p \in Player, NEW o \in Player
  PROVE  NextY(p, o) \in Word /\ (p.mode # "DIE" => NextY(p, o) <= Ground)
<1>1. Foot(p) \in Word
  BY FootType
<1>2. CASE p.mode = "DIE"
  BY <1>1, <1>2, ClampedWord, ArenaNumbers DEF NextY
<1>3. CASE p.mode # "DIE" /\ InAir(p, o)
  BY <1>1, <1>3, ArenaNumbers DEF NextY, InAir, Word
<1>4. CASE p.mode # "DIE" /\ ~InAir(p, o)
  BY <1>4, AltitudeType DEF NextY
<1> QED
  BY <1>2, <1>3, <1>4

LEMMA NextXType ==
  ASSUME NEW p \in Player, NEW o \in Player
  PROVE  /\ NextX(p, o) \in Word
         /\ NextX(p, o) \in {p.x, Clamp(Add(p.x, p.xm), XMax)}
<1>1. p.x \in Word /\ Clamp(Add(p.x, p.xm), XMax) \in Word
  BY SumOfWords, ClampedWord, ArenaNumbers DEF Player
<1> QED
  BY <1>1 DEF NextX

\* The position registers change beside the state machine.
LEMMA MovedFollows ==
  ASSUME NEW p \in Player, NEW o \in Player, NEW keys, NEW q, Follows(q, p, keys)
  PROVE  /\ Follows(Moved(p, q, o), p, keys)
         /\ Moved(p, q, o).x = NextX(p, o) /\ Moved(p, q, o).y = NextY(p, o)
         /\ Moved(p, q, o).xm = q.xm /\ Moved(p, q, o).ym = q.ym
         /\ Moved(p, q, o).mode = q.mode
<1>1. q \in Player /\ q.xm \in Motions /\ (p.mode = "DIE" => q.mode = "DIE")
  BY DEF Follows, Fit
<1>2. NextX(p, o) \in Word /\ NextY(p, o) \in Word
  BY NextXType, NextYType
<1>3. PICK r : r = Moved(p, q, o)
  OBVIOUS
<1>4. /\ r \in Player /\ r.x = NextX(p, o) /\ r.y = NextY(p, o)
      /\ r.xm = q.xm /\ r.ym = q.ym /\ r.mode = q.mode /\ r.already_jump = q.already_jump
  BY <1>1, <1>2, <1>3 DEF Moved, Player
<1>5. Follows(r, p, keys)
  BY <1>1, <1>4 DEF Follows, Fit, OneJump
<1> QED
  BY <1>3, <1>4, <1>5

(***************************************************************************)
(* A frame of Mario and a frame of Luigi.                                  *)
(***************************************************************************)
LEMMA MarioFollows ==
  ASSUME Fit(mario), NEW keys \in Keys
  PROVE  Follows(MarioNext(keys), mario, keys)
<1>1. mario \in Player /\ mario.xm \in Motions /\ mario.mode \in Modes
  BY DEF Fit, Player
<1>2. CASE mario.mode = "STAND"
  BY <1>1, <1>2, StandFollows DEF MarioNext
<1>3. CASE mario.mode = "RUN"
  <2>1. MarioRunMotion(keys) \in Motions
    BY DEF MarioRunMotion, Motions
  <2> QED
    BY <1>1, <1>3, <2>1, RunFollows DEF MarioNext
<1>4. CASE mario.mode = "JUMP"
  BY <1>4, TakeOffFollows DEF MarioNext
<1>5. CASE mario.mode = "IN_AIR"
  <2>1. MarioAirMotion(keys) \in Motions
    BY SteerType DEF MarioAirMotion, Motions
  <2> QED
    BY <1>1, <1>5, <2>1, FlyFollows DEF MarioNext
<1>6. CASE mario.mode = "GLIDE"
  <2>1. PICK q : q = [mario EXCEPT !.ym = 0]
    OBVIOUS
  <2>2. /\ Fit(q) /\ q \in Player /\ q.mode = "GLIDE"
        /\ q.already_jump = mario.already_jump
    BY <1>1, <1>6, <2>1, MotionWords DEF Fit, Player, Modes
  <2>3. CASE mario_dead
    BY <1>1, <1>6, <2>1, <2>2, <2>3, DyingFollows DEF MarioNext, MarioGlide
  <2>4. CASE ~mario_dead /\ (AtLevelEnd \/ (mario.side = "L" /\ AtLeftEdge))
    <3>1. MarioNext(keys) = [q EXCEPT !.xm = 0]
      BY <1>6, <2>1, <2>4 DEF MarioNext, MarioGlide
    <3>2. PICK r : r = [q EXCEPT !.xm = 0]
      OBVIOUS
    <3>3. r \in Player /\ r.xm = 0 /\ r.mode = "GLIDE" /\ r.already_jump = q.already_jump
      BY <2>2, <3>2, MotionWords DEF Player
    <3>4. r.xm \in Motions
      BY <3>3 DEF Motions
    <3> QED
      BY <1>1, <1>6, <2>2, <3>1, <3>2, <3>3, <3>4, RemembersFollows
  <2>5. CASE ~mario_dead /\ ~(AtLevelEnd \/ (mario.side = "L" /\ AtLeftEdge))
    <3>1. MarioNext(keys) = AfterGlide(q)
      BY <1>6, <2>1, <2>5 DEF MarioNext, MarioGlide
    <3>2. /\ AfterGlide(q) \in Player /\ AfterGlide(q).xm \in Motions
          /\ AfterGlide(q).mode # "JUMP" /\ AfterGlide(q).already_jump = mario.already_jump
      BY <2>2, AfterGlideFollows DEF Fit
    <3> QED
      BY <1>1, <1>6, <3>1, <3>2, RemembersFollows
  <2> QED
    BY <2>3, <2>4, <2>5
<1>7. CASE mario.mode = "DIE"
  BY <1>7, FallFollows DEF MarioNext
<1> QED
  BY <1>1, <1>2, <1>3, <1>4, <1>5, <1>6, <1>7 DEF Modes

LEMMA LuigiFollows ==
  ASSUME Fit(luigi), NEW keys \in Keys
  PROVE  Follows(LuigiNext(keys), luigi, keys)
<1>1. luigi \in Player /\ luigi.xm \in Motions /\ luigi.mode \in Modes
  BY DEF Fit, Player
<1>2. CASE luigi.mode = "STAND"
  BY <1>1, <1>2, StandFollows DEF LuigiNext
<1>3. CASE luigi.mode = "RUN"
  <2>1. LuigiRunMotion(keys) \in Motions
    BY DEF LuigiRunMotion, Motions
  <2> QED
    BY <1>1, <1>3, <2>1, RunFollows DEF LuigiNext
<1>4. CASE luigi.mode = "JUMP"
  BY <1>4, TakeOffFollows DEF LuigiNext
<1>5. CASE luigi.mode = "IN_AIR"
  <2>1. LuigiAirMotion(keys) \in Motions
    BY SteerType DEF LuigiAirMotion
  <2> QED
    BY <1>1, <1>5, <2>1, FlyFollows DEF LuigiNext
<1>6. CASE luigi.mode = "GLIDE"
  <2>1. CASE luigi_dead
    BY <1>1, <1>6, <2>1, DyingFollows DEF LuigiNext, LuigiGlide
  <2>2. CASE ~luigi_dead
    <3>1. PICK q : q = AfterGlide(luigi)
      OBVIOUS
    <3>2. /\ q \in Player /\ q.xm \in Motions
          /\ q.mode # "JUMP" /\ q.already_jump = luigi.already_jump
      BY <3>1, AfterGlideFollows DEF Fit
    <3>3. PICK xm \in Motions : LuigiNext(keys) = [q EXCEPT !.xm = xm]
      BY <1>6, <2>2, <3>1, <3>2 DEF LuigiNext, LuigiGlide, Motions
    <3>4. PICK r : r = [q EXCEPT !.xm = xm]
      OBVIOUS
    <3>5. r \in Player /\ r.xm = xm /\ r.mode = q.mode /\ r.already_jump = q.already_jump
      BY <3>2, <3>4, MotionWords DEF Player
    <3> QED
      BY <1>1, <1>6, <3>2, <3>3, <3>4, <3>5, RemembersFollows
  <2> QED
    BY <2>1, <2>2
<1>7. CASE luigi.mode = "DIE"
  BY <1>7, FallFollows DEF LuigiNext
<1> QED
  BY <1>1, <1>2, <1>3, <1>4, <1>5, <1>6, <1>7 DEF Modes

(***************************************************************************)
(* The two players together.                                               *)
(***************************************************************************)
PlayersType ==
  /\ Fit(mario) /\ Fit(luigi)
  /\ process \in Word /\ at_edge \in BOOLEAN
  /\ mario_held \in BOOLEAN /\ luigi_held \in BOOLEAN

\* At every step of the scrolling the screen lies in the level.
Scrolled == \E n \in Nat : process = n * Step /\ process + Screen <= Modulus

OneJumpEach == OneJump(mario, mario_held) /\ OneJump(luigi, luigi_held)

\* A frame with the keys k, in the terms of the lemmas above.
FrameOf(k) ==
  /\ Follows(mario', mario, k[1]) /\ Follows(luigi', luigi, k[2])
  /\ mario'.x = NextX(mario, luigi) /\ mario'.y = NextY(mario, luigi)
  /\ luigi'.x = NextX(luigi, mario) /\ luigi'.y = NextY(luigi, mario)
  /\ mario_held' = Held(mario, mario_held, k[1])
  /\ luigi_held' = Held(luigi, luigi_held, k[2])

LEMMA AtRestType ==
  ASSUME NEW x \in Word
  PROVE  /\ Fit(AtRest(x)) /\ AtRest(x).x = x /\ AtRest(x).y = Ground
         /\ AtRest(x).xm = 0 /\ AtRest(x).ym = 0 /\ AtRest(x).mode = "STAND"
         /\ ~AtRest(x).already_jump
BY ArenaNumbers, MotionWords DEF AtRest, Fit, Player, Modes, Motions

LEMMA PressedKeys ==
  ASSUME NEW k \in Pressed
  PROVE  k[1] \in Keys /\ k[2] \in Keys
BY PlayersAssumption DEF Pressed, Keys

LEMMA FrameParts ==
  ASSUME PlayersType, NEW k \in Pressed, MarioFrame(k[1]), LuigiFrame(k[2])
  PROVE  FrameOf(k)
<1>1. k[1] \in Keys /\ k[2] \in Keys
  BY PressedKeys
<1>2. Fit(mario) /\ Fit(luigi) /\ mario \in Player /\ luigi \in Player
  BY DEF PlayersType, Fit
<1>3. Follows(MarioNext(k[1]), mario, k[1]) /\ Follows(LuigiNext(k[2]), luigi, k[2])
  BY <1>1, <1>2, MarioFollows, LuigiFollows
<1>4. /\ mario' = Moved(mario, MarioNext(k[1]), luigi)
      /\ luigi' = Moved(luigi, LuigiNext(k[2]), mario)
      /\ mario_held' = Held(mario, mario_held, k[1])
      /\ luigi_held' = Held(luigi, luigi_held, k[2])
  BY DEF MarioFrame, LuigiFrame
<1> QED
  BY <1>2, <1>3, <1>4, MovedFollows DEF FrameOf

LEMMA FrameKept ==
  ASSUME PlayersType, PlayersFrame
  PROVE  PlayersType' /\ \E k \in Pressed : FrameOf(k)
<1>1. PICK k \in Pressed : MarioFrame(k[1]) /\ LuigiFrame(k[2])
  BY DEF PlayersFrame
<1>2. FrameOf(k)
  BY <1>1, FrameParts
<1>3. Fit(mario') /\ Fit(luigi')
  BY <1>2 DEF FrameOf, Follows
<1>4. process' \in Word
  BY <1>1, SumOfWords, MotionWords DEF MarioFrame, PlayersType, Fit
<1>5. at_edge' \in BOOLEAN
  <2>1. luigi.mode \in Modes /\ at_edge \in BOOLEAN
    BY DEF PlayersType, Fit, Player
  <2>2. at_edge' = NextAtEdge(k[2])
    BY <1>1 DEF LuigiFrame
  <2>3. LuigiAtProcess \in BOOLEAN
    BY DEF LuigiAtProcess
  <2> QED
    BY <2>1, <2>2, <2>3 DEF NextAtEdge, Modes
<1>6. mario_held' \in BOOLEAN /\ luigi_held' \in BOOLEAN
  BY <1>2 DEF FrameOf, Held
<1> QED
  BY <1>2, <1>3, <1>4, <1>5, <1>6 DEF PlayersType

LEMMA ResetKept ==
  ASSUME PlayersReset
  PROVE  /\ PlayersType' /\ AboveGround' /\ Scrolled' /\ OneJumpEach'
<1>1. MarioStart \in Word /\ LuigiStart \in Word /\ Ground \in Int /\ 0 \in Word
  BY ArenaNumbers, MotionWords DEF Word
<1>2. Fit(mario') /\ Fit(luigi') /\ mario'.y = Ground /\ luigi'.y = Ground
  BY <1>1, AtRestType DEF PlayersReset
<1>3. PlayersType' /\ OneJumpEach'
  BY <1>1, <1>2 DEF PlayersReset, PlayersType, OneJumpEach, OneJump
<1>4. AboveGround'
  BY <1>1, <1>2 DEF AboveGround
<1>5. process' = 0 * Step /\ process' + Screen <= Modulus
  BY ArenaNumbers DEF PlayersReset, Word
<1> QED
  BY <1>3, <1>4, <1>5 DEF Scrolled

LEMMA InitKept ==
  ASSUME PlayersInit
  PROVE  /\ PlayersType /\ AboveGround /\ Scrolled /\ OneJumpEach
<1>1. MarioStart \in Word /\ LuigiStart \in Word /\ Ground \in Int /\ 0 \in Word
  BY ArenaNumbers, MotionWords DEF Word
<1>2. Fit(mario) /\ Fit(luigi) /\ mario.y = Ground /\ luigi.y = Ground
  BY <1>1, AtRestType DEF PlayersInit
<1>3. PlayersType /\ OneJumpEach
  BY <1>1, <1>2 DEF PlayersInit, PlayersType, OneJumpEach, OneJump
<1>4. AboveGround
  BY <1>1, <1>2 DEF AboveGround
<1>5. process = 0 * Step /\ process + Screen <= Modulus
  BY ArenaNumbers DEF PlayersInit, Word
<1> QED
  BY <1>3, <1>4, <1>5 DEF Scrolled

LEMMA TypeKept ==
  ASSUME PlayersType, PlayersStep
  PROVE  PlayersType'
<1>1. CASE PlayersFrame
  BY <1>1, FrameKept
<1>2. CASE PlayersReset
  BY <1>2, ResetKept
<1>3. CASE UNCHANGED playerVars
  BY <1>3 DEF playerVars, PlayersType
<1> QED
  BY <1>1, <1>2, <1>3 DEF PlayersStep

LEMMA AboveGroundKept ==
  ASSUME PlayersType, AboveGround, PlayersStep
  PROVE  AboveGround'
<1>1. CASE PlayersFrame
  <2>1. PICK k \in Pressed : FrameOf(k)
    BY <1>1, FrameKept
  <2>2. mario \in Player /\ luigi \in Player
    BY DEF PlayersType, Fit
  <2>3. /\ mario'.mode # "DIE" => mario.mode # "DIE" /\ mario'.y = NextY(mario, luigi)
        /\ luigi'.mode # "DIE" => luigi.mode # "DIE" /\ luigi'.y = NextY(luigi, mario)
    BY <2>1 DEF FrameOf, Follows
  <2> QED
    BY <2>2, <2>3, NextYType DEF AboveGround
<1>2. CASE PlayersReset
  BY <1>2, ResetKept
<1>3. CASE UNCHANGED playerVars
  BY <1>3 DEF playerVars, AboveGround
<1> QED
  BY <1>1, <1>2, <1>3 DEF PlayersStep

\* With one key at a time, "w" is alone when it is down.
LEMMA OneKey ==
  ASSUME MaxKeys = 1, NEW k \in Pressed
  PROVE  ("w" \in k[1] => k[1] = {"w"}) /\ ("w" \in k[2] => k[2] = {"w"})
<1>1. /\ k[1] \subseteq {"w", "a", "d"} /\ k[2] \subseteq {"w", "a", "d"}
      /\ Cardinality(k[1]) + Cardinality(k[2]) <= 1
  BY PlayersAssumption DEF Pressed
<1>2. IsFiniteSet({"w", "a", "d"})
  <2>1. IsFiniteSet({"w"})
    BY FS_Singleton
  <2>2. IsFiniteSet({"w"} \cup {"a"})
    BY <2>1, FS_AddElement
  <2>3. IsFiniteSet(({"w"} \cup {"a"}) \cup {"d"})
    BY <2>2, FS_AddElement
  <2>4. ({"w"} \cup {"a"}) \cup {"d"} = {"w", "a", "d"}
    OBVIOUS
  <2> QED
    BY <2>3, <2>4
<1>3. /\ IsFiniteSet(k[1]) /\ IsFiniteSet(k[2])
      /\ Cardinality(k[1]) \in Nat /\ Cardinality(k[2]) \in Nat
  BY <1>1, <1>2, FS_Subset, FS_CardinalityType
<1>4. \A S : IsFiniteSet(S) /\ Cardinality(S) <= 1 /\ "w" \in S => S = {"w"}
  <2>1. SUFFICES ASSUME NEW S, IsFiniteSet(S), Cardinality(S) <= 1, "w" \in S
                 PROVE  S = {"w"}
    OBVIOUS
  <2>2. Cardinality({"w"}) = 1 /\ IsFiniteSet({"w"}) /\ {"w"} \subseteq S
    BY <2>1, FS_Singleton
  <2>3. Cardinality({"w"}) <= Cardinality(S) /\ Cardinality(S) \in Nat
        /\ (Cardinality(S) = Cardinality({"w"}) => S = {"w"})
    BY <2>1, <2>2, FS_Subset, FS_CardinalityType
  <2> QED
    BY <2>1, <2>2, <2>3
<1> QED
  BY <1>1, <1>3, <1>4

LEMMA OneJumpKept ==
  ASSUME MaxKeys = 1, PlayersType, OneJumpEach, PlayersStep
  PROVE  OneJumpEach'
<1>1. CASE PlayersFrame
  <2>1. PICK k \in Pressed : FrameOf(k)
    BY <1>1, FrameKept
  <2>2. ("w" \in k[1] => k[1] = {"w"}) /\ ("w" \in k[2] => k[2] = {"w"})
    BY OneKey
  <2> QED
    BY <2>1, <2>2 DEF FrameOf, Follows, OneJumpEach, PlayersType
<1>2. CASE PlayersReset
  BY <1>2, ResetKept
<1>3. CASE UNCHANGED playerVars
  BY <1>3 DEF playerVars, OneJumpEach
<1> QED
  BY <1>1, <1>2, <1>3 DEF PlayersStep

LEMMA ScrolledKept ==
  ASSUME PlayersType, Scrolled, PlayersStep
  PROVE  Scrolled'
<1>1. CASE PlayersFrame
  <2>1. process' = IF Scrolls THEN Add(process, mario.xm) ELSE process
    BY <1>1 DEF PlayersFrame, MarioFrame
  <2>2. PICK n \in Nat : process = n * Step /\ process + Screen <= Modulus
    BY DEF Scrolled
  <2>3. process \in Word /\ mario.xm \in Motions
    BY DEF PlayersType, Fit
  <2>4. CASE ~Scrolls \/ mario.xm = 0
    <3>1. Add(process, 0) = process
      BY <2>3, AddBounds
    <3>2. process' = process
      BY <2>1, <2>4, <3>1
    <3> QED
      BY <2>2, <3>2 DEF Scrolled
  <2>5. CASE Scrolls /\ mario.xm = Step
    <3>1. n * Step < ScrollMax /\ n <= n * Step /\ (n + 1) * Step = n * Step + Step
      BY <2>2, <2>5, ArenaNumbers DEF Scrolls, Word
    <3>2. n \in 0 .. ScrollMax
      BY <3>1, <2>2, ArenaNumbers DEF Word
    <3>3. process + Step + Screen <= Modulus
      BY <2>2, <3>1, <3>2, ScreenAssumption
    <3>4. process' = IF process + Step < Modulus THEN process + Step
                                                 ELSE process + Step - Modulus
      BY <2>1, <2>3, <2>5, SumOfWords, ArenaNumbers
    <3>5. \/ process' = (n + 1) * Step /\ process' + Screen <= Modulus
          \/ process' = 0 * Step /\ process' + Screen <= Modulus
      BY <2>2, <2>3, <3>1, <3>3, <3>4, ArenaNumbers DEF Word
    <3> QED
      BY <3>5, n + 1 \in Nat DEF Scrolled
  <2>6. CASE Scrolls /\ mario.xm = Neg(Step)
    <3>1. Negative(Neg(Step))
      BY MotionWords, ArenaNumbers DEF Negative, Word
    <3> QED
      BY <2>6, <3>1 DEF Scrolls
  <2> QED
    BY <2>3, <2>4, <2>5, <2>6 DEF Motions
<1>2. CASE PlayersReset
  BY <1>2, ResetKept
<1>3. CASE UNCHANGED playerVars
  BY <1>3 DEF playerVars, Scrolled
<1> QED
  BY <1>1, <1>2, <1>3 DEF PlayersStep

(***************************************************************************)
(* The theorems are about the players in any game: whatever kills them,    *)
(* and whatever else happens between two frames.                           *)
(***************************************************************************)
PlayersMove == PlayersFrame \/ PlayersReset
AnyGame     == PlayersInit /\ [][PlayersMove]_playerVars

LEMMA GameSteps == ASSUME [PlayersMove]_playerVars PROVE PlayersStep
BY DEF PlayersMove, PlayersStep

LEMMA PlayersTypeCorrect == AnyGame => []PlayersType
<1>1. PlayersInit => PlayersType
  BY InitKept
<1>2. PlayersType /\ [PlayersMove]_playerVars => PlayersType'
  BY GameSteps, TypeKept
<1> QED
  BY <1>1, <1>2, PTL DEF AnyGame

\* Whatever pipes, heads and 10-bit sums a player meets, and whichever keys
\* are down, it is never below the ground while it lives (mario_d.sv and
\* luigi.sv, altitude and the position registers).
THEOREM NobodySinks == AnyGame => []AboveGround
<1>1. PlayersInit => AboveGround
  BY InitKept
<1>2. PlayersType /\ AboveGround /\ [PlayersMove]_playerVars => AboveGround'
  BY GameSteps, AboveGroundKept
<1> QED
  BY <1>1, <1>2, PlayersTypeCorrect, PTL DEF AnyGame

\* The scrolling register stays a multiple of the step and stops before the
\* screen's right edge leaves the level, although it is compared with its
\* limit before Mario's step is added (mario_d.sv, process).
THEOREM ScreenStaysInLevel == AnyGame => []ScreenInLevel
<1>1. PlayersInit => Scrolled
  BY InitKept
<1>2. PlayersType /\ Scrolled /\ [PlayersMove]_playerVars => Scrolled'
  BY GameSteps, ScrolledKept
<1>3. Scrolled => ScreenInLevel
  BY DEF Scrolled, ScreenInLevel
<1> QED
  BY <1>1, <1>2, <1>3, PlayersTypeCorrect, PTL DEF AnyGame

\* With one key at a time, as main.c passes them on, a key that stays down
\* from the take-off on starts no second jump, through flight, landing,
\* walking and standing (already_jump in both state machines).
THEOREM HeldKeyJumpsOnce == MaxKeys = 1 => (AnyGame => []OnePressOneJump)
<1> SUFFICES ASSUME MaxKeys = 1 PROVE AnyGame => []OnePressOneJump
  OBVIOUS
<1>1. PlayersInit => OneJumpEach
  BY InitKept
<1>2. PlayersType /\ OneJumpEach /\ [PlayersMove]_playerVars => OneJumpEach'
  BY GameSteps, OneJumpKept
<1>3. OneJumpEach => OnePressOneJump
  BY DEF OneJumpEach, OneJump, OnePressOneJump
<1> QED
  BY <1>1, <1>2, <1>3, PlayersTypeCorrect, PTL DEF AnyGame

(***************************************************************************)
(* A Luigi nobody moves, who starts on a column the scrolling can reach.   *)
(***************************************************************************)
Unattended ==
  /\ LuigiMoves = {} /\ LuigiStart <= XMax
  /\ \E n \in Nat : LuigiStart = n * Step

\* He stands where he started until he dies,
LuigiWaits == luigi.mode # "DIE" => luigi = AtRest(LuigiStart)

\* and at_edge, one frame late, stops the scrolling within a step of him.
EdgeSeen ==
  luigi.mode # "DIE" => /\ process <= LuigiStart + Step
                        /\ ~at_edge => process <= LuigiStart

LEMMA StandStill ==
  ASSUME NEW x \in Word, x <= XMax, NEW o \in Player
  PROVE  /\ NextX(AtRest(x), o) = x /\ NextY(AtRest(x), o) = Ground
         /\ Stand(AtRest(x), {}, TRUE, o) = AtRest(x)
         /\ Stand(AtRest(x), {}, FALSE, o).mode = "DIE"
<1>1. PICK p : p = AtRest(x)
  OBVIOUS
<1>2. /\ p \in Player /\ p.x = x /\ p.y = Ground /\ p.xm = 0 /\ p.ym = 0
      /\ p.mode = "STAND" /\ ~p.already_jump
  BY <1>1, AtRestType DEF Fit
<1>3. Add(p.x, p.xm) = x /\ Foot(p) = Ground
  BY <1>2, AddBounds, ArenaNumbers DEF Foot
<1>4. ~InAir(p, o) /\ ~OnPipe(p) /\ ~OnHead(p, o)
  BY <1>3, ArenaNumbers DEF InAir, OnPipe, OnHead, Word
<1>5. NextY(p, o) = Ground
  BY <1>2, <1>4 DEF NextY, Altitude
<1>6. Clamp(x, XMax) = x
  BY ArenaNumbers DEF Clamp, Word
<1>7. NextX(p, o) = x
  BY <1>2, <1>3, <1>6 DEF NextX
<1>8. Stand(p, {}, TRUE, o) = p
  <2>1. [p EXCEPT !.xm = 0, !.ym = 0] = p
    BY <1>2 DEF Player
  <2>2. p.already_jump = FALSE
    BY <1>2 DEF Player
  <2>3. [p EXCEPT !.already_jump = FALSE] = p
    BY <1>2, <2>2 DEF Player
  <2> QED
    BY <2>1, <2>3 DEF Stand
<1>9. Stand(p, {}, FALSE, o).mode = "DIE"
  <2>1. [p EXCEPT !.xm = 0, !.ym = 0] = p
    BY <1>2 DEF Player
  <2> QED
    BY <1>2, <2>1 DEF Stand, Dying, Player
<1> QED
  BY <1>1, <1>5, <1>7, <1>8, <1>9

LEMMA LuigiRests ==
  ASSUME Unattended, PlayersType, luigi = AtRest(LuigiStart), PlayersFrame
  PROVE  IF luigi_dead THEN luigi'.mode = "DIE" ELSE luigi' = AtRest(LuigiStart)
<1>1. PICK k \in Pressed : MarioFrame(k[1]) /\ LuigiFrame(k[2])
  BY DEF PlayersFrame
<1>2. k[2] = {}
  BY DEF Pressed, Unattended
<1>3. mario \in Player /\ luigi \in Player /\ LuigiStart \in Word /\ LuigiStart <= XMax
  BY ArenaNumbers DEF Unattended, PlayersType, Fit
<1>4. /\ NextX(luigi, mario) = LuigiStart /\ NextY(luigi, mario) = Ground
      /\ luigi.mode = "STAND"
      /\ Stand(luigi, {}, TRUE, mario) = luigi
      /\ Stand(luigi, {}, FALSE, mario).mode = "DIE"
  BY <1>3, StandStill, AtRestType
<1>5. luigi' = Moved(luigi, Stand(luigi, {}, ~luigi_dead, mario), mario)
  BY <1>1, <1>2, <1>4 DEF LuigiFrame, LuigiNext
<1>6. CASE luigi_dead
  <2>1. {} \in Keys /\ (~luigi_dead) \in BOOLEAN
    BY DEF Keys
  <2>2. Follows(Stand(luigi, {}, ~luigi_dead, mario), luigi, {})
    BY <1>3, <1>4, <2>1, StandFollows
  <2>3. luigi'.mode = Stand(luigi, {}, ~luigi_dead, mario).mode
    BY <1>3, <1>5, <2>1, <2>2, MovedFollows
  <2> QED
    BY <1>4, <1>6, <2>1, <2>3
<1>7. CASE ~luigi_dead
  <2>1. luigi' = [luigi EXCEPT !.x = LuigiStart, !.y = Ground]
    BY <1>4, <1>5, <1>7 DEF Moved
  <2> QED
    BY <1>7, <2>1 DEF AtRest
<1> QED
  BY <1>6, <1>7

LEMMA LuigiWaitsKept ==
  ASSUME Unattended, PlayersType, LuigiWaits, PlayersStep
  PROVE  LuigiWaits'
<1>1. CASE PlayersFrame
  <2>1. luigi'.mode # "DIE" => luigi.mode # "DIE"
    BY <1>1, FrameKept DEF FrameOf, Follows
  <2> QED
    BY <1>1, <2>1, LuigiRests DEF LuigiWaits
<1>2. CASE PlayersReset
  BY <1>2 DEF PlayersReset, LuigiWaits
<1>3. CASE UNCHANGED playerVars
  BY <1>3 DEF playerVars, LuigiWaits
<1> QED
  BY <1>1, <1>2, <1>3 DEF PlayersStep

LEMMA EdgeSeenKept ==
  ASSUME Unattended, PlayersType, LuigiWaits, Scrolled, EdgeSeen, PlayersStep
  PROVE  EdgeSeen'
<1>1. CASE PlayersFrame
  <2>1. PICK k \in Pressed : MarioFrame(k[1]) /\ LuigiFrame(k[2])
    BY <1>1 DEF PlayersFrame
  <2>2. SUFFICES ASSUME luigi'.mode # "DIE"
                 PROVE  /\ process' <= LuigiStart + Step
                        /\ ~at_edge' => process' <= LuigiStart
    BY DEF EdgeSeen
  <2>3. luigi.mode # "DIE"
    BY <2>1, <2>2, FrameParts DEF FrameOf, Follows
  <2>4. luigi.mode = "STAND" /\ luigi.x = LuigiStart
    BY <2>3, ArenaNumbers, AtRestType DEF LuigiWaits
  <2>5. at_edge' <=> LuigiStart <= process
    BY <2>1, <2>4 DEF LuigiFrame, NextAtEdge, LuigiAtProcess
  <2>6. /\ process <= LuigiStart + Step /\ process \in Nat /\ LuigiStart \in Nat /\ Step \in Nat
        /\ ~at_edge => process <= LuigiStart
    BY <2>3, ArenaNumbers DEF EdgeSeen, PlayersType, Word
  <2>7. process < LuigiStart => process + Step <= LuigiStart
    <3>1. PICK n \in Nat : process = n * Step
      BY DEF Scrolled
    <3>2. PICK m \in Nat : LuigiStart = m * Step
      BY DEF Unattended
    <3>3. n < m => (n + 1) * Step <= m * Step /\ (n + 1) * Step = n * Step + Step
      BY <2>6
    <3>4. m <= n => m * Step <= n * Step
      BY <2>6
    <3> QED
      BY <2>6, <3>1, <3>2, <3>3, <3>4
  <2>8. process' = process \/ (~at_edge /\ process' <= process + Step)
    <3>1. process' = IF Scrolls THEN Add(process, mario.xm) ELSE process
      BY <2>1 DEF MarioFrame
    <3>2. Scrolls => ~at_edge /\ ~Negative(mario.xm)
      BY DEF Scrolls
    <3>3. mario.xm \in Motions /\ process \in Word
      BY DEF PlayersType, Fit
    <3>4. Negative(Neg(Step))
      BY MotionWords, ArenaNumbers DEF Negative, Word
    <3>5. mario.xm \in {0, Step} => Add(process, mario.xm) <= process + Step
      BY <2>6, <3>3, AddBounds, ArenaNumbers
    <3> QED
      BY <3>1, <3>2, <3>3, <3>4, <3>5 DEF Motions
  <2>9. process' \in Nat
    BY <1>1, FrameKept DEF PlayersType, Word
  <2> QED
    BY <2>5, <2>6, <2>7, <2>8, <2>9
<1>2. CASE PlayersReset
  BY <1>2, ArenaNumbers DEF PlayersReset, EdgeSeen, Word
<1>3. CASE UNCHANGED playerVars
  BY <1>3 DEF playerVars, EdgeSeen
<1> QED
  BY <1>1, <1>2, <1>3 DEF PlayersStep

LEMMA UnattendedInit ==
  ASSUME PlayersInit
  PROVE  LuigiWaits /\ EdgeSeen
BY ArenaNumbers DEF PlayersInit, LuigiWaits, EdgeSeen, Word

LEMMA EdgeSeenSuffices ==
  ASSUME LuigiWaits, EdgeSeen
  PROVE  StandingLuigiOnScreen
<1>1. luigi.mode = "STAND" => luigi.x = LuigiStart
  BY ArenaNumbers, AtRestType DEF LuigiWaits
<1> QED
  BY <1>1 DEF EdgeSeen, StandingLuigiOnScreen

\* A Luigi nobody moves is scrolled at most one step out of the screen: the
\* register at_edge is one frame late (luigi.sv), and one frame is one step.
THEOREM LuigiStaysOnScreen == Unattended => (AnyGame => []StandingLuigiOnScreen)
<1> SUFFICES ASSUME Unattended PROVE AnyGame => []StandingLuigiOnScreen
  OBVIOUS
<1> DEFINE Inv == PlayersType /\ Scrolled /\ LuigiWaits /\ EdgeSeen
<1>1. PlayersInit => Inv
  BY InitKept, UnattendedInit
<1>2. Inv /\ [PlayersMove]_playerVars => Inv'
  BY GameSteps, TypeKept, ScrolledKept, LuigiWaitsKept, EdgeSeenKept
<1>3. Inv => StandingLuigiOnScreen
  BY EdgeSeenSuffices
<1> QED
  BY <1>1, <1>2, <1>3, PTL DEF AnyGame

(***************************************************************************)
(* Mario's flight beside a Luigi nobody moves.  In the air the height y    *)
(* and the signed motion v change by y' = y + v and v' = v + 1, and so     *)
(* 2 * y - v * (v - 1) does not change.  It is least at a take-off from a  *)
(* pipe, which bounds the motion by a player's height: nobody falls        *)
(* through what holds him up between two frames.                           *)
(***************************************************************************)
Origin == 2 * PipeTop - Jump * (Jump + 1)

\* In the code: 32 * 33 > 2 * 64 + 15 * 16, and 2 * 320 - 15 * 16 >= 2 * 5.
FlightFits ==
  /\ Jump > 0 /\ 2 * Jump < Modulus /\ Height > 0 /\ 2 * (Height + 1) < Modulus
  /\ PipeTop + Height <= Ground /\ Ground + Height < Modulus
  /\ Height * (Height + 1) > 2 * (Ground - PipeTop) + Jump * (Jump + 1)
  /\ Origin >= 2 * Ceiling

\* There is room for a player on both sides of Luigi. In the code: 26 <= 80,
\* 80 + 52 <= 1024, 106 <= 1023 and 46 <= 82.
RoomBeside ==
  /\ Width <= LuigiStart /\ LuigiStart + 2 * Width <= Modulus
  /\ LuigiStart + Width <= XMax /\ MarioStart + Width <= LuigiStart + Step

MotionOf(v) == IF v < 0 THEN Modulus + v ELSE v
Heights     == {Ground, PipeTop, Ground - Height}

Flight(p, v) ==
  /\ v \in Int /\ -Jump <= v /\ v <= Height
  /\ p.ym = MotionOf(v) /\ 2 * p.y - v * (v - 1) >= Origin

MarioFlies ==
  luigi.mode # "DIE" =>
    /\ mario.mode \in {"STAND", "RUN", "JUMP", "GLIDE"} => mario.ym = 0 /\ mario.y \in Heights
    /\ mario.mode = "IN_AIR" => \E v \in Int : Flight(mario, v)

\* Where he comes down to the ground there is room for him.
MarioLandsApart ==
  (luigi.mode # "DIE" /\ mario.mode = "IN_AIR" /\ Foot(mario) >= Ground) => Apart(mario, luigi)

LEMMA FlightArithmetic ==
  ASSUME FlightFits, NEW p \in Player, p.y <= Ground, NEW v, Flight(p, v)
  PROVE  /\ Foot(p) = p.y + v /\ Foot(p) >= Ceiling
         /\ 2 * (p.y + v) - (v + 1) * v >= Origin
         /\ v = Height => Foot(p) >= Ground /\ p.y > Ground - Height
         /\ Add(p.ym, 1) = MotionOf(v + 1)
<1> DEFINE s == v * v
           j == Jump * (Jump + 1)
           h == Height * (Height + 1)
<1>1. /\ Jump \in Nat /\ Height \in Nat /\ Ground \in Nat /\ PipeTop \in Nat
      /\ Ceiling \in Nat /\ Modulus \in Nat /\ p.y \in Nat /\ p.y \in Word
      /\ p.ym \in Word /\ 1 \in Word
  BY ArenaNumbers DEF Word, Player, FlightFits
<1>2. v \in Int /\ -Jump <= v /\ v <= Height /\ p.ym = MotionOf(v)
  BY DEF Flight
<1>3. s \in Int /\ s >= v /\ s >= -v /\ v * (v - 1) = s - v /\ (v + 1) * v = s + v
  BY <1>2
<1>4. j \in Int /\ h \in Int /\ (v = Height => s = h - Height)
  BY <1>1
<1> HIDE DEF s, j, h
<1>5. /\ 2 * p.y - (s - v) >= 2 * PipeTop - j
      /\ h > 2 * (Ground - PipeTop) + j
      /\ 2 * PipeTop - j >= 2 * Ceiling
  BY <1>3 DEF Flight, FlightFits, Origin, h, j
<1>6. 2 * (p.y + v) - (s + v) >= 2 * PipeTop - j
  BY <1>1, <1>2, <1>3, <1>4, <1>5
<1>7. p.y + v >= Ceiling
  BY <1>1, <1>2, <1>3, <1>4, <1>5, <1>6
<1>8. p.y + v < Modulus
  BY <1>1, <1>2 DEF FlightFits
<1>9. Foot(p) = p.y + v
  BY <1>1, <1>2, <1>7, <1>8, SumOfWords DEF Foot, MotionOf
<1>10. v = Height => p.y + v >= Ground /\ p.y > Ground - Height
  BY <1>1, <1>2, <1>3, <1>4, <1>5, <1>6
<1>11. Add(p.ym, 1) = MotionOf(v + 1)
  <2>1. Add(p.ym, 1) = IF p.ym + 1 < Modulus THEN p.ym + 1 ELSE p.ym + 1 - Modulus
    BY <1>1, SumOfWords
  <2> QED
    BY <1>1, <1>2, <2>1 DEF MotionOf, FlightFits
<1>12. 2 * (p.y + v) - (v + 1) * v >= Origin
  BY <1>3, <1>6 DEF Origin, j
<1> QED
  BY <1>7, <1>9, <1>10, <1>11, <1>12

LEMMA HeadAltitude ==
  ASSUME FlightFits
  PROVE  Add(Ground, Neg(Height)) = Ground - Height
<1>1. Neg(Height) = Modulus - Height /\ Neg(Height) \in Word /\ Ground \in Word
  BY NegOfWord, ArenaNumbers DEF FlightFits
<1> QED
  BY <1>1, SumOfWords, ArenaNumbers DEF FlightFits, Word

\* Off the air a player comes to one of the heights.
LEMMA AltitudeHeights ==
  ASSUME FlightFits, NEW p \in Player, NEW o, o.y = Ground
  PROVE  Altitude(p, o) \in Heights
BY HeadAltitude DEF Altitude, Heights

LEMMA HeldUp ==
  ASSUME FlightFits, NEW p \in Player, NEW o, o.y = Ground,
         p.mode # "DIE", p.ym = 0, p.y \in Heights
  PROVE  NextY(p, o) \in Heights
<1>1. Foot(p) = p.y
  BY AddBounds DEF Foot, Player
<1> QED
  BY <1>1, AltitudeHeights DEF NextY

(***************************************************************************)
(* The upward motion each state leaves behind.                             *)
(***************************************************************************)
LEMMA StandMotion ==
  ASSUME NEW p \in Player, NEW o, NEW keys, NEW alive, p.mode = "STAND"
  PROVE  \/ Stand(p, keys, alive, o).mode = "DIE"
         \/ Stand(p, keys, alive, o).ym = 0
<1> DEFINE still == [p EXCEPT !.xm = 0, !.ym = 0]
<1>0. still \in Player /\ still.ym = 0
  BY MotionWords DEF Player
<1>1. PICK q \in Player : q = still /\ q.ym = 0
  BY <1>0
<1>2. \/ Stand(p, keys, alive, o) = Dying(q)
      \/ Stand(p, keys, alive, o) = [q EXCEPT !.mode = "JUMP", !.already_jump = TRUE]
      \/ Stand(p, keys, alive, o) = [q EXCEPT !.mode = "RUN", !.side = "L", !.already_jump = FALSE]
      \/ Stand(p, keys, alive, o) = [q EXCEPT !.mode = "RUN", !.side = "R", !.already_jump = FALSE]
      \/ Stand(p, keys, alive, o) = [q EXCEPT !.already_jump = FALSE]
      \/ Stand(p, keys, alive, o) = [q EXCEPT !.mode = "IN_AIR"]
      \/ Stand(p, keys, alive, o) = q
  BY <1>1 DEF Stand
<1>3. /\ Dying(q).mode = "DIE" /\ q.ym = 0
      /\ [q EXCEPT !.mode = "JUMP", !.already_jump = TRUE].ym = 0
      /\ [q EXCEPT !.mode = "RUN", !.side = "L", !.already_jump = FALSE].ym = 0
      /\ [q EXCEPT !.mode = "RUN", !.side = "R", !.already_jump = FALSE].ym = 0
      /\ [q EXCEPT !.already_jump = FALSE].ym = 0
      /\ [q EXCEPT !.mode = "IN_AIR"].ym = 0
  BY <1>1 DEF Dying, Player
<1> QED
  BY <1>2, <1>3

LEMMA RunMotion ==
  ASSUME NEW p \in Player, NEW o, NEW keys, NEW alive, NEW xm \in Motions, p.mode = "RUN"
  PROVE  \/ Run(p, xm, keys, alive, o).mode = "DIE"
         \/ Run(p, xm, keys, alive, o).ym = 0
<1> DEFINE running == [p EXCEPT !.xm = xm, !.ym = 0, !.already_jump = @ /\ "w" \in keys]
<1>0. running \in Player /\ running.ym = 0
  BY MotionWords DEF Player
<1>1. PICK q \in Player : q = running /\ q.ym = 0
  BY <1>0
<1>2. \/ Run(p, xm, keys, alive, o) = Dying(q)
      \/ Run(p, xm, keys, alive, o) = [q EXCEPT !.mode = "JUMP", !.already_jump = TRUE]
      \/ Run(p, xm, keys, alive, o) = [q EXCEPT !.mode = "IN_AIR"]
      \/ Run(p, xm, keys, alive, o) = [q EXCEPT !.mode = "STAND"]
      \/ Run(p, xm, keys, alive, o) = q
  BY <1>1 DEF Run
<1>3. /\ Dying(q).mode = "DIE" /\ q.ym = 0
      /\ [q EXCEPT !.mode = "JUMP", !.already_jump = TRUE].ym = 0
      /\ [q EXCEPT !.mode = "IN_AIR"].ym = 0
      /\ [q EXCEPT !.mode = "STAND"].ym = 0
  BY <1>1 DEF Dying, Player
<1> QED
  BY <1>2, <1>3

LEMMA FlyMotion ==
  ASSUME NEW p \in Player, NEW o, NEW keys, NEW alive, NEW xm \in Motions, p.mode = "IN_AIR"
  PROVE  \/ ~alive /\ Fly(p, xm, keys, alive, o).mode = "DIE"
         \/ /\ InAir(p, o) /\ Fly(p, xm, keys, alive, o).mode = "IN_AIR"
            /\ Fly(p, xm, keys, alive, o).ym = Lift(p)
         \/ /\ ~InAir(p, o) /\ Fly(p, xm, keys, alive, o).mode = "GLIDE"
            /\ Fly(p, xm, keys, alive, o).ym = 0
<1> DEFINE flying == [p EXCEPT !.xm = xm, !.already_jump = TRUE]
<1>0. flying \in Player /\ flying.mode = "IN_AIR"
  BY MotionWords DEF Player
<1>1. PICK q \in Player : q = flying /\ q.mode = "IN_AIR"
  BY <1>0
<1>2. CASE ~alive
  BY <1>1, <1>2 DEF Fly, Dying, Player
<1>3. CASE alive /\ InAir(p, o)
  <2>1. Fly(p, xm, keys, alive, o) = [q EXCEPT !.ym = Lift(p)]
    BY <1>1, <1>3 DEF Fly
  <2> QED
    BY <1>1, <1>3, <2>1 DEF Player
<1>4. CASE alive /\ ~InAir(p, o)
  <2>1. PICK side : Fly(p, xm, keys, alive, o)
            = [q EXCEPT !.mode = "GLIDE", !.side = side, !.ym = 0,
                        !.already_jump = KeyAtLanding(keys)]
    BY <1>1, <1>4 DEF Fly
  <2> QED
    BY <1>4, <2>1 DEF Player
<1> QED
  BY <1>2, <1>3, <1>4

LEMMA MarioMotion ==
  ASSUME Fit(mario), NEW keys \in Keys
  PROVE  \/ MarioNext(keys).mode = "DIE" /\ (mario.mode = "IN_AIR" => mario_dead)
         \/ mario.mode \in {"STAND", "RUN"} /\ MarioNext(keys).ym = 0
         \/ /\ mario.mode = "GLIDE" /\ MarioNext(keys).ym = 0
            /\ MarioNext(keys).mode # "IN_AIR"
         \/ /\ mario.mode = "JUMP" /\ MarioNext(keys).mode = "IN_AIR"
            /\ MarioNext(keys).ym = Neg(Jump)
         \/ /\ mario.mode = "IN_AIR" /\ InAir(mario, luigi)
            /\ MarioNext(keys).mode = "IN_AIR" /\ MarioNext(keys).ym = Lift(mario)
         \/ /\ mario.mode = "IN_AIR" /\ ~InAir(mario, luigi)
            /\ MarioNext(keys).mode = "GLIDE" /\ MarioNext(keys).ym = 0
<1>1. mario \in Player /\ mario.xm \in Motions /\ mario.mode \in Modes
  BY DEF Fit, Player
<1>2. CASE mario.mode = "STAND"
  BY <1>1, <1>2, StandMotion DEF MarioNext
<1>3. CASE mario.mode = "RUN"
  <2>1. MarioRunMotion(keys) \in Motions
    BY DEF MarioRunMotion, Motions
  <2> QED
    BY <1>1, <1>3, <2>1, RunMotion DEF MarioNext
<1>4. CASE mario.mode = "JUMP"
  BY <1>1, <1>4 DEF MarioNext, TakeOff, Player
<1>5. CASE mario.mode = "IN_AIR"
  <2>1. MarioAirMotion(keys) \in Motions
    BY SteerType DEF MarioAirMotion, Motions
  <2>2. PICK alive : alive = (~mario_dead)
    OBVIOUS
  <2> DEFINE fly == Fly(mario, MarioAirMotion(keys), keys, alive, luigi)
  <2>3. \/ ~alive /\ fly.mode = "DIE"
        \/ InAir(mario, luigi) /\ fly.mode = "IN_AIR" /\ fly.ym = Lift(mario)
        \/ ~InAir(mario, luigi) /\ fly.mode = "GLIDE" /\ fly.ym = 0
    BY <1>1, <1>5, <2>1, FlyMotion
  <2>4. MarioNext(keys) = fly
    BY <1>5, <2>2 DEF MarioNext
  <2> HIDE DEF fly
  <2> QED
    BY <1>5, <2>2, <2>3, <2>4
<1>6. CASE mario.mode = "GLIDE"
  <2>1. PICK q : q = [mario EXCEPT !.ym = 0]
    OBVIOUS
  <2>2. q \in Player /\ q.xm \in Motions /\ q.mode = "GLIDE" /\ q.ym = 0
    BY <1>1, <1>6, <2>1, MotionWords DEF Player
  <2>3. MarioNext(keys) = MarioGlide
    BY <1>6 DEF MarioNext
  <2>4. MarioGlide \in {Dying(q), [q EXCEPT !.xm = 0], AfterGlide(q)}
    BY <2>1 DEF MarioGlide
  <2>5. Dying(q).mode = "DIE"
    BY <2>2 DEF Dying, Player
  <2>6. [q EXCEPT !.xm = 0].ym = 0 /\ [q EXCEPT !.xm = 0].mode = "GLIDE"
    BY <2>2 DEF Player
  <2>7. AfterGlide(q).ym = 0 /\ AfterGlide(q).mode # "IN_AIR"
    BY <2>2, MotionWords DEF AfterGlide, Motions, Player
  <2> QED
    BY <1>6, <2>3, <2>4, <2>5, <2>6, <2>7
<1>7. CASE mario.mode = "DIE"
  BY <1>1, <1>7 DEF MarioNext, Fall, Player
<1> QED
  BY <1>1, <1>2, <1>3, <1>4, <1>5, <1>6, <1>7 DEF Modes

LEMMA MarioFliesKept ==
  ASSUME FlightFits, Unattended, PlayersType, AboveGround, LuigiWaits, MarioFlies, PlayersStep
  PROVE  MarioFlies'
<1>1. CASE PlayersFrame
  <2>1. PICK k \in Pressed : MarioFrame(k[1]) /\ LuigiFrame(k[2])
    BY <1>1 DEF PlayersFrame
  <2>2. FrameOf(k) /\ k[1] \in Keys
    BY <2>1, FrameParts, PressedKeys
  <2>3. mario \in Player /\ luigi \in Player /\ Fit(mario) /\ mario' \in Player
    BY <2>2 DEF PlayersType, Fit, FrameOf, Follows
  <2>4. /\ mario'.y = NextY(mario, luigi)
        /\ mario'.ym = MarioNext(k[1]).ym /\ mario'.mode = MarioNext(k[1]).mode
    <3>1. mario' = Moved(mario, MarioNext(k[1]), luigi)
      BY <2>1 DEF MarioFrame
    <3>2. Follows(MarioNext(k[1]), mario, k[1])
      BY <2>2, <2>3, MarioFollows
    <3> QED
      BY <2>3, <3>1, <3>2, MovedFollows
  <2>5. SUFFICES ASSUME luigi'.mode # "DIE", mario'.mode # "DIE"
                 PROVE  /\ mario'.mode # "IN_AIR" => mario'.ym = 0 /\ mario'.y \in Heights
                        /\ mario'.mode = "IN_AIR" => \E v \in Int : Flight(mario', v)
    BY DEF MarioFlies
  <2>6. luigi.mode # "DIE" /\ mario.mode # "DIE"
    BY <2>2, <2>5 DEF FrameOf, Follows
  <2>7. luigi.y = Ground /\ mario.y <= Ground /\ mario.mode \in Modes
    BY <2>3, <2>6, AtRestType, ArenaNumbers DEF LuigiWaits, AboveGround, Player
  <2>8. /\ Jump \in Nat /\ Height \in Nat /\ Ground \in Nat /\ PipeTop \in Nat /\ Modulus \in Nat
        /\ Jump * (Jump + 1) >= 0 /\ Jump * (Jump + 1) \in Int
    BY ArenaNumbers DEF Word
  <2>9. \A y \in Heights : y \in Int /\ y >= PipeTop
    BY <2>8 DEF Heights, FlightFits
  <2>10. CASE mario.mode # "IN_AIR"
    <3>1. mario.ym = 0 /\ mario.y \in Heights
      BY <2>6, <2>7, <2>10 DEF MarioFlies, Modes
    <3>2. mario'.y \in Heights
      BY <2>3, <2>4, <2>6, <2>7, <3>1, HeldUp
    <3>3. CASE mario'.ym = 0
      <4>1. mario'.mode = "IN_AIR" => Flight(mario', 0)
        BY <2>8, <2>9, <3>2, <3>3 DEF Flight, MotionOf, Origin
      <4> QED
        BY <3>2, <3>3, <4>1
    <3>4. CASE mario.mode = "JUMP" /\ mario'.mode = "IN_AIR" /\ mario'.ym = Neg(Jump)
      <4>1. mario'.ym = MotionOf(-Jump)
        BY <2>8, <3>4, NegOfWord, ArenaNumbers DEF MotionOf, FlightFits
      <4>2. (-Jump) * ((-Jump) - 1) = Jump * (Jump + 1)
        BY <2>8
      <4>3. Flight(mario', -Jump)
        BY <2>8, <2>9, <3>2, <4>1, <4>2 DEF Flight, Origin
      <4> QED
        BY <3>4, <4>3, <2>8
    <3> QED
      BY <2>2, <2>3, <2>4, <2>5, <2>10, <3>3, <3>4, MarioMotion
  <2>11. CASE mario.mode = "IN_AIR"
    <3>1. PICK v \in Int : Flight(mario, v)
      BY <2>6, <2>11 DEF MarioFlies
    <3>2. /\ Foot(mario) = mario.y + v /\ Foot(mario) >= Ceiling
          /\ 2 * (mario.y + v) - (v + 1) * v >= Origin
          /\ v = Height => Foot(mario) >= Ground
          /\ Add(mario.ym, 1) = MotionOf(v + 1)
      BY <2>3, <2>7, <3>1, FlightArithmetic
    <3>3. CASE InAir(mario, luigi) /\ mario'.mode = "IN_AIR" /\ mario'.ym = Lift(mario)
      <4>1. mario'.y = mario.y + v /\ v # Height
        <5>1. mario'.y = Foot(mario)
          BY <2>4, <2>6, <3>3 DEF NextY
        <5>2. ~(Foot(mario) >= Ground)
          BY <2>3, <2>8, <3>3, FootType DEF InAir, Word
        <5> QED
          BY <3>2, <5>1, <5>2
      <4>2. mario'.ym = MotionOf(v + 1)
        BY <3>2, <3>3, FootType, <2>3, ArenaNumbers DEF Lift, Word
      <4>3. (v + 1) * ((v + 1) - 1) = (v + 1) * v
        BY <3>1
      <4>4. Flight(mario', v + 1)
        BY <2>8, <3>1, <3>2, <4>1, <4>2, <4>3 DEF Flight
      <4> QED
        BY <3>1, <3>3, <4>4
    <3>4. CASE ~InAir(mario, luigi) /\ mario'.mode = "GLIDE" /\ mario'.ym = 0
      <4>1. mario'.y \in Heights
        BY <2>3, <2>4, <2>6, <2>7, <3>4, AltitudeHeights DEF NextY
      <4> QED
        BY <3>4, <4>1
    <3> QED
      BY <2>2, <2>3, <2>4, <2>5, <2>11, <3>3, <3>4, MarioMotion
  <2> QED
    BY <2>10, <2>11
<1>2. CASE PlayersReset
  <2>1. mario'.mode = "STAND" /\ mario'.ym = 0 /\ mario'.y = Ground
    BY <1>2, AtRestType, ArenaNumbers DEF PlayersReset
  <2> QED
    BY <2>1 DEF MarioFlies, Heights
<1>3. CASE UNCHANGED playerVars
  BY <1>3 DEF playerVars, MarioFlies
<1> QED
  BY <1>1, <1>2, <1>3 DEF PlayersStep

(***************************************************************************)
(* Beside Luigi.                                                           *)
(***************************************************************************)
\* Boxes that do not overlap are apart: the sums that wrap are far to the right.
LEMMA NoOverlap ==
  ASSUME RoomBeside, NEW x \in Word, ~Overlaps(x, LuigiStart)
  PROVE  x + Width <= LuigiStart \/ LuigiStart + Width <= x
<1>1. /\ x \in Nat /\ Width \in Nat /\ LuigiStart \in Nat /\ Modulus \in Nat
      /\ x < Modulus /\ Width < Modulus
      /\ Width \in Word /\ LuigiStart \in Word
  BY ArenaNumbers DEF Word
<1>2. /\ Add(x, Width) = IF x + Width < Modulus THEN x + Width ELSE x + Width - Modulus
      /\ Add(LuigiStart, Width) = IF LuigiStart + Width < Modulus
                                    THEN LuigiStart + Width ELSE LuigiStart + Width - Modulus
  BY <1>1, SumOfWords
<1> QED
  BY <1>1, <1>2 DEF Overlaps, RoomBeside

\* A frame takes him at most one step nearer.
LEMMA StepBeside ==
  ASSUME RoomBeside, NEW p \in Player, p.xm \in Motions,
         p.x + Width <= LuigiStart \/ LuigiStart + Width <= p.x
  PROVE  LET x == Clamp(Add(p.x, p.xm), XMax)
         IN  x + Width <= LuigiStart + Step \/ LuigiStart + Width <= x + Step
<1> DEFINE x == Clamp(Add(p.x, p.xm), XMax)
<1>1. /\ p.x \in Nat /\ Width \in Nat /\ LuigiStart \in Nat /\ Modulus \in Nat
      /\ Step \in Nat /\ XMax \in Nat /\ p.x < Modulus /\ XMax < Modulus
      /\ Step > 0 /\ 2 * Step < Modulus /\ p.x \in Word /\ Step \in Word
  BY ArenaNumbers DEF Word, Player
<1>2. Neg(Step) = Modulus - Step /\ Neg(Step) \in Word
  BY MotionWords
<1>3. CASE p.xm = 0
  <2>1. Add(p.x, p.xm) = p.x
    BY <1>1, <1>3, AddBounds
  <2> QED
    BY <1>1, <2>1 DEF Clamp, RoomBeside
<1>4. CASE p.xm = Step
  <2>1. Add(p.x, p.xm) = IF p.x + Step < Modulus THEN p.x + Step ELSE p.x + Step - Modulus
    BY <1>1, <1>4, SumOfWords
  <2> QED
    BY <1>1, <2>1 DEF Clamp, RoomBeside
<1>5. CASE p.xm = Neg(Step)
  <2>1. Add(p.x, p.xm) = IF p.x + (Modulus - Step) < Modulus
                           THEN p.x + (Modulus - Step) ELSE p.x + (Modulus - Step) - Modulus
    BY <1>1, <1>2, <1>5, SumOfWords
  <2> QED
    BY <1>1, <2>1 DEF Clamp, RoomBeside
<1> QED
  BY <1>3, <1>4, <1>5 DEF Motions

LEMMA ApartKept ==
  ASSUME FlightFits, RoomBeside, Unattended, PlayersType, AboveGround, LuigiWaits,
         MarioFlies, MarioLandsApart, PlayersKeepApart, PlayersStep
  PROVE  MarioLandsApart' /\ PlayersKeepApart'
<1>1. CASE PlayersFrame
  <2>1. PICK k \in Pressed : MarioFrame(k[1]) /\ LuigiFrame(k[2])
    BY <1>1 DEF PlayersFrame
  <2>2. FrameOf(k) /\ k[1] \in Keys
    BY <2>1, FrameParts, PressedKeys
  <2>3. SUFFICES ASSUME luigi'.mode # "DIE", mario'.mode # "DIE",
                        \/ mario'.mode = "IN_AIR" /\ Foot(mario') >= Ground
                        \/ mario'.y = luigi'.y
                 PROVE  Apart(mario', luigi')
    BY DEF MarioLandsApart, PlayersKeepApart
  <2>4. luigi.mode # "DIE" /\ mario.mode # "DIE"
    BY <2>2, <2>3 DEF FrameOf, Follows
  <2>5. luigi' = AtRest(LuigiStart) /\ luigi = AtRest(LuigiStart)
    BY <1>1, <2>3, <2>4, LuigiWaitsKept DEF LuigiWaits
  <2>6. luigi.x = LuigiStart /\ luigi.y = Ground /\ luigi'.x = LuigiStart /\ luigi'.y = Ground
    BY <2>5, AtRestType, ArenaNumbers
  <2>7. /\ mario \in Player /\ luigi \in Player /\ mario' \in Player /\ mario.xm \in Motions
        /\ mario.y <= Ground /\ mario.mode \in Modes
    BY <2>2, <2>4 DEF PlayersType, Fit, FrameOf, Follows, AboveGround, Player
  <2>8. mario'.x = NextX(mario, luigi) /\ mario'.y = NextY(mario, luigi)
    BY <2>2 DEF FrameOf
  <2>9. /\ Width \in Nat /\ LuigiStart \in Nat /\ Step \in Nat /\ Step > 0 /\ Ground \in Nat
        /\ Height \in Nat /\ PipeTop \in Nat /\ Modulus \in Nat
        /\ mario.x \in Nat /\ mario.x \in Word /\ mario'.x \in Nat
        /\ mario.y \in Nat /\ Foot(mario) \in Nat
    BY <2>7, FootType, ArenaNumbers DEF Word, Player
  <2>10. ASSUME ~Overlaps(mario.x, LuigiStart) PROVE Apart(mario', luigi')
    <3>1. mario.x + Width <= LuigiStart \/ LuigiStart + Width <= mario.x
      BY <2>9, <2>10, NoOverlap
    <3>2. mario'.x \in {mario.x, Clamp(Add(mario.x, mario.xm), XMax)}
      BY <2>7, <2>8, NextXType
    <3> QED
      BY <2>6, <2>7, <2>9, <3>1, <3>2, StepBeside DEF Apart
  <2>11. CASE mario'.y = Ground
    <3> DEFINE x == Clamp(Add(mario.x, mario.xm), XMax)
    <3>1. CASE ~Overlaps(x, LuigiStart)
      <4>1. x \in Word /\ mario'.x = x
        BY <2>6, <2>7, <2>8, <3>1, SumOfWords, ClampedWord, MotionWords, ArenaNumbers
           DEF NextX, Player
      <4> QED
        BY <2>6, <2>9, <3>1, <4>1, NoOverlap DEF Apart
    <3>2. CASE Overlaps(x, LuigiStart)
      <4>1. mario'.x = mario.x
        BY <2>6, <2>8, <2>11, <3>2 DEF NextX
      <4>2. mario.y = Ground \/ (mario.mode = "IN_AIR" /\ Foot(mario) >= Ground)
        <5>1. Foot(mario) >= Ground \/ mario'.y \in {PipeTop, Ground - Height}
          BY <2>4, <2>6, <2>8, <2>9, <2>11, HeadAltitude DEF NextY, InAir, Altitude
        <5>2. Foot(mario) >= Ground
          BY <2>9, <2>11, <5>1 DEF FlightFits
        <5>3. CASE mario.mode # "IN_AIR"
          <6>1. mario.ym = 0 /\ mario.y \in Heights
            BY <2>4, <2>7, <5>3 DEF MarioFlies, Modes
          <6>2. Foot(mario) = mario.y
            BY <2>7, <6>1, AddBounds DEF Foot, Player
          <6> QED
            BY <2>7, <2>9, <5>2, <6>2
        <5> QED
          BY <5>2, <5>3
      <4>3. Apart(mario, luigi)
        BY <2>4, <2>6, <4>2 DEF PlayersKeepApart, MarioLandsApart
      <4> QED
        BY <2>6, <4>1, <4>3 DEF Apart
    <3> QED
      BY <3>1, <3>2
  <2>12. CASE mario'.mode = "IN_AIR" /\ Foot(mario') >= Ground /\ mario'.y # Ground
    <3>1. MarioFlies' /\ AboveGround'
      BY <1>1, MarioFliesKept, AboveGroundKept DEF PlayersStep
    <3>2. PICK v \in Int : Flight(mario', v)
      BY <2>3, <2>12, <3>1 DEF MarioFlies
    <3>3. mario'.y < Ground /\ mario'.y \in Nat
      BY <2>3, <2>7, <2>9, <2>12, <3>1, ArenaNumbers DEF AboveGround, Player, Word
    <3>4. Foot(mario') = mario'.y + v
      BY <2>7, <2>9, <3>2, <3>3, FlightArithmetic
    <3>5. mario'.y >= Ground - Height /\ v > 0
      BY <2>9, <2>12, <3>2, <3>3, <3>4 DEF Flight
    <3>6. CASE InAir(mario, luigi)
      <4>1. mario'.y = Foot(mario)
        BY <2>4, <2>8, <3>6 DEF NextY
      <4>2. ~OnHead(mario, luigi) /\ Foot(mario) < Ground
        BY <3>6 DEF InAir
      <4>3. Foot(mario) >= Add(luigi.y, Neg(Height))
        BY <2>6, <3>5, <4>1, HeadAltitude
      <4> QED
        BY <2>6, <2>10, <4>2, <4>3 DEF OnHead
    <3>7. CASE ~InAir(mario, luigi)
      <4>1. mario.mode = "JUMP" /\ mario'.ym = Neg(Jump)
        <5>1. mario'.ym = MarioNext(k[1]).ym /\ mario'.mode = MarioNext(k[1]).mode
          <6>1. mario' = Moved(mario, MarioNext(k[1]), luigi)
            BY <2>1 DEF MarioFrame
          <6>2. Follows(MarioNext(k[1]), mario, k[1])
            BY <2>2, <2>7, MarioFollows DEF Fit
          <6> QED
            BY <2>7, <6>1, <6>2, MovedFollows
        <5>2. mario'.ym # 0
          BY <3>2, <3>5, <2>9 DEF Flight, MotionOf
        <5> QED
          BY <2>2, <2>3, <2>7, <2>12, <3>7, <5>1, <5>2, MarioMotion DEF Fit
      <4>2. FALSE
        BY <3>2, <3>5, <4>1, NegOfWord, ArenaNumbers DEF Flight, MotionOf, FlightFits, Word
      <4> QED
        BY <4>2
    <3> QED
      BY <3>6, <3>7
  <2> QED
    BY <2>3, <2>6, <2>11, <2>12
<1>2. CASE PlayersReset
  <2>1. /\ mario'.mode = "STAND" /\ mario'.x = MarioStart /\ luigi'.x = LuigiStart
    BY <1>2, AtRestType, ArenaNumbers DEF PlayersReset
  <2> QED
    BY <2>1 DEF MarioLandsApart, PlayersKeepApart, Apart, RoomBeside
<1>3. CASE UNCHANGED playerVars
  BY <1>3 DEF playerVars, MarioLandsApart, PlayersKeepApart
<1> QED
  BY <1>1, <1>2, <1>3 DEF PlayersStep

LEMMA ApartInit ==
  ASSUME RoomBeside, PlayersInit
  PROVE  MarioFlies /\ MarioLandsApart /\ PlayersKeepApart
<1>1. /\ mario.mode = "STAND" /\ mario.x = MarioStart /\ luigi.x = LuigiStart
      /\ mario.ym = 0 /\ mario.y = Ground
  BY AtRestType, ArenaNumbers DEF PlayersInit
<1> QED
  BY <1>1 DEF MarioFlies, Heights, MarioLandsApart, PlayersKeepApart, Apart, RoomBeside

\* However Mario comes to stand beside a living Luigi whom nobody moves, by
\* walking, by falling from the air, a pipe or Luigi's head, he is at most one
\* step inside him: the position check of mario_d.sv uses the positions of the
\* frame before, and a fall never passes Luigi's head between two frames.
THEOREM PlayersStayApart ==
  Unattended /\ FlightFits /\ RoomBeside => (AnyGame => []PlayersKeepApart)
<1> SUFFICES ASSUME Unattended, FlightFits, RoomBeside PROVE AnyGame => []PlayersKeepApart
  OBVIOUS
<1> DEFINE Inv == /\ PlayersType /\ AboveGround /\ LuigiWaits
                  /\ MarioFlies /\ MarioLandsApart /\ PlayersKeepApart
<1>1. PlayersInit => Inv
  BY InitKept, UnattendedInit, ApartInit
<1>2. Inv /\ [PlayersMove]_playerVars => Inv'
  BY GameSteps, TypeKept, AboveGroundKept, LuigiWaitsKept, MarioFliesKept, ApartKept
<1>3. Inv => PlayersKeepApart
  OBVIOUS
<1> QED
  BY <1>1, <1>2, <1>3, PTL DEF AnyGame

(***************************************************************************)
(* The players alone, whom their environment may kill between two frames.  *)
(***************************************************************************)
LEMMA AloneIsAGame == Spec => AnyGame
<1>1. Init => PlayersInit
  BY DEF Init
<1>2. [Next]_vars => [PlayersMove]_playerVars
  BY DEF Next, Frame, Kill, Reset, vars, PlayersMove
<1> QED
  BY <1>1, <1>2, PTL DEF Spec, AnyGame

\* What a game promises of its players, as the runs check it of this one.
THEOREM PlayersAlone ==
  /\ Spec => []AboveGround /\ []ScreenInLevel
  /\ MaxKeys = 1 => (Spec => []OnePressOneJump)
  /\ Unattended => (Spec => []StandingLuigiOnScreen)
  /\ Unattended /\ FlightFits /\ RoomBeside => (Spec => []PlayersKeepApart)
<1>1. Spec => []AboveGround /\ []ScreenInLevel
  BY AloneIsAGame, NobodySinks, ScreenStaysInLevel, PTL
<1>2. ASSUME MaxKeys = 1 PROVE Spec => []OnePressOneJump
  <2>1. AnyGame => []OnePressOneJump
    BY <1>2, HeldKeyJumpsOnce
  <2> QED
    BY <2>1, AloneIsAGame, PTL
<1>3. ASSUME Unattended PROVE Spec => []StandingLuigiOnScreen
  <2>1. AnyGame => []StandingLuigiOnScreen
    BY <1>3, LuigiStaysOnScreen
  <2> QED
    BY <2>1, AloneIsAGame, PTL
<1>4. ASSUME Unattended, FlightFits, RoomBeside PROVE Spec => []PlayersKeepApart
  <2>1. AnyGame => []PlayersKeepApart
    BY <1>4, PlayersStayApart
  <2> QED
    BY <2>1, AloneIsAGame, PTL
<1> QED
  BY <1>1, <1>2, <1>3, <1>4
=============================================================================
