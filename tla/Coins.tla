------------------------------- MODULE Coins -------------------------------
(***************************************************************************)
(* The coins beside the players: eat_coin.sv, whose coin_alive follows the *)
(* 50 MHz clock, the coin's own state machine (coin_movem in coin.sv), and *)
(* the score (score.sv).  A coin is named by the column it starts at.  The *)
(* three states ZHENG, CE and FAN of a turning coin differ in the sprite   *)
(* only and are the one state SPIN.                                        *)
(***************************************************************************)
EXTENDS Players

CONSTANTS
  CoinStarts,   \* {400, 420, 430, 550, 570, 590, 700}
  CoinY,        \* 300
  CoinWidth,    \* 16: side of the contact box of coin and player
  CoinHeight    \* 28

ASSUME CoinAssumption ==
  /\ CoinStarts \subseteq Word \ {0} /\ IsFiniteSet(CoinStarts)
  /\ CoinY \in Word /\ CoinWidth \in Word /\ CoinHeight \in Word

VARIABLES
  coin,         \* coin[c]: position, STATE and the eaten register
  coin_alive    \* coin_alive[c]: eat_coin.sv's register

coinVars == <<coin, coin_alive>>
varsWithCoins == <<vars, coinVars>>

NewCoins == [c \in CoinStarts |-> [x |-> c, y |-> CoinY, state |-> "SPIN", eaten |-> FALSE]]

(***************************************************************************)
(* eat_coin.sv: whoever is at the coin's height decides, Mario first.      *)
(***************************************************************************)
AtHeight(p, c) == p.y < Add(coin[c].y, CoinHeight) /\ coin[c].y < Add(p.y, CoinHeight)
AtColumn(p, c) == p.x < Add(coin[c].x, CoinWidth) /\ coin[c].x < Add(p.x, CoinWidth)

\* mutant: the columns of the two players exchanged
AliveInExchanged(c) ==
  CASE AtHeight(mario, c) -> ~AtColumn(luigi, c)
    [] ~AtHeight(mario, c) /\ AtHeight(luigi, c) -> ~AtColumn(mario, c)
    [] OTHER -> coin_alive[c]

AliveIn(c) ==
  CASE AtHeight(mario, c)                         -> ~AtColumn(mario, c)
    [] ~AtHeight(mario, c) /\ AtHeight(luigi, c)  -> ~AtColumn(luigi, c)
    [] ~AtHeight(mario, c) /\ ~AtHeight(luigi, c) -> coin_alive[c]

\* A clock edge between two frames; an eaten coin is put at the origin.
Put(c) == IF coin[c].eaten THEN [coin[c] EXCEPT !.x = 0, !.y = 0] ELSE coin[c]

CoinSettled == \A c \in CoinStarts : coin_alive[c] = AliveIn(c) /\ Put(c) = coin[c]

CoinClock ==
  /\ ~CoinSettled
  /\ coin_alive' = [c \in CoinStarts |-> AliveIn(c)]
  /\ coin' = [c \in CoinStarts |-> Put(c)]
  /\ UNCHANGED vars

(***************************************************************************)
(* coin_movem: a frame.  An eaten coin's registers no longer change.       *)
(***************************************************************************)
Spin(c) == IF coin_alive[c] THEN coin[c] ELSE [coin[c] EXCEPT !.state = "EAT"]
Eat(c)  == [coin[c] EXCEPT !.eaten = TRUE]

CoinNext(c) == CASE coin[c].state = "SPIN" -> Spin(c)
                 [] coin[c].state = "EAT"  -> Eat(c)

\* Bound: the game is followed until a dead player has fallen out of sight.
OutOfSight(p) == p.mode = "DIE" /\ p.y = YMax

CoinFrame ==
  /\ CoinSettled /\ ~OutOfSight(mario) /\ ~OutOfSight(luigi)
  /\ PlayersFrame
  /\ coin' = [c \in CoinStarts |-> CoinNext(c)]
  /\ UNCHANGED <<coin_alive, deathVars>>

\* score.sv: ~coin_alive is extended to 3 bits before it is inverted.
Collected   == {c \in CoinStarts : ~coin_alive[c]}
\* mutant: the inversions stay 1 bit wide
scoreNarrow == (Cardinality(Collected) - 2) % 8
score       == (7 * Cardinality(Collected)
                + 6 * Cardinality(CoinStarts \ Collected) - 2) % 8

CoinKill  == Kill /\ UNCHANGED coinVars
CoinReset == Reset /\ coin' = NewCoins /\ coin_alive' = [c \in CoinStarts |-> TRUE]

CoinInit == Init /\ coin = NewCoins /\ coin_alive = [c \in CoinStarts |-> TRUE]
CoinStep == CoinFrame \/ CoinClock \/ CoinKill \/ CoinReset
CoinSpec == CoinInit /\ [][CoinStep]_varsWithCoins

-----------------------------------------------------------------------------

\* A coin a player touches at a frame edge is taken in that frame, alive or
\* dead the player: coin_alive has settled and has not gone back to 1, which
\* it does when the player leaves the column.  Luigi's touch counts only
\* while Mario is not at the coin's height (eat_coin.sv:28-47).
Touched(c) == \/ AtHeight(mario, c) /\ AtColumn(mario, c)
              \/ AtHeight(luigi, c) /\ AtColumn(luigi, c) /\ ~AtHeight(mario, c)
Moves == CoinSettled /\ ~UNCHANGED <<playerVars, coin>> /\ ~PlayersReset
TouchedCoinIsTaken ==
  [][Moves => \A c \in CoinStarts : Touched(c) => coin'[c].state = "EAT"]_varsWithCoins

\* The 3-bit sum of extended inversions is the number of coins collected at
\* that moment; one that coin_alive gives back is no longer counted.
ScoreCountsCollected == score = Cardinality(Collected)
=============================================================================
