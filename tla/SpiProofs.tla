------------------------------ MODULE SpiProofs ------------------------------
(***************************************************************************)
(* Proofs about Spi, for every length of a command.                        *)
(*                                                                         *)
(* The argument: with one credit, a byte handed to TXDATA is in exactly    *)
(* one of the three registers until the driver has taken its answer, so a  *)
(* byte is never latched over another (NoOverrun), the answer of byte got  *)
(* is stored as that of byte got, and the shift register is at rest when   *)
(* the wait for TMT ends.                                                  *)
(***************************************************************************)
EXTENDS Spi, TLAPS

Running == pc # "idle"

\* Where the bytes handed to the master and not yet read back are.
OneUnderWay ==
  /\ shift # NoByte => shifting
  /\ ~Running => TMT /\ shift = NoByte
  /\ Running => credits = 1 - (sent - got)
  /\ Running /\ credits = 1 => txdata = NoByte /\ shift = NoByte /\ rxdata = NoByte
  /\ Running /\ credits = 0 =>
       \/ txdata # NoByte /\ shift = NoByte /\ rxdata = NoByte
       \/ txdata = NoByte /\ shift # NoByte /\ rxdata = NoByte
       \/ txdata = NoByte /\ shift = NoByte /\ rxdata # NoByte

\* The driver acts on a status that is out of date, but never wrong.
StatusStands ==
  /\ pc = "send" /\ status.trdy => txdata = NoByte
  /\ pc \in {"send", "receive"} /\ status.rrdy => rxdata # NoByte

\* What the registers hold, and what the chip and the caller have.
BytesInPlace ==
  /\ txdata # NoByte => txdata = Access!Outgoing(command, sent)
  /\ shift # NoByte => shift = Access!Outgoing(command, sent)
  /\ Running /\ rxdata # NoByte => rxdata = sent
  /\ Running => Len(wire) = IF rxdata # NoByte THEN got + 1 ELSE got
  /\ \A i \in 1..Len(wire) : wire[i] = Access!Outgoing(command, i)
  /\ Len(stored) = IF got < command.write THEN 0 ELSE got - command.write
  /\ \A i \in 1..Len(stored) : stored[i] = command.write + i

Progress ==
  /\ Running => sso
  /\ pc \in {"poll", "send", "receive"} => got < Total
  /\ pc = "drain" => got = Total

IInv == TypeOK /\ ~overrun /\ OneUnderWay /\ StatusStands /\ BytesInPlace /\ Progress

(***************************************************************************)
(* The commands.                                                           *)
(***************************************************************************)
LEMMA CallTypes ==
  \A c \in Calls : c.write \in Nat /\ c.read \in Nat /\ c.write + c.read > 0
BY SpiAssumption
   DEF Calls, Call, SPI_wr, MAXreg_wr, MAXreg_rd, MAXbytes_wr, MAXbytes_rd

LEMMA OutgoingType ==
  ASSUME NEW c \in Calls, NEW i \in Nat
  PROVE  Access!Outgoing(c, i) \in Nat /\ Access!Outgoing(c, i) # NoByte
BY SpiAssumption, CallTypes DEF Access!Outgoing

LEMMA InitInv == Init => IInv
<1> SUFFICES ASSUME Init PROVE IInv
  OBVIOUS
<1>1. Total \in Nat /\ command \in Calls
  BY CallTypes DEF Init, Total
<1>2. TypeOK
  <2>1. sent \in 0..Total /\ got \in 0..Total
    BY <1>1 DEF Init
  <2>2. stored \in Seq(Nat) /\ wire \in Seq(Nat)
    BY DEF Init
  <2>3. {txdata, shift, rxdata} \subseteq Nat \cup {NoByte}
    BY DEF Init
  <2> QED
    BY <1>1, <2>1, <2>2, <2>3 DEF Init, TypeOK
<1>3. OneUnderWay /\ StatusStands /\ Progress
  BY DEF Init, OneUnderWay, StatusStands, Progress, Running, TMT, TRDY
<1>4. BytesInPlace
  BY <1>1, CallTypes DEF Init, BytesInPlace, Running
<1> QED
  BY <1>2, <1>3, <1>4 DEF Init, IInv

(***************************************************************************)
(* The driver's steps.                                                     *)
(***************************************************************************)
LEMMA SelectInv ==
  ASSUME IInv, NEW c \in Calls, Select(c)
  PROVE  IInv'
<1> USE DEF IInv, Select
<1>1. command' = c /\ Total' = c.write + c.read /\ Total' \in Nat /\ Total' > 0
  BY CallTypes DEF Total
<1>2. TypeOK'
  BY <1>1 DEF TypeOK
<1>3. OneUnderWay'
  BY DEF OneUnderWay, Running, TMT, TRDY
<1>4. StatusStands' /\ Progress'
  BY <1>1 DEF StatusStands, Progress, Running
<1>5. BytesInPlace'
  <2>1. txdata' = NoByte /\ shift' = NoByte /\ rxdata' = NoByte
    BY DEF OneUnderWay, Running, TMT, TRDY
  <2>2. c.write \in Nat
    BY CallTypes
  <2> QED
    BY <1>1, <2>1, <2>2 DEF BytesInPlace, Running
<1> QED
  BY <1>2, <1>3, <1>4, <1>5

LEMMA PollInv ==
  ASSUME IInv, Poll
  PROVE  IInv'
<1> USE DEF IInv, Poll, registerVars
<1>1. TypeOK'
  BY DEF TypeOK, TRDY, RRDY, Total
<1>2. OneUnderWay'
  BY DEF OneUnderWay, Running, TMT, TRDY
<1>3. StatusStands' /\ Progress'
  BY DEF StatusStands, Progress, Running, TRDY, RRDY, Total
<1>4. BytesInPlace'
  BY DEF BytesInPlace, Running, Access!Outgoing
<1> QED
  BY <1>1, <1>2, <1>3, <1>4

LEMMA SendInv ==
  ASSUME IInv, Send
  PROVE  IInv'
<1> USE DEF IInv, Send
<1>1. command \in Calls /\ sent \in Nat /\ got \in Nat /\ Total \in Nat
  BY CallTypes DEF TypeOK, Total
<1>2. credits = 1 /\ sent = got /\ sent < Total
  BY <1>1 DEF TypeOK, OneUnderWay, Progress, Running
<1>3. txdata' = Access!Outgoing(command, sent + 1) /\ sent' = sent + 1 /\ credits' = 0
  BY <1>2
<1>4. txdata' \in Nat /\ txdata' # NoByte
  BY <1>1, <1>3, OutgoingType
<1>5. txdata = NoByte /\ shift = NoByte /\ rxdata = NoByte
  BY <1>2 DEF OneUnderWay, Running
<1>6. TypeOK'
  BY <1>1, <1>2, <1>3, <1>4 DEF TypeOK, Total
<1>7. OneUnderWay'
  BY <1>1, <1>2, <1>3, <1>4, <1>5 DEF OneUnderWay, Running, TMT, TRDY
<1>8. StatusStands' /\ Progress'
  BY <1>1, <1>2, <1>5 DEF StatusStands, Progress, Running, Total
<1>9. BytesInPlace'
  BY <1>3, <1>5 DEF BytesInPlace, Running, Access!Outgoing
<1> QED
  BY <1>6, <1>7, <1>8, <1>9

LEMMA NothingToSendInv ==
  ASSUME IInv, NothingToSend
  PROVE  IInv'
<1> USE DEF IInv, NothingToSend, registerVars
<1>1. TypeOK'
  BY DEF TypeOK, Total
<1>2. OneUnderWay'
  BY DEF OneUnderWay, Running, TMT, TRDY
<1>3. StatusStands' /\ Progress'
  BY DEF StatusStands, Progress, Running, Total
<1>4. BytesInPlace'
  BY DEF BytesInPlace, Running, Access!Outgoing
<1> QED
  BY <1>1, <1>2, <1>3, <1>4

LEMMA ReceiveInv ==
  ASSUME IInv, Receive
  PROVE  IInv'
<1> USE DEF IInv, Receive
<1>1. /\ command \in Calls /\ command.write \in Nat
      /\ sent \in Nat /\ got \in Nat /\ Total \in Nat
  BY CallTypes DEF TypeOK, Total
<1>2. rxdata # NoByte /\ rxdata \in Nat
  BY DEF StatusStands, TypeOK
<1>3. credits = 0 /\ sent = got + 1 /\ txdata = NoByte /\ shift = NoByte
  BY <1>1, <1>2 DEF TypeOK, OneUnderWay, Running
<1>4. got < Total /\ got' \in 0..Total /\ credits' = 1
  BY <1>1, <1>3 DEF Progress, TypeOK
<1>5. stored' \in Seq(Nat)
  BY <1>2 DEF TypeOK
<1>6. TypeOK'
  BY <1>4, <1>5 DEF TypeOK, Total
<1>7. OneUnderWay'
  BY <1>1, <1>3, <1>4 DEF OneUnderWay, Running, TMT, TRDY
<1>8. StatusStands' /\ Progress'
  BY <1>1, <1>4 DEF StatusStands, Progress, Running, Total
<1>9. BytesInPlace'
  <2>1. rxdata = got + 1 /\ Len(wire) = got + 1
    BY <1>2, <1>3 DEF BytesInPlace, Running
  <2>2. /\ Len(stored') = IF got' < command.write THEN 0 ELSE got' - command.write
        /\ \A i \in 1..Len(stored') : stored'[i] = command.write + i
    <3>1. CASE got < command.write
      BY <1>1, <3>1 DEF BytesInPlace
    <3>2. CASE ~(got < command.write)
      <4>1. stored' = Append(stored, got + 1) /\ stored \in Seq(Nat)
        BY <2>1, <3>2 DEF TypeOK
      <4>2. Len(stored) = got - command.write
        BY <3>2 DEF BytesInPlace
      <4>3. Len(stored') = got + 1 - command.write
        BY <1>1, <3>2, <4>1, <4>2
      <4>4. ASSUME NEW i \in 1..Len(stored')
            PROVE  stored'[i] = command.write + i
        <5>1. CASE i <= Len(stored)
          BY <4>1, <5>1 DEF BytesInPlace
        <5>2. CASE i = Len(stored) + 1
          BY <1>1, <3>2, <4>1, <4>2, <5>2
        <5> QED
          BY <1>1, <4>2, <4>3, <5>1, <5>2, <3>2
      <4> QED
        BY <1>1, <3>2, <4>3, <4>4
    <3> QED
      BY <3>1, <3>2
  <2> QED
    BY <1>3, <2>1, <2>2 DEF BytesInPlace, Running, Access!Outgoing
<1> QED
  BY <1>6, <1>7, <1>8, <1>9

LEMMA NothingReceivedInv ==
  ASSUME IInv, NothingReceived
  PROVE  IInv'
<1> USE DEF IInv, NothingReceived, registerVars
<1>1. TypeOK'
  BY DEF TypeOK, Total
<1>2. OneUnderWay'
  BY DEF OneUnderWay, Running, TMT, TRDY
<1>3. StatusStands' /\ Progress'
  BY DEF StatusStands, Progress, Running, Total
<1>4. BytesInPlace'
  BY DEF BytesInPlace, Running, Access!Outgoing
<1> QED
  BY <1>1, <1>2, <1>3, <1>4

LEMMA DrainInv ==
  ASSUME IInv, Drain
  PROVE  IInv'
<1> USE DEF IInv, Drain
<1>1. TypeOK'
  BY DEF TypeOK, Total
<1>2. shift = NoByte
  BY DEF OneUnderWay, TMT
<1>3. OneUnderWay'
  BY <1>2 DEF OneUnderWay, Running, TMT, TRDY
<1>4. StatusStands' /\ Progress'
  BY DEF StatusStands, Progress, Running
<1>5. BytesInPlace'
  BY DEF BytesInPlace, Running, Access!Outgoing
<1> QED
  BY <1>1, <1>3, <1>4, <1>5

(***************************************************************************)
(* The registers' steps.                                                   *)
(***************************************************************************)
LEMMA LoadInv ==
  ASSUME IInv, Load
  PROVE  IInv'
<1> USE DEF IInv, Load, driverVars
<1>1. Running
  BY DEF OneUnderWay, TMT, TRDY
<1>2. credits = 0 /\ shift = NoByte /\ rxdata = NoByte
  BY <1>1 DEF OneUnderWay, TypeOK
<1>3. TypeOK'
  BY DEF TypeOK, Total
<1>4. OneUnderWay'
  BY <1>1, <1>2 DEF OneUnderWay, Running, TMT, TRDY
<1>5. StatusStands' /\ Progress'
  BY DEF StatusStands, Progress, Running, Total
<1>6. BytesInPlace'
  BY DEF BytesInPlace, Running, Access!Outgoing
<1> QED
  BY <1>3, <1>4, <1>5, <1>6

LEMMA LatchInv ==
  ASSUME IInv, Latch
  PROVE  IInv'
<1> USE DEF IInv, Latch, driverVars
<1>1. Running /\ sso
  BY DEF OneUnderWay, Progress
<1>2. credits = 0 /\ txdata = NoByte /\ rxdata = NoByte
  BY <1>1 DEF OneUnderWay, TypeOK
<1>3. sent = got + 1 /\ sent \in Nat /\ got \in Nat
  BY <1>1, <1>2, CallTypes DEF OneUnderWay, TypeOK, Total
<1>4. shift = Access!Outgoing(command, sent) /\ shift \in Nat
  BY <1>3, OutgoingType DEF BytesInPlace, TypeOK
<1>5. wire' = Append(wire, shift) /\ wire \in Seq(Nat) /\ Len(wire) = got
  BY <1>1, <1>2 DEF BytesInPlace, TypeOK
<1>6. Len(wire') = sent /\ wire' \in Seq(Nat) /\ rxdata' = sent
  BY <1>3, <1>4, <1>5
<1>7. rxdata' # NoByte
  BY <1>3, <1>6, SpiAssumption
<1>8. TypeOK' /\ ~overrun'
  BY <1>2, <1>3, <1>6 DEF TypeOK, Total, RRDY
<1>9. OneUnderWay'
  BY <1>1, <1>2, <1>7 DEF OneUnderWay, Running, TMT, TRDY
<1>10. StatusStands' /\ Progress'
  BY <1>7 DEF StatusStands, Progress, Running, Total
<1>11. \A i \in 1..Len(wire') : wire'[i] = Access!Outgoing(command, i)
  <2> SUFFICES ASSUME NEW i \in 1..Len(wire') PROVE wire'[i] = Access!Outgoing(command, i)
    OBVIOUS
  <2>1. CASE i <= Len(wire)
    BY <1>5, <2>1 DEF BytesInPlace
  <2>2. CASE i = Len(wire) + 1
    BY <1>3, <1>4, <1>5, <2>2
  <2> QED
    BY <1>3, <1>5, <1>6, <2>1, <2>2
<1>12. BytesInPlace'
  BY <1>2, <1>3, <1>6, <1>7, <1>11 DEF BytesInPlace, Running, Access!Outgoing
<1> QED
  BY <1>8, <1>9, <1>10, <1>12

LEMMA FinishInv ==
  ASSUME IInv, Finish
  PROVE  IInv'
<1> USE DEF IInv, Finish, driverVars
<1>1. TypeOK'
  BY DEF TypeOK, Total
<1>2. OneUnderWay'
  BY DEF OneUnderWay, Running, TMT, TRDY
<1>3. StatusStands' /\ Progress'
  BY DEF StatusStands, Progress, Running, Total
<1>4. BytesInPlace'
  BY DEF BytesInPlace, Running, Access!Outgoing
<1> QED
  BY <1>1, <1>2, <1>3, <1>4

LEMMA StutterInv ==
  ASSUME IInv, UNCHANGED vars
  PROVE  IInv'
BY DEF vars, driverVars, registerVars, IInv, TypeOK, Total, OneUnderWay, Running, TMT, TRDY,
       StatusStands, BytesInPlace, Progress, Access!Outgoing

(***************************************************************************)
(* The invariant holds in every reachable state.                           *)
(***************************************************************************)
LEMMA Invariant == Spec => []IInv
<1>1. ASSUME IInv, [Next]_vars PROVE IInv'
  <2>1. CASE Command
    BY <1>1, <2>1, PollInv, SendInv, NothingToSendInv, ReceiveInv, NothingReceivedInv, DrainInv
       DEF Command
  <2>2. CASE Registers
    BY <1>1, <2>2, LoadInv, LatchInv, FinishInv DEF Registers
  <2>3. CASE \E c \in Calls : Select(c)
    BY <1>1, <2>3, SelectInv
  <2>4. CASE UNCHANGED vars
    BY <1>1, <2>4, StutterInv
  <2> QED
    BY <1>1, <2>1, <2>2, <2>3, <2>4 DEF Next
<1> QED
  BY <1>1, InitInv, PTL DEF Spec

\* The values of the driver's variables and of the registers; in particular
\* the "nothing left to send" case of the loop, which sets credits to -1024,
\* is never taken.
THEOREM TypeCorrect == Spec => []TypeOK
<1>1. IInv => TypeOK
  BY DEF IInv
<1> QED
  BY <1>1, Invariant, PTL

\* No byte is latched over one that the driver has not taken.
THEOREM OverrunFree == Spec => []NoOverrun
<1>1. IInv => NoOverrun
  BY DEF IInv, NoOverrun
<1> QED
  BY <1>1, Invariant, PTL

\* The chip select covers the whole of a command.
THEOREM Covered == Spec => []SelectCoversCommand
<1>1. IInv => SelectCoversCommand
  BY DEF IInv, OneUnderWay, Progress, SelectCoversCommand
<1> QED
  BY <1>1, Invariant, PTL

(***************************************************************************)
(* Refinement: every command is one exchange.                              *)
(***************************************************************************)
LEMMA SelectStarts ==
  ASSUME NEW c \in Calls, Select(c)
  PROVE  Access!Start(c)
BY DEF Select, Access!Start

LEMMA DrainReturns ==
  ASSUME IInv, Drain
  PROVE  Access!Return
<1> USE DEF IInv, Drain
<1>1. /\ command \in Calls /\ command.write \in Nat /\ command.read \in Nat
      /\ got = Total /\ Total = command.write + command.read
      /\ wire \in Seq(Nat) /\ stored \in Seq(Nat)
  BY CallTypes DEF TypeOK, Progress, Total
<1>2. rxdata = NoByte
  BY <1>1 DEF TypeOK, OneUnderWay, Running
<1>3. Len(wire) = command.write + command.read /\ Len(stored) = command.read
  BY <1>1, <1>2 DEF BytesInPlace, Running
<1>4. wire = [i \in 1..(command.write + command.read) |-> Access!Outgoing(command, i)]
  BY <1>1, <1>3 DEF BytesInPlace
<1>5. stored = [i \in 1..command.read |-> command.write + i]
  <2>1. \A i \in 1..command.read : stored[i] = command.write + i
    BY <1>3 DEF BytesInPlace
  <2>2. stored = [i \in 1..command.read |-> stored[i]]
    BY <1>1, <1>3
  <2> QED
    BY <2>1, <2>2, Zenon
<1> QED
  BY <1>4, <1>5 DEF Access!Return

LEMMA RunningStutters ==
  ASSUME pc # "idle", pc' # "idle", UNCHANGED command
  PROVE  UNCHANGED Access!accessVars
BY DEF Access!accessVars

LEMMA StepRefines ==
  ASSUME IInv, [Next]_vars
  PROVE  [Access!AccessNext]_Access!accessVars
<1>1. CASE Poll \/ Send \/ NothingToSend \/ Receive \/ NothingReceived
  BY <1>1, RunningStutters DEF Poll, Send, NothingToSend, Receive, NothingReceived
<1>2. CASE Drain
  BY <1>2, DrainReturns DEF Access!AccessNext
<1>3. CASE Registers
  <2>1. pc # "idle"
    BY <1>3 DEF IInv, OneUnderWay, Running, TMT, TRDY, Registers, Load, Latch, Finish
  <2> QED
    BY <1>3, <2>1, RunningStutters DEF Registers, Load, Latch, Finish, driverVars
<1>4. CASE \E c \in Calls : Select(c)
  BY <1>4, SelectStarts DEF Access!AccessNext
<1>5. CASE UNCHANGED vars
  BY <1>5 DEF vars, driverVars, registerVars, Access!accessVars
<1> QED
  BY <1>1, <1>2, <1>3, <1>4, <1>5 DEF Next, Command

\* alt_avalon_spi_command is an atomic exchange, whatever the lengths and
\* however the master's registers and the driver's loop interleave.
THEOREM CommandIsAtomic == Spec => AtomicAccess
<1>1. Init => Access!AccessInit
  BY DEF Init, Access!AccessInit
<1>2. IInv /\ [Next]_vars => [Access!AccessNext]_Access!accessVars
  BY StepRefines
<1> QED
  BY <1>1, <1>2, Invariant, PTL DEF Spec, AtomicAccess, Access!AccessSpec
=============================================================================
