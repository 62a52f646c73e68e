-------------------------------- MODULE Spi --------------------------------
(***************************************************************************)
(* alt_avalon_spi_command (drivers/src/altera_avalon_spi.c), the polled    *)
(* SPI master through which MAX3421E.c reaches the chip, against the       *)
(* master's registers, which run on while the driver is between two        *)
(* accesses.  The registers and the chip's side of the wire are external:  *)
(* TXDATA holds one byte while another is being shifted, and the byte      *)
(* shifted in is latched in RXDATA, over an unread one if need be.         *)
(* Bytes to write are told apart by their position in the command, the     *)
(* chip's answers by the position they answer.  Every caller passes flags  *)
(* 0, so SSO is forced during the command and released after it.           *)
(***************************************************************************)
EXTENDS Integers, Sequences

CONSTANTS
  MaxBytes,     \* the longest nbytes of MAXbytes_wr and MAXbytes_rd
  NoByte        \* an empty register

ASSUME SpiAssumption ==
  /\ MaxBytes \in Nat
  /\ NoByte \notin Int

(***************************************************************************)
(* The commands of MAX3421E.c: how many bytes each writes, the register's  *)
(* number included, and how many it reads back.                            *)
(***************************************************************************)
Call(w, r) == [write |-> w, read |-> r]

SPI_wr         == Call(1, 1)
MAXreg_wr      == Call(2, 0)
MAXreg_rd      == Call(1, 2)
MAXbytes_wr(n) == Call(n + 1, 0)
MAXbytes_rd(n) == Call(1, n + 1)

Calls ==
  {SPI_wr, MAXreg_wr, MAXreg_rd}
    \cup UNION {{MAXbytes_wr(n), MAXbytes_rd(n)} : n \in 0..MaxBytes}

VARIABLES
  command,      \* the arguments of the current, or last, command
  pc,           \* idle, poll, send, receive, drain
  credits,      \* bytes that may still be sent before one comes back
  sent,         \* bytes handed to TXDATA: write_data and write_zeros moved on
  got,          \* bytes taken from RXDATA: read_ignore and read_data moved on
  stored,       \* what was stored through read_data
  status,       \* the driver's copy of the status register
  sso,          \* the chip select is forced
  txdata,       \* the transmitter's holding register
  shift,        \* the byte being exchanged
  shifting,     \* the shift register is running
  rxdata,       \* the receiver's holding register
  overrun,      \* ROE: a byte was latched over an unread one
  wire          \* the bytes the chip got since it was last selected

driverVars   == <<command, pc, credits, sent, got, stored, status>>
registerVars == <<sso, txdata, shift, shifting, rxdata, overrun, wire>>
vars == <<driverVars, registerVars>>

TRDY == txdata = NoByte
RRDY == rxdata # NoByte
TMT  == TRDY /\ ~shifting

Access == INSTANCE RegisterAccess WITH
  busy     <- pc # "idle",
  received <- IF pc = "idle" THEN wire ELSE <<>>,
  answers  <- IF pc = "idle" THEN stored ELSE <<>>

Total == command.write + command.read

\* RXDATA may hold a byte of an exchange that a restart cut short.
Init ==
  /\ command \in Calls
  /\ pc = "idle"
  /\ credits = 1 /\ sent = 0 /\ got = 0 /\ stored = <<>>
  /\ status = [trdy |-> FALSE, rrdy |-> FALSE]
  /\ sso = FALSE
  /\ txdata = NoByte /\ shift = NoByte /\ shifting = FALSE
  /\ rxdata \in {NoByte, 0}
  /\ overrun = FALSE
  /\ wire = <<>>

(***************************************************************************)
(* The driver.                                                             *)
(***************************************************************************)
\* mutant: the stale byte is not discarded
SelectKeepsStale(c) ==
  /\ pc = "idle"
  /\ command' = c
  /\ pc' = "poll"
  /\ credits' = 1 /\ sent' = 0 /\ got' = 0 /\ stored' = <<>>
  /\ sso' = TRUE
  /\ wire' = <<>>
  /\ UNCHANGED <<status, txdata, shift, shifting, rxdata, overrun>>

\* mutant: two bytes may be under way at a time
SelectTwoCredits(c) ==
  /\ pc = "idle"
  /\ command' = c
  /\ pc' = "poll"
  /\ credits' = 2 /\ sent' = 0 /\ got' = 0 /\ stored' = <<>>
  /\ sso' = TRUE
  /\ wire' = <<>>
  /\ rxdata' = NoByte
  /\ UNCHANGED <<status, txdata, shift, shifting, overrun>>

Select(c) ==
  /\ pc = "idle"
  /\ command' = c
  /\ pc' = "poll"
  /\ credits' = 1 /\ sent' = 0 /\ got' = 0 /\ stored' = <<>>
  /\ sso' = TRUE
  /\ wire' = <<>>
  /\ rxdata' = NoByte
  /\ UNCHANGED <<status, txdata, shift, shifting, overrun>>

Poll ==
  /\ pc = "poll"
  /\ (TRDY /\ credits # 0) \/ RRDY
  /\ status' = [trdy |-> TRDY, rrdy |-> RRDY]
  /\ pc' = "send"
  /\ UNCHANGED <<command, credits, sent, got, stored, registerVars>>

Send ==
  /\ pc = "send"
  /\ status.trdy /\ credits > 0
  /\ IF sent < Total
     THEN /\ txdata' = Access!Outgoing(command, sent + 1)
          /\ sent' = sent + 1
          /\ credits' = credits - 1
     ELSE /\ credits' = -1024
          /\ UNCHANGED <<txdata, sent>>
  /\ pc' = "receive"
  /\ UNCHANGED <<command, got, stored, status, sso, shift, shifting, rxdata, overrun, wire>>

NothingToSend ==
  /\ pc = "send"
  /\ ~(status.trdy /\ credits > 0)
  /\ pc' = "receive"
  /\ UNCHANGED <<command, credits, sent, got, stored, status, registerVars>>

\* mutant: the end of the buffer is tested before the byte is counted
ReceiveOneMore ==
  /\ pc = "receive"
  /\ status.rrdy
  /\ rxdata' = NoByte
  /\ got' = got + 1
  /\ credits' = credits + 1
  /\ stored' = IF got < command.write THEN stored ELSE Append(stored, rxdata)
  /\ pc' = IF got = Total THEN "drain" ELSE "poll"
  /\ UNCHANGED <<command, sent, status, sso, txdata, shift, shifting, overrun, wire>>

Receive ==
  /\ pc = "receive"
  /\ status.rrdy
  /\ rxdata' = NoByte
  /\ got' = got + 1
  /\ credits' = credits + 1
  /\ stored' = IF got < command.write THEN stored ELSE Append(stored, rxdata)
  /\ pc' = IF got + 1 = Total THEN "drain" ELSE "poll"
  /\ UNCHANGED <<command, sent, status, sso, txdata, shift, shifting, overrun, wire>>

NothingReceived ==
  /\ pc = "receive"
  /\ ~status.rrdy
  /\ pc' = "poll"
  /\ UNCHANGED <<command, credits, sent, got, stored, status, registerVars>>

\* mutant: the chip select is released without waiting for TMT
DrainAtOnce ==
  /\ pc = "drain"
  /\ sso' = FALSE
  /\ pc' = "idle"
  /\ UNCHANGED <<command, credits, sent, got, stored, status,
                 txdata, shift, shifting, rxdata, overrun, wire>>

Drain ==
  /\ pc = "drain"
  /\ TMT
  /\ sso' = FALSE
  /\ pc' = "idle"
  /\ UNCHANGED <<command, credits, sent, got, stored, status,
                 txdata, shift, shifting, rxdata, overrun, wire>>

Command == Poll \/ Send \/ NothingToSend \/ Receive \/ NothingReceived \/ Drain

(***************************************************************************)
(* External: the SPI master and the chip.                                  *)
(***************************************************************************)
Load ==
  /\ txdata # NoByte /\ ~shifting
  /\ shift' = txdata
  /\ shifting' = TRUE
  /\ txdata' = NoByte
  /\ UNCHANGED <<driverVars, sso, rxdata, overrun, wire>>

\* A chip that is not held selected takes each byte for a command of its own.
Latch ==
  /\ shift # NoByte
  /\ wire' = Append(IF sso THEN wire ELSE <<>>, shift)
  /\ rxdata' = Len(wire')
  /\ overrun' = (overrun \/ RRDY)
  /\ shift' = NoByte
  /\ UNCHANGED <<driverVars, sso, txdata, shifting>>

Finish ==
  /\ shifting /\ shift = NoByte
  /\ shifting' = FALSE
  /\ UNCHANGED <<driverVars, sso, txdata, shift, rxdata, overrun, wire>>

Registers == Load \/ Latch \/ Finish

Next == Command \/ Registers \/ \E c \in Calls : Select(c)

Spec == Init /\ [][Next]_vars

\* The driver spins without giving up; the shift clock never stops.
FairSpec == Spec /\ WF_vars(Command) /\ WF_vars(Load) /\ WF_vars(Latch) /\ WF_vars(Finish)

(***************************************************************************)
(* Properties.                                                             *)
(***************************************************************************)
TypeOK ==
  /\ command \in Calls
  /\ pc \in {"idle", "poll", "send", "receive", "drain"}
  /\ credits \in {0, 1}
  /\ sent \in 0..Total
  /\ got \in 0..Total
  /\ stored \in Seq(Nat)
  /\ status \in [trdy : BOOLEAN, rrdy : BOOLEAN]
  /\ sso \in BOOLEAN /\ shifting \in BOOLEAN /\ overrun \in BOOLEAN
  /\ {txdata, shift, rxdata} \subseteq Nat \cup {NoByte}
  /\ wire \in Seq(Nat)

\* However long the driver is away between reading the status and acting on
\* it, the receiver never latches a byte over one the driver has not taken.
NoOverrun == ~overrun

\* The chip select is released only when the last byte has left the shift
\* register, so the chip never sees a command cut short.
SelectCoversCommand == sso \/ TMT

\* A command is one exchange: the chip gets its bytes in one selection, the
\* caller gets the answers that follow them.
AtomicAccess == Access!AccessSpec

\* The loop, which has no bound, ends: it never waits for a byte that is not
\* under way.
CommandReturns == (pc # "idle") ~> (pc = "idle")
=============================================================================
