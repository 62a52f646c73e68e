--------------------------- MODULE RegisterAccess ---------------------------
(***************************************************************************)
(* What the functions of MAX3421E.c that reach the chip rely on: a command *)
(* is one exchange.  The chip gets the bytes the caller wrote, in order    *)
(* and followed by one zero per byte to read, all in one selection; the    *)
(* caller gets the chip's answers to those zeros and nothing else.  Spi    *)
(* implements it; Max3421e and Transfer use it, one step per access.       *)
(***************************************************************************)
EXTENDS Integers, Sequences

CONSTANTS Calls     \* the commands callers issue: records with write, read

VARIABLES
  command,          \* the last command issued
  busy,             \* it has not returned
  received,         \* what the chip got, once the command has returned
  answers           \* what the caller got, once the command has returned

accessVars == <<command, busy, received, answers>>

\* The bytes on the wire: those to write by position, then zeros.
Outgoing(c, i) == IF i <= c.write THEN i ELSE 0

Start(c) ==
  /\ ~busy
  /\ command' = c
  /\ busy' = TRUE
  /\ received' = <<>>
  /\ answers' = <<>>

Return ==
  /\ busy
  /\ busy' = FALSE
  /\ received' = [i \in 1..(command.write + command.read) |-> Outgoing(command, i)]
  /\ answers' = [i \in 1..command.read |-> command.write + i]
  /\ UNCHANGED command

AccessInit ==
  /\ command \in Calls
  /\ busy = FALSE
  /\ received = <<>>
  /\ answers = <<>>

AccessNext == Return \/ \E c \in Calls : Start(c)

AccessSpec == AccessInit /\ [][AccessNext]_accessVars
=============================================================================
