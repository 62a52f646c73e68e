------------------------------ MODULE Max3421e ------------------------------
(***************************************************************************)
(* The MAX3421E host controller as usb_kb/MAX3421E.c drives it, together   *)
(* with the USB port it watches.  The port and the registers are external  *)
(* (modelled from what the driver reads and writes); the driver's handlers *)
(* MAX_busprobe, MAX3421E_init and MaxIntHandler are split where the chip  *)
(* can change a register between two SPI accesses of the handler.          *)
(* The module holds no specification of its own: UsbHost composes it with  *)
(* the enumeration task and the main loop.                                 *)
(***************************************************************************)
EXTENDS Integers

CONSTANTS
  Devices,      \* peripherals that may be plugged in
  LowSpeed,     \* those of them that signal at low speed
  NoDevice,     \* line state SE0: the port is empty
  BadLine       \* line state SE1: illegal

ASSUME DeviceAssumption ==
  /\ LowSpeed \subseteq Devices
  /\ NoDevice \notin Devices
  /\ BadLine \notin Devices
  /\ NoDevice # BadLine

(***************************************************************************)
(* usb_task_state: 4 high bits are the state, 4 low bits the substate.     *)
(***************************************************************************)
INITIALIZE          == 1      \* 0x01
WAIT_FOR_DEVICE     == 3      \* 0x03
ILLEGAL             == 4      \* 0x04
ATTACHED            == 16     \* 0x10
SETTLE              == 17     \* 0x11
RESET_DEVICE        == 18     \* 0x12
WAIT_RESET_COMPLETE == 19     \* 0x13
WAIT_SOF            == 20     \* 0x14
GET_DESCRIPTOR      == 21     \* 0x15
ADDRESSING          == 32     \* 0x20
CONFIGURING         == 48     \* 0x30
RUNNING             == 64     \* 0x40
ERROR               == 255    \* 0xff

VARIABLES
  plug,             \* what the port's D+/D- lines show
  devAddr,          \* the address the plugged device answers to
  configured,       \* the device has accepted SET_CONFIGURATION
  condet,           \* causes of a pending HIRQ.CONDETIRQ ("line", "reset")
  busevent,         \* HIRQ.BUSEVENTIRQ
  busrst,           \* HCTL.BUSRST: the 50 ms bus reset is being driven
  lowspeed,         \* MODE.LOWSPEED
  hirq,             \* MaxIntHandler's local copy of HIRQ.BUSEVENTIRQ
  usb_task_state

portVars == <<plug, devAddr, configured>>
chipVars == <<condet, busevent, busrst, lowspeed>>
maxVars  == <<portVars, chipVars, hirq, usb_task_state>>

Detached(s) == s < 16         \* (s & USB_STATE_MASK) == USB_STATE_DETACHED

(***************************************************************************)
(* External: the port and the chip.                                        *)
(***************************************************************************)
Plug(d) ==
  /\ plug = NoDevice
  /\ plug' = d
  /\ devAddr' = 0
  /\ configured' = FALSE
  /\ condet' = condet \cup {"line"}
  /\ UNCHANGED <<busevent, busrst, lowspeed, hirq, usb_task_state>>

Unplug ==
  /\ plug # NoDevice
  /\ plug' = NoDevice
  /\ devAddr' = 0
  /\ configured' = FALSE
  /\ condet' = condet \cup {"line"}
  /\ UNCHANGED <<busevent, busrst, lowspeed, hirq, usb_task_state>>

LineFault ==
  /\ plug \in Devices
  /\ plug' = BadLine
  /\ devAddr' = 0
  /\ configured' = FALSE
  /\ condet' = condet \cup {"line"}
  /\ UNCHANGED <<busevent, busrst, lowspeed, hirq, usb_task_state>>

\* The chip ends the bus reset: a device is back at address 0, and its lines
\* leaving SE0 may be seen as a connection ("bus reset causes connection
\* detect interrupt", MAX3421E.c:175).
BusResetDone ==
  /\ busrst
  /\ busrst' = FALSE
  /\ busevent' = TRUE
  /\ condet' \in {condet} \cup {condet \cup {"reset"} : d \in Devices \cap {plug}}
  /\ devAddr' = 0
  /\ configured' = FALSE
  /\ UNCHANGED <<plug, lowspeed, hirq, usb_task_state>>

\* A transfer to addr can succeed: the device listens there and the host
\* signals at its speed.
Answers(addr) == plug \in Devices /\ devAddr = addr /\ lowspeed = (plug \in LowSpeed)

(***************************************************************************)
(* MAX_busprobe: J is the idle state of a device of the selected speed, K  *)
(* of the other speed.  The speed and the state follow the line.           *)
(***************************************************************************)
JStatus == plug \in Devices /\ lowspeed = (plug \in LowSpeed)
KStatus == plug \in Devices /\ lowspeed # (plug \in LowSpeed)

\* mutant: the guard is forgotten
OwnResetMissed == FALSE
\* "bus reset causes connection detect interrupt" (MAX3421E.c:175)
OwnReset       == usb_task_state = WAIT_RESET_COMPLETE

MAX_busprobe ==
  \/ /\ JStatus \/ KStatus
     /\ OwnReset
     /\ UNCHANGED <<lowspeed, usb_task_state>>
  \/ /\ JStatus
     /\ ~OwnReset
     /\ usb_task_state' = ATTACHED
     /\ UNCHANGED lowspeed
  \/ /\ KStatus
     /\ ~OwnReset
     /\ usb_task_state' = ATTACHED
     /\ lowspeed' = ~lowspeed
  \/ /\ plug = BadLine
     /\ usb_task_state' = ILLEGAL
     /\ UNCHANGED lowspeed
  \/ /\ plug = NoDevice
     /\ ~Detached(usb_task_state)
     /\ usb_task_state' = INITIALIZE
     /\ UNCHANGED lowspeed
  \/ /\ plug = NoDevice
     /\ Detached(usb_task_state)
     /\ usb_task_state' = WAIT_FOR_DEVICE
     /\ lowspeed' = FALSE

(***************************************************************************)
(* MAX3421E_init: chip reset and MODE, then the bus probe, then the write  *)
(* that clears the connection detect interrupt.                            *)
(***************************************************************************)
InitChipReset ==
  /\ condet' = {}
  /\ busevent' = FALSE
  /\ busrst' = FALSE
  /\ lowspeed' = FALSE
  /\ UNCHANGED <<portVars, hirq, usb_task_state>>

InitProbe ==
  /\ MAX_busprobe
  /\ UNCHANGED <<portVars, condet, busevent, busrst, hirq>>

InitClearCondet ==
  /\ condet' = {}
  /\ UNCHANGED <<portVars, busevent, busrst, lowspeed, hirq, usb_task_state>>

(***************************************************************************)
(* MAX3421E_Task polls the interrupt pin, which only CONDETIRQ drives      *)
(* (HIEN = bmCONDETIE).  MaxIntHandler reads HIRQ once, probes the bus,    *)
(* advances the task state on BUSEVENTIRQ and acknowledges what it read.   *)
(***************************************************************************)
IntPending == condet # {}

IntReadHirq ==
  /\ IntPending
  /\ hirq' = busevent
  /\ UNCHANGED <<portVars, chipVars, usb_task_state>>

IntProbe ==
  /\ MAX_busprobe
  /\ UNCHANGED <<portVars, condet, busevent, busrst, hirq>>

IntAck ==
  /\ usb_task_state' = IF hirq THEN usb_task_state + 1 ELSE usb_task_state
  /\ busevent' = IF hirq THEN FALSE ELSE busevent
  /\ condet' = {}
  /\ hirq' = FALSE
  /\ UNCHANGED <<portVars, busrst, lowspeed>>
=============================================================================
