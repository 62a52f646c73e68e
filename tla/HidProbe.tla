------------------------------ MODULE HidProbe ------------------------------
(***************************************************************************)
(* The class drivers' probes, HIDMProbe and HIDKProbe of usb_kb/HID.c, one *)
(* request and one descriptor at a time: the header of the configuration   *)
(* descriptor is fetched, then the whole of it, into a buffer both probes  *)
(* share; a pointer walks over it by the descriptors' own lengths; the     *)
(* device table is changed at the first interface that fits, and two       *)
(* requests that may fail come after that.  UsbTask takes a probe as one   *)
(* step; the steps below implement that step.                              *)
(***************************************************************************)
EXTENDS Integers

CONSTANTS
  Devices,          \* peripherals that may be enumerated
  Nothing,          \* not a device: bytes, or an endpoint, of none of them
  Config,           \* Devices -> their configuration descriptor, see below
  MaxPktSize,       \* Devices -> the packet size of their endpoint 0
  BufSize,          \* bytes of bigbuf, 256
  USB_NUMDEVICES    \* devtable entries scanned, entry 0 included

CONF_DESCR_LEN == 9
Needed == [config |-> 2, interface |-> 9, endpoint |-> 7, other |-> 2]
                    \* bytes read of a descriptor, by its type
Kinds == {"kbd", "mouse", "other"}
Addr  == 1 .. (USB_NUMDEVICES - 1)

\* A configuration descriptor: its wTotalLength, and the descriptor at each
\* offset where one starts (an interface's class, "other" elsewhere).
Descriptors == [type : DOMAIN Needed, bLength : 0 .. 255, class : Kinds]
Starts(d)   == DOMAIN Config[d].at
Length(d)   == Config[d].length
At(d, o)    == Config[d].at[o]

\* The first interface of a configuration, the only one the probes look at,
\* and the first endpoint after it.
FirstInterface(d, o) ==
  /\ o \in Starts(d) /\ At(d, o).type = "interface"
  /\ \A p \in Starts(d) : p < o => At(d, p).type # "interface"
EndpointAfter(d, o, e) ==
  /\ e \in Starts(d) /\ o < e /\ At(d, e).type = "endpoint"
  /\ \A p \in Starts(d) : o < p /\ p < e => At(d, p).type # "endpoint"

\* The devices obey the standard: the descriptors follow each other without a
\* gap, none shorter than what it must hold, and, as HID.c:17 asks, what is
\* looked for lies in the buffer.
WellFormed(d) ==
  /\ Length(d) \in Nat /\ Length(d) >= CONF_DESCR_LEN
  /\ Starts(d) \subseteq 0 .. (Length(d) - 1)
  /\ Config[d].at \in [Starts(d) -> Descriptors]
  /\ 0 \in Starts(d) /\ At(d, 0).type = "config" /\ At(d, 0).bLength = CONF_DESCR_LEN
  /\ \A o \in Starts(d) :
       /\ At(d, o).bLength >= Needed[At(d, o).type]
       /\ o + At(d, o).bLength \in Starts(d) \cup {Length(d)}
       /\ \A p \in Starts(d) : o < p => o + At(d, o).bLength <= p
  /\ Length(d) <= BufSize \/ \E o, e \in Starts(d) :
       /\ FirstInterface(d, o) /\ EndpointAfter(d, o, e)
       /\ e + Needed["endpoint"] <= BufSize

ASSUME ProbeAssumption ==
  /\ Nothing \notin Devices
  /\ BufSize \in Nat /\ BufSize >= CONF_DESCR_LEN
  /\ USB_NUMDEVICES \in Nat /\ USB_NUMDEVICES > 1
  /\ MaxPktSize \in [Devices -> {8, 16, 32, 64}]
  /\ \A d \in Devices : WellFormed(d)

VARIABLES
  plug,             \* the device being enumerated
  active,           \* whose configuration value it was set to, or Nothing
  boot,             \* it was asked for the boot protocol
  usb_task_state, usb_error,
  tmp_addr,         \* the address the probes are called with
  devtable,         \* [Addr -> [epinfo, devclass]]
  ep0size,          \* epinfo[0].MaxPktSize of dev0ep and of hid_ep
  hid_device,       \* [addr, interface]; interface, and the endpoint below,
  endpoint,         \* as <<device, offset of the descriptor>>
  bigbuf,           \* whose configuration each byte of the buffer is from
  driver,           \* the probe that runs, or the one USB_Task calls next
  pc,               \* where it is
  total_length, byte_ptr, confvalue,
  before            \* history: the table, hid_device.addr and the device's
                    \* configuration when the probe was called

deviceVars == <<plug, active, boot>>
taskVars   == <<usb_task_state, usb_error, tmp_addr>>
tableVars  == <<devtable, ep0size, hid_device, endpoint>>
walkVars   == <<total_length, byte_ptr, confvalue>>
vars == <<deviceVars, taskVars, tableVars, bigbuf, driver, pc, walkVars, before>>

CONFIGURING    == 48
RUNNING        == 64
ERROR          == 255
NoClientDriver == 253
Class  == [HIDMProbe |-> 2, HIDKProbe |-> 1]            \* HID_M, HID_K
Wanted == [HIDMProbe |-> "mouse", HIDKProbe |-> "kbd"]

FreeEntry  == [epinfo |-> "NULL", devclass |-> 0]
ClearTable == [a \in Addr |-> FreeEntry]
Now == [devtable |-> devtable, hidaddr |-> hid_device.addr, configured |-> active # Nothing]
NoCall == [devtable |-> ClearTable, hidaddr |-> 0, configured |-> FALSE]

Init ==
  /\ plug = Nothing /\ active = Nothing /\ boot = FALSE
  /\ usb_task_state = ERROR /\ usb_error = 0 /\ tmp_addr = 0
  /\ devtable = ClearTable
  /\ ep0size = [dev0ep |-> 0, hid_ep |-> 0]
  /\ hid_device = [addr |-> 0, interface |-> <<Nothing, 0>>]
  /\ endpoint = <<Nothing, 0>>
  /\ bigbuf = [i \in 0 .. (BufSize - 1) |-> Nothing]
  /\ driver = "HIDMProbe" /\ pc = "idle"
  /\ total_length = 0 /\ byte_ptr = 0 /\ confvalue = Nothing
  /\ before = NoCall

(***************************************************************************)
(* USB_Task has given a device an address and reached CONFIGURING: a free  *)
(* entry is taken, with whatever class it had, and points to dev0ep.       *)
(***************************************************************************)
Enumerate ==
  /\ usb_task_state # CONFIGURING
  /\ \E d \in Devices, a \in Addr, table \in {devtable, ClearTable} :
       /\ table[a].epinfo = "NULL"
       /\ plug' = d
       /\ tmp_addr' = a
       /\ devtable' = [table EXCEPT ![a].epinfo = "dev0ep"]
       /\ ep0size' = [ep0size EXCEPT !.dev0ep = MaxPktSize[d]]
  /\ active' = Nothing
  /\ boot' = FALSE
  /\ usb_task_state' = CONFIGURING
  /\ driver' = "HIDMProbe"
  /\ UNCHANGED <<usb_error, hid_device, endpoint, bigbuf, pc, walkVars, before>>

\* The next driver of ClientDriverTable.
Call ==
  /\ usb_task_state = CONFIGURING
  /\ pc = "idle"
  /\ pc' = "header"
  /\ byte_ptr' = 0
  /\ before' = Now
  /\ UNCHANGED <<deviceVars, taskVars, tableVars, bigbuf, driver, total_length, confvalue>>

\* USB_Task calls the next driver when a probe returns FALSE, and runs out of
\* them after HIDKProbe; the probe's locals are gone.
Return(found) ==
  /\ pc' = "idle"
  /\ driver' = IF found THEN driver ELSE "HIDKProbe"
  /\ usb_task_state' = IF found THEN RUNNING ELSE IF driver = "HIDKProbe" THEN ERROR ELSE CONFIGURING
  /\ usb_error' = IF ~found /\ driver = "HIDKProbe" THEN NoClientDriver ELSE usb_error
  /\ total_length' = 0 /\ byte_ptr' = 0 /\ confvalue' = Nothing /\ before' = NoCall
  /\ UNCHANGED tmp_addr

(***************************************************************************)
(* The two requests for the descriptor.  The device sends what it has; a   *)
(* request that fails has stored the packets before the failure; and       *)
(* MAXbytes_rd stores one byte more than it was asked for.                 *)
(***************************************************************************)
Stored(n) == [i \in DOMAIN bigbuf |-> IF i < n THEN plug ELSE IF i = n THEN Nothing ELSE bigbuf[i]]

Shorter(m, n) == IF m < n THEN m ELSE n

GetConfDescr(nbytes) == bigbuf' = Stored(Shorter(nbytes, Length(plug)))

GetConfDescrFails(nbytes) ==
  /\ \/ UNCHANGED bigbuf
     \/ \E n \in 1 .. nbytes : n % MaxPktSize[plug] = 0 /\ bigbuf' = Stored(n)
  /\ Return(FALSE)
  /\ UNCHANGED <<deviceVars, tableVars>>

GetHeader ==
  /\ pc = "header"
  /\ GetConfDescr(CONF_DESCR_LEN)
  /\ total_length' = Shorter(BufSize, Length(plug))
  /\ pc' = "whole"
  /\ UNCHANGED <<deviceVars, taskVars, tableVars, driver, byte_ptr, confvalue, before>>

GetHeaderFails == pc = "header" /\ GetConfDescrFails(CONF_DESCR_LEN)

\* Mutant: the header is taken for the whole.
GetWholeSkipped ==
  /\ pc = "whole"
  /\ confvalue' = bigbuf[5]
  /\ pc' = "walk"
  /\ UNCHANGED <<deviceVars, taskVars, tableVars, bigbuf, driver, total_length, byte_ptr, before>>

GetWhole ==
  /\ pc = "whole"
  /\ GetConfDescr(total_length)
  /\ confvalue' = bigbuf'[5]
  /\ pc' = "walk"
  /\ UNCHANGED <<deviceVars, taskVars, tableVars, driver, total_length, byte_ptr, before>>

GetWholeFails == pc = "whole" /\ GetConfDescrFails(total_length)

(***************************************************************************)
(* The walk: to the first interface, and from one that fits to the first   *)
(* endpoint.  Bytes that are not the device's own can look like anything.  *)
(***************************************************************************)
Own(o, n) == \A i \in o .. (o + n - 1) : i \in DOMAIN bigbuf /\ bigbuf[i] = plug

Reads(o) ==
  IF o \in Starts(plug) /\ Own(o, Needed[At(plug, o).type]) THEN {At(plug, o)} ELSE Descriptors

Sought == [walk |-> "interface", endpoint |-> "endpoint"]

Walking == pc \in DOMAIN Sought /\ byte_ptr < total_length

\* Mutant: the endpoint loop moves data_ptr only.
SkipKeepsPointer ==
  /\ Walking
  /\ \E descr \in Reads(byte_ptr) :
       /\ descr.type # Sought[pc]
       /\ byte_ptr' = IF pc = "walk" THEN byte_ptr + descr.bLength ELSE byte_ptr
  /\ UNCHANGED <<deviceVars, taskVars, tableVars, bigbuf, driver, pc, total_length, confvalue, before>>

Skip ==
  /\ Walking
  /\ \E descr \in Reads(byte_ptr) :
       /\ descr.type # Sought[pc]
       /\ byte_ptr' = byte_ptr + descr.bLength
  /\ UNCHANGED <<deviceVars, taskVars, tableVars, bigbuf, driver, pc, total_length, confvalue, before>>

\* Mutant: epinfo is switched before the packet size is saved.
MatchSwitchesFirst ==
  /\ Walking /\ pc = "walk"
  /\ \E descr \in Reads(byte_ptr) :
       /\ descr.type = "interface" /\ descr.class = Wanted[driver]
       /\ byte_ptr' = byte_ptr + descr.bLength
  /\ devtable' = [devtable EXCEPT ![tmp_addr] = [epinfo |-> "hid_ep", devclass |-> Class[driver]]]
  /\ hid_device' = [addr |-> tmp_addr, interface |-> <<bigbuf[byte_ptr], byte_ptr>>]
  /\ pc' = "endpoint"
  /\ UNCHANGED <<deviceVars, taskVars, ep0size, endpoint, bigbuf, driver, total_length, confvalue, before>>

Match ==
  /\ Walking /\ pc = "walk"
  /\ \E descr \in Reads(byte_ptr) :
       /\ descr.type = "interface" /\ descr.class = Wanted[driver]
       /\ byte_ptr' = byte_ptr + descr.bLength
  /\ devtable' = [devtable EXCEPT ![tmp_addr] = [epinfo |-> "hid_ep", devclass |-> Class[driver]]]
  /\ ep0size' = [ep0size EXCEPT !.hid_ep = ep0size[devtable[tmp_addr].epinfo]]
  /\ hid_device' = [addr |-> tmp_addr, interface |-> <<bigbuf[byte_ptr], byte_ptr>>]
  /\ pc' = "endpoint"
  /\ UNCHANGED <<deviceVars, taskVars, endpoint, bigbuf, driver, total_length, confvalue, before>>

Mismatch ==
  /\ Walking /\ pc = "walk"
  /\ \E descr \in Reads(byte_ptr) : descr.type = "interface" /\ descr.class # Wanted[driver]
  /\ Return(FALSE)
  /\ UNCHANGED <<deviceVars, tableVars, bigbuf>>

FillEndpoint ==
  /\ Walking /\ pc = "endpoint"
  /\ \E descr \in Reads(byte_ptr) : descr.type = "endpoint"
  /\ endpoint' = <<bigbuf[byte_ptr], byte_ptr>>
  /\ pc' = "setconf"
  /\ UNCHANGED <<deviceVars, taskVars, devtable, ep0size, hid_device, bigbuf, driver, walkVars, before>>

\* Neither loop finds what it looks for.
EndOfBuffer ==
  /\ pc \in DOMAIN Sought /\ byte_ptr >= total_length
  /\ Return(FALSE)
  /\ UNCHANGED <<deviceVars, tableVars, bigbuf>>

(***************************************************************************)
(* The two requests after it.  The device may have accepted a request      *)
(* whose status stage was lost.                                            *)
(***************************************************************************)
\* Mutant: the result of the request is not looked at.
SetConfUnchecked ==
  /\ pc = "setconf"
  /\ active' \in {active, confvalue}
  /\ pc' = "setproto"
  /\ UNCHANGED <<plug, boot, taskVars, tableVars, bigbuf, driver, walkVars, before>>

SetConf ==
  /\ pc = "setconf"
  /\ active' = confvalue
  /\ pc' = "setproto"
  /\ UNCHANGED <<plug, boot, taskVars, tableVars, bigbuf, driver, walkVars, before>>

SetConfFails ==
  /\ pc = "setconf"
  /\ active' \in {active, confvalue}
  /\ Return(FALSE)
  /\ UNCHANGED <<plug, boot, tableVars, bigbuf>>

SetProto ==
  /\ pc = "setproto"
  /\ boot' = TRUE
  /\ Return(TRUE)
  /\ UNCHANGED <<plug, active, tableVars, bigbuf>>

SetProtoFails ==
  /\ pc = "setproto"
  /\ boot' \in {boot, TRUE}
  /\ Return(FALSE)
  /\ UNCHANGED <<plug, active, tableVars, bigbuf>>

Probe ==
  \/ GetHeader \/ GetHeaderFails \/ GetWhole \/ GetWholeFails
  \/ Skip \/ Match \/ Mismatch \/ FillEndpoint \/ EndOfBuffer
  \/ SetConf \/ SetConfFails \/ SetProto \/ SetProtoFails

Next == Enumerate \/ Call \/ Probe

Spec == Init /\ [][Next]_vars

\* The processor runs on and every request ends (Transfer); nobody is obliged
\* to plug anything in.
FairSpec == Spec /\ WF_vars(Call) /\ WF_vars(Probe)

(***************************************************************************)
(* Properties.                                                             *)
(***************************************************************************)
\* The buffer is shared by both probes and by all devices, and refilled in two
\* requests: whatever a walk looks at was sent by the device being probed,
\* also when its configuration does not fit or an earlier one was longer.
ReadsOwnBytes ==
  Walking => byte_ptr \in Starts(plug) /\ Own(byte_ptr, Needed[At(plug, byte_ptr).type])

\* A device that is served is described by its own first interface: the class,
\* the interface number, the first endpoint after it, the packet size it
\* announced before any probe ran, and it runs its own configuration in the
\* boot protocol, whatever earlier devices and a failed probe left behind.
ServedAsDescribed ==
  usb_task_state = RUNNING =>
    \E o, e \in Starts(plug) :
      /\ FirstInterface(plug, o) /\ EndpointAfter(plug, o, e)
      /\ devtable[tmp_addr] = [epinfo |-> "hid_ep", devclass |-> Class[driver]]
      /\ At(plug, o).class = Wanted[driver]
      /\ hid_device = [addr |-> tmp_addr, interface |-> <<plug, o>>]
      /\ endpoint = <<plug, e>>
      /\ ep0size["hid_ep"] = MaxPktSize[plug]
      /\ active = plug /\ boot

\* Every probe returns: the walk ends for descriptors of any length but 0.
WalkEnds == pc # "idle" ~> pc = "idle"

(***************************************************************************)
(* The inductive invariant behind them.                                    *)
(***************************************************************************)
Drivers == DOMAIN Class
Entries == [epinfo : {"NULL", "dev0ep", "hid_ep"}, devclass : {0, 1, 2}]

TypeOK ==
  /\ plug \in Devices \cup {Nothing} /\ active \in Devices \cup {Nothing} /\ boot \in BOOLEAN
  /\ usb_task_state \in {CONFIGURING, RUNNING, ERROR} /\ usb_error \in {0, NoClientDriver}
  /\ tmp_addr \in Addr \cup {0}
  /\ devtable \in [Addr -> Entries]
  /\ ep0size \in [{"dev0ep", "hid_ep"} -> Nat]
  /\ hid_device.addr \in Addr \cup {0}
  /\ bigbuf \in [0 .. (BufSize - 1) -> Devices \cup {Nothing}]
  /\ driver \in Drivers
  /\ pc \in {"idle", "header", "whole", "walk", "endpoint", "setconf", "setproto"}
  /\ total_length \in 0 .. BufSize /\ byte_ptr \in Nat

\* While a device is configured its entry leads to its packet size.
DeviceInv ==
  /\ pc # "idle" => usb_task_state = CONFIGURING
  /\ usb_task_state # ERROR => plug \in Devices /\ tmp_addr \in Addr
  /\ usb_task_state = CONFIGURING =>
       /\ devtable[tmp_addr].epinfo # "NULL"
       /\ ep0size[devtable[tmp_addr].epinfo] = MaxPktSize[plug]

\* The buffer holds the device's configuration, as far as it fits.
BufferInv ==
  /\ pc \notin {"idle", "header"} => total_length = Shorter(BufSize, Length(plug))
  /\ pc \in {"header", "whole"} => byte_ptr = 0
  /\ pc \in {"walk", "endpoint", "setconf", "setproto"} =>
       /\ \A i \in 0 .. (total_length - 1) : bigbuf[i] = plug
       /\ confvalue = plug
       /\ byte_ptr \in Starts(plug) \cup {Length(plug)}

\* What the first interface that fits has been used for.
Claimed(o) ==
  /\ FirstInterface(plug, o)
  /\ At(plug, o).class = Wanted[driver]
  /\ devtable[tmp_addr] = [epinfo |-> "hid_ep", devclass |-> Class[driver]]
  /\ hid_device = [addr |-> tmp_addr, interface |-> <<plug, o>>]

\* No interface, and after it no endpoint, has been passed over.
WalkInv ==
  /\ pc = "walk" => \A p \in Starts(plug) : p < byte_ptr => At(plug, p).type # "interface"
  /\ pc = "endpoint" =>
       \E o \in Starts(plug) :
         /\ Claimed(o) /\ o < byte_ptr
         /\ \A p \in Starts(plug) : o < p /\ p < byte_ptr => At(plug, p).type # "endpoint"
  /\ pc \in {"setconf", "setproto"} =>
       \E o, e \in Starts(plug) : Claimed(o) /\ EndpointAfter(plug, o, e) /\ endpoint = <<plug, e>>
  /\ pc = "setproto" => active = plug

\* What has changed since the call.
HistoryInv ==
  /\ pc \in {"header", "whole", "walk"} => before = Now
  /\ pc \in {"endpoint", "setconf", "setproto"} =>
       /\ Now.devtable = [before.devtable EXCEPT ![tmp_addr] = [epinfo |-> "hid_ep", devclass |-> Class[driver]]]
       /\ Now.hidaddr = tmp_addr
  /\ pc \in {"endpoint", "setconf"} => Now.configured = before.configured

IndInv == TypeOK /\ DeviceInv /\ BufferInv /\ WalkInv /\ HistoryInv /\ ServedAsDescribed

\* What UsbTask assumes of a device is what its first interface says.
KindOf == [d \in Devices |->
  IF \E o \in Starts(d) : FirstInterface(d, o) /\ At(d, o).class = "mouse" THEN "mouse"
  ELSE IF \E o \in Starts(d) : FirstInterface(d, o) /\ At(d, o).class = "kbd" THEN "kbd"
  ELSE "other"]

\* USB_Task sees the state between two calls only.
Visible == IF pc = "idle" THEN Now ELSE before

Task == INSTANCE UsbTask WITH
  LowSpeed <- {}, NoDevice <- Nothing, BadLine <- "SE1", Kind <- KindOf,
  devAddr <- tmp_addr, configured <- Visible.configured,
  condet <- {}, busevent <- FALSE, busrst <- FALSE, lowspeed <- FALSE, hirq <- FALSE,
  settled <- TRUE, devtable <- Visible.devtable, hidaddr <- Visible.hidaddr

\* Seen from USB_Task, a probe is one of the steps UsbTask takes it for: with
\* every failure in the middle of it, it leaves one of the states they leave.
ProbeIsTaskStep ==
  [][\/ Enumerate
     \/ Task!HIDMProbeTrue \/ Task!HIDMProbeFalse
     \/ Task!HIDKProbeTrue \/ Task!HIDKProbeFalse]_<<plug, taskVars, Visible>>
=============================================================================
