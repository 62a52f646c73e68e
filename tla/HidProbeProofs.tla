--------------------------- MODULE HidProbeProofs ---------------------------
(***************************************************************************)
(* What holds of the probes for every set of devices with well-formed      *)
(* configurations, every size of the buffer and every number of addresses. *)
(***************************************************************************)
EXTENDS HidProbe, TLAPS

USE ProbeAssumption

(***************************************************************************)
(* The configurations.                                                     *)
(***************************************************************************)
LEMMA Formed ==
  ASSUME NEW d \in Devices
  PROVE  /\ Length(d) \in Nat /\ Length(d) >= CONF_DESCR_LEN
         /\ Starts(d) \subseteq 0 .. (Length(d) - 1)
         /\ 0 \in Starts(d)
         /\ \A o \in Starts(d) :
              /\ o \in Nat /\ o < Length(d)
              /\ At(d, o) \in Descriptors
              /\ At(d, o).type \in DOMAIN Needed
              /\ At(d, o).class \in Kinds
              /\ At(d, o).bLength \in 0 .. 255
              /\ At(d, o).bLength >= Needed[At(d, o).type]
              /\ o + At(d, o).bLength \in Starts(d) \cup {Length(d)}
              /\ \A p \in Starts(d) : o < p => o + At(d, o).bLength <= p
         /\ Length(d) <= BufSize \/ \E o, e \in Starts(d) :
              /\ FirstInterface(d, o) /\ EndpointAfter(d, o, e)
              /\ e + Needed["endpoint"] <= BufSize
<1>1. WellFormed(d)
  OBVIOUS
<1>2. /\ Length(d) \in Nat /\ Length(d) >= CONF_DESCR_LEN
      /\ Starts(d) \subseteq 0 .. (Length(d) - 1)
      /\ 0 \in Starts(d)
  BY <1>1 DEF WellFormed
<1>3. ASSUME NEW o \in Starts(d)
      PROVE  /\ o \in Nat /\ o < Length(d)
             /\ At(d, o) \in Descriptors
             /\ At(d, o).bLength >= Needed[At(d, o).type]
             /\ o + At(d, o).bLength \in Starts(d) \cup {Length(d)}
             /\ \A p \in Starts(d) : o < p => o + At(d, o).bLength <= p
  <2>1. At(d, o) \in Descriptors
    BY <1>1 DEF WellFormed, At
  <2>2. o \in Nat /\ o < Length(d)
    BY <1>2
  <2> QED BY <1>1, <2>1, <2>2 DEF WellFormed
<1>4. ASSUME NEW o \in Starts(d)
      PROVE  At(d, o).type \in DOMAIN Needed /\ At(d, o).class \in Kinds /\ At(d, o).bLength \in 0 .. 255
  BY <1>3 DEF Descriptors
<1>5. Length(d) <= BufSize \/ \E o, e \in Starts(d) :
        /\ FirstInterface(d, o) /\ EndpointAfter(d, o, e)
        /\ e + Needed["endpoint"] <= BufSize
  BY <1>1 DEF WellFormed
<1> QED BY <1>2, <1>3, <1>4, <1>5

LEMMA NeededIs ==
  /\ DOMAIN Needed = {"config", "interface", "endpoint", "other"}
  /\ Needed["config"] = 2 /\ Needed["interface"] = 9 /\ Needed["endpoint"] = 7 /\ Needed["other"] = 2
BY DEF Needed

LEMMA NeededBounds ==
  ASSUME NEW t \in DOMAIN Needed
  PROVE  Needed[t] \in 2 .. 9
BY NeededIs

\* A configuration has one first interface.
LEMMA OneFirst ==
  ASSUME NEW d \in Devices, NEW o, NEW p, FirstInterface(d, o), FirstInterface(d, p)
  PROVE  o = p
<1>1. o \in Nat /\ p \in Nat
  BY Formed DEF FirstInterface
<1> QED BY <1>1 DEF FirstInterface

LEMMA ShorterIs ==
  ASSUME NEW m \in Nat, NEW n \in Nat
  PROVE  Shorter(m, n) \in Nat /\ Shorter(m, n) <= m /\ Shorter(m, n) <= n /\ Shorter(m, n) \in {m, n}
BY DEF Shorter

(***************************************************************************)
(* A walk reads the device's own descriptor: when the configuration fits,  *)
(* because every descriptor does; when it does not, because the walk has   *)
(* not got past the endpoint it looks for.                                 *)
(***************************************************************************)
LEMMA WalkIsOwn ==
  ASSUME IndInv, Walking
  PROVE  /\ byte_ptr \in Starts(plug)
         /\ Own(byte_ptr, Needed[At(plug, byte_ptr).type])
         /\ Reads(byte_ptr) = {At(plug, byte_ptr)}
<1>1. plug \in Devices /\ pc \in {"walk", "endpoint"} /\ byte_ptr < total_length /\ byte_ptr \in Nat
  <2>1. DOMAIN Sought = {"walk", "endpoint"}
    BY DEF Sought
  <2>2. pc \in {"walk", "endpoint"} /\ byte_ptr < total_length /\ byte_ptr \in Nat
    BY <2>1 DEF IndInv, TypeOK, Walking
  <2> QED BY <2>2 DEF IndInv, DeviceInv, CONFIGURING, ERROR
<1> DEFINE n == Needed[At(plug, byte_ptr).type]
<1>2. /\ total_length = Shorter(BufSize, Length(plug)) /\ total_length \in Nat
      /\ total_length <= BufSize /\ total_length <= Length(plug)
      /\ \A i \in 0 .. (total_length - 1) : bigbuf[i] = plug
      /\ byte_ptr \in Starts(plug) \cup {Length(plug)}
  <2>1. /\ total_length = Shorter(BufSize, Length(plug))
        /\ \A i \in 0 .. (total_length - 1) : bigbuf[i] = plug
        /\ byte_ptr \in Starts(plug) \cup {Length(plug)}
    BY <1>1 DEF IndInv, BufferInv
  <2>2. Length(plug) \in Nat /\ BufSize \in Nat
    BY <1>1, Formed
  <2> QED BY <2>1, <2>2, ShorterIs
<1>3. byte_ptr \in Starts(plug) /\ byte_ptr < Length(plug)
  BY <1>1, <1>2, Formed
<1>4. /\ At(plug, byte_ptr).bLength \in Nat /\ At(plug, byte_ptr).bLength >= n
      /\ byte_ptr + At(plug, byte_ptr).bLength \in Starts(plug) \cup {Length(plug)}
      /\ \A p \in Starts(plug) : byte_ptr < p => byte_ptr + At(plug, byte_ptr).bLength <= p
      /\ n \in 2 .. 9
  <2>1. /\ At(plug, byte_ptr).type \in DOMAIN Needed
        /\ At(plug, byte_ptr).bLength \in 0 .. 255 /\ At(plug, byte_ptr).bLength >= n
        /\ byte_ptr + At(plug, byte_ptr).bLength \in Starts(plug) \cup {Length(plug)}
        /\ \A p \in Starts(plug) : byte_ptr < p => byte_ptr + At(plug, byte_ptr).bLength <= p
    BY <1>1, <1>3, Formed
  <2>2. n \in 2 .. 9
    BY <2>1, NeededBounds
  <2> QED BY <2>1, <2>2
<1>5. byte_ptr + n <= total_length
  <2>1. CASE Length(plug) <= BufSize
    <3>1. total_length = Length(plug)
      BY <2>1, <1>1, <1>2, Formed DEF Shorter
    <3>2. byte_ptr + At(plug, byte_ptr).bLength <= Length(plug)
      BY <1>1, <1>4, Formed
    <3> QED BY <1>1, <1>4, <3>1, <3>2, Formed
  <2>2. CASE ~(Length(plug) <= BufSize)
    <3>1. total_length = BufSize
      BY <2>2, <1>1, <1>2, Formed DEF Shorter
    <3>2. PICK o, e \in Starts(plug) :
            /\ FirstInterface(plug, o) /\ EndpointAfter(plug, o, e)
            /\ e + Needed["endpoint"] <= BufSize
      BY <2>2, <1>1, Formed
    <3>3. o \in Nat /\ e \in Nat /\ o < e /\ At(plug, e).type = "endpoint" /\ At(plug, o).type = "interface"
      BY <3>2, <1>1, Formed DEF EndpointAfter, FirstInterface
    <3>4. byte_ptr <= e
      <4>1. CASE pc = "walk"
        <5>1. ~(o < byte_ptr)
          BY <4>1, <3>3 DEF IndInv, WalkInv
        <5> QED BY <5>1, <3>3, <1>1
      <4>2. CASE pc = "endpoint"
        <5>1. PICK q \in Starts(plug) :
                /\ Claimed(q) /\ q < byte_ptr
                /\ \A p \in Starts(plug) : q < p /\ p < byte_ptr => At(plug, p).type # "endpoint"
          BY <4>2 DEF IndInv, WalkInv
        <5>2. q = o
          BY <5>1, <3>2, <1>1, OneFirst DEF Claimed
        <5>3. ~(e < byte_ptr)
          BY <5>1, <5>2, <3>3
        <5> QED BY <5>3, <3>3, <1>1
      <4> QED BY <4>1, <4>2, <1>1
    <3>5. CASE byte_ptr = e
      BY <3>1, <3>2, <3>3, <3>5
    <3>6. CASE byte_ptr # e
      <4>1. byte_ptr < e
        BY <3>3, <3>4, <3>6, <1>1
      <4>2. byte_ptr + At(plug, byte_ptr).bLength <= e
        BY <4>1, <1>4
      <4> QED BY <4>2, <3>1, <3>2, <3>3, <1>1, <1>4, NeededIs
    <3> QED BY <3>5, <3>6
  <2> QED BY <2>1, <2>2
<1>6. Own(byte_ptr, n)
  <2> SUFFICES ASSUME NEW i \in byte_ptr .. (byte_ptr + n - 1)
               PROVE  i \in DOMAIN bigbuf /\ bigbuf[i] = plug
    BY DEF Own
  <2>1. i \in 0 .. (total_length - 1)
    BY <1>1, <1>2, <1>4, <1>5
  <2>2. DOMAIN bigbuf = 0 .. (BufSize - 1)
    BY DEF IndInv, TypeOK
  <2> QED BY <2>1, <2>2, <1>2
<1>7. Reads(byte_ptr) = {At(plug, byte_ptr)}
  BY <1>3, <1>6 DEF Reads
<1> QED BY <1>3, <1>6, <1>7

(***************************************************************************)
(* Every step keeps the invariant.                                         *)
(***************************************************************************)
\* Inside a probe a device is being configured.
LEMMA Probing ==
  ASSUME IndInv, pc # "idle"
  PROVE  /\ usb_task_state = CONFIGURING /\ plug \in Devices /\ tmp_addr \in Addr
         /\ devtable[tmp_addr].epinfo \in {"dev0ep", "hid_ep"}
         /\ ep0size[devtable[tmp_addr].epinfo] = MaxPktSize[plug]
<1>1. usb_task_state = CONFIGURING
  BY DEF IndInv, DeviceInv
<1>2. plug \in Devices /\ tmp_addr \in Addr
  BY <1>1 DEF IndInv, DeviceInv, CONFIGURING, ERROR
<1>3. devtable[tmp_addr] \in Entries
  BY <1>2 DEF IndInv, TypeOK
<1> QED BY <1>1, <1>2, <1>3 DEF IndInv, DeviceInv, Entries

LEMMA StoredType ==
  ASSUME IndInv, pc # "idle", NEW n
  PROVE  Stored(n) \in [0 .. (BufSize - 1) -> Devices \cup {Nothing}]
<1>1. DOMAIN bigbuf = 0 .. (BufSize - 1) /\ \A i \in DOMAIN bigbuf : bigbuf[i] \in Devices \cup {Nothing}
  BY DEF IndInv, TypeOK
<1> QED BY <1>1, Probing DEF Stored

\* A probe that returns FALSE, from wherever it is.
LEMMA FalseKeepsInv ==
  ASSUME IndInv, pc # "idle", Return(FALSE), UNCHANGED <<plug, tableVars>>,
         active' \in Devices \cup {Nothing}, boot' \in BOOLEAN,
         bigbuf' \in [0 .. (BufSize - 1) -> Devices \cup {Nothing}]
  PROVE  IndInv'
<1>1. /\ pc' = "idle" /\ driver' = "HIDKProbe"
      /\ usb_task_state' \in {ERROR, CONFIGURING} /\ usb_error' \in {usb_error, NoClientDriver}
      /\ tmp_addr' = tmp_addr /\ total_length' = 0 /\ byte_ptr' = 0
  BY DEF Return
<1>2. plug' = plug /\ devtable' = devtable /\ ep0size' = ep0size /\ hid_device' = hid_device
  BY DEF tableVars
<1>3. "HIDKProbe" \in Drivers
  BY DEF Drivers, Class
<1>4. TypeOK'
  BY <1>1, <1>2, <1>3 DEF IndInv, TypeOK
<1>5. DeviceInv'
  BY <1>1, <1>2, Probing DEF DeviceInv
<1>6. BufferInv' /\ WalkInv' /\ HistoryInv'
  BY <1>1 DEF BufferInv, WalkInv, HistoryInv
<1>7. ServedAsDescribed'
  BY <1>1 DEF ServedAsDescribed, ERROR, CONFIGURING, RUNNING
<1> QED BY <1>4, <1>5, <1>6, <1>7 DEF IndInv

\* What a step inside a probe leaves alone.
LEMMA NotServed ==
  ASSUME IndInv, pc # "idle", UNCHANGED taskVars
  PROVE  ServedAsDescribed' /\ usb_task_state' = CONFIGURING
BY Probing DEF taskVars, ServedAsDescribed, CONFIGURING, RUNNING

LEMMA EnumerateKeepsInv == IndInv /\ Enumerate => IndInv'
<1> SUFFICES ASSUME IndInv, Enumerate PROVE IndInv'
  OBVIOUS
<1>1. pc = "idle" /\ pc' = "idle"
  BY DEF Enumerate, IndInv, DeviceInv
<1>2. PICK d \in Devices, a \in Addr, table \in {devtable, ClearTable} :
        /\ table[a].epinfo = "NULL"
        /\ plug' = d /\ tmp_addr' = a
        /\ devtable' = [table EXCEPT ![a].epinfo = "dev0ep"]
        /\ ep0size' = [ep0size EXCEPT !["dev0ep"] = MaxPktSize[d]]
  BY DEF Enumerate
<1>3. table \in [Addr -> Entries]
  BY DEF IndInv, TypeOK, ClearTable, FreeEntry, Entries
<1>4. devtable' \in [Addr -> Entries] /\ devtable'[a].epinfo = "dev0ep"
  <2>1. table[a] \in Entries
    BY <1>3
  <2>2. [table[a] EXCEPT !.epinfo = "dev0ep"] \in Entries
    BY <2>1 DEF Entries
  <2>3. [table[a] EXCEPT !.epinfo = "dev0ep"].epinfo = "dev0ep"
    BY <2>1 DEF Entries
  <2> QED BY <1>2, <1>3, <2>2, <2>3
<1>5. MaxPktSize[d] \in Nat
  OBVIOUS
<1>6. ep0size' \in [{"dev0ep", "hid_ep"} -> Nat] /\ ep0size'["dev0ep"] = MaxPktSize[d]
  BY <1>2, <1>5 DEF IndInv, TypeOK
<1>7. TypeOK'
  <2>1. /\ active' = Nothing /\ boot' = FALSE /\ usb_task_state' = CONFIGURING /\ driver' = "HIDMProbe"
        /\ usb_error' = usb_error /\ hid_device' = hid_device /\ bigbuf' = bigbuf
        /\ total_length' = total_length /\ byte_ptr' = byte_ptr
    BY DEF Enumerate, walkVars
  <2>2. "HIDMProbe" \in Drivers
    BY DEF Drivers, Class
  <2> QED BY <1>1, <1>2, <1>4, <1>6, <2>1, <2>2 DEF IndInv, TypeOK
<1>8. usb_task_state' = CONFIGURING
  BY DEF Enumerate
<1>9. DeviceInv'
  BY <1>1, <1>2, <1>4, <1>6, <1>8 DEF DeviceInv
<1>10. BufferInv' /\ WalkInv' /\ HistoryInv'
  BY <1>1 DEF BufferInv, WalkInv, HistoryInv
<1>11. ServedAsDescribed'
  BY <1>8 DEF ServedAsDescribed, CONFIGURING, RUNNING
<1> QED BY <1>7, <1>9, <1>10, <1>11 DEF IndInv

LEMMA CallKeepsInv == IndInv /\ Call => IndInv'
<1> SUFFICES ASSUME IndInv, Call PROVE IndInv'
  OBVIOUS
<1> USE DEF Call, deviceVars, taskVars, tableVars
<1>1. TypeOK'
  BY DEF IndInv, TypeOK
<1>2. DeviceInv'
  BY DEF IndInv, DeviceInv
<1>3. BufferInv' /\ WalkInv'
  BY DEF BufferInv, WalkInv
<1>4. HistoryInv'
  BY DEF HistoryInv, Now
<1>5. ServedAsDescribed'
  BY DEF ServedAsDescribed, CONFIGURING, RUNNING
<1> QED BY <1>1, <1>2, <1>3, <1>4, <1>5 DEF IndInv

LEMMA GetHeaderKeepsInv == IndInv /\ GetHeader => IndInv'
<1> SUFFICES ASSUME IndInv, GetHeader PROVE IndInv'
  OBVIOUS
<1> USE DEF deviceVars, taskVars, tableVars
<1>1. /\ pc = "header" /\ pc' = "whole" /\ total_length' = Shorter(BufSize, Length(plug))
      /\ UNCHANGED <<deviceVars, taskVars, tableVars, driver, byte_ptr, confvalue, before>>
  BY DEF GetHeader
<1>2. bigbuf' \in [0 .. (BufSize - 1) -> Devices \cup {Nothing}]
  BY <1>1, StoredType DEF GetHeader, GetConfDescr
<1>3. total_length' \in 0 .. BufSize
  BY <1>1, Probing, Formed, ShorterIs
<1>4. TypeOK'
  BY <1>1, <1>2, <1>3 DEF IndInv, TypeOK
<1>5. DeviceInv'
  BY <1>1 DEF IndInv, DeviceInv
<1>6. BufferInv' /\ WalkInv' /\ HistoryInv'
  BY <1>1 DEF IndInv, BufferInv, WalkInv, HistoryInv, Now
<1> QED BY <1>1, <1>4, <1>5, <1>6, NotServed DEF IndInv

LEMMA GetWholeKeepsInv == IndInv /\ GetWhole => IndInv'
<1> SUFFICES ASSUME IndInv, GetWhole PROVE IndInv'
  OBVIOUS
<1> USE DEF deviceVars, taskVars, tableVars
<1>1. /\ pc = "whole" /\ pc' = "walk"
      /\ UNCHANGED <<deviceVars, taskVars, tableVars, driver, total_length, byte_ptr, before>>
      /\ bigbuf' = Stored(Shorter(total_length, Length(plug))) /\ confvalue' = bigbuf'[5]
  BY DEF GetWhole, GetConfDescr
<1>2. bigbuf' \in [0 .. (BufSize - 1) -> Devices \cup {Nothing}]
  BY <1>1, StoredType
<1>3. TypeOK'
  BY <1>1, <1>2 DEF IndInv, TypeOK
<1>4. DeviceInv'
  BY <1>1 DEF IndInv, DeviceInv
<1>5. /\ plug \in Devices /\ Length(plug) \in Nat /\ Length(plug) >= 9 /\ 0 \in Starts(plug)
      /\ total_length = Shorter(BufSize, Length(plug)) /\ byte_ptr = 0
  BY <1>1, Probing, Formed DEF IndInv, BufferInv, CONF_DESCR_LEN
<1>6. Shorter(total_length, Length(plug)) = total_length /\ total_length \in Nat
      /\ total_length >= 9 /\ total_length <= BufSize
  BY <1>5 DEF Shorter, CONF_DESCR_LEN
<1>7. \A i \in 0 .. (total_length - 1) : bigbuf'[i] = plug
  <2>1. DOMAIN bigbuf = 0 .. (BufSize - 1)
    BY DEF IndInv, TypeOK
  <2> QED BY <1>1, <1>6, <2>1 DEF Stored
<1>8. BufferInv'
  BY <1>1, <1>5, <1>6, <1>7 DEF BufferInv, Starts, Length
<1>9. WalkInv'
  <2>1. \A p \in Starts(plug) : ~(p < 0)
    BY <1>5, Formed
  <2> QED BY <1>1, <1>5, <2>1 DEF WalkInv, Starts, At
<1>10. HistoryInv'
  BY <1>1 DEF IndInv, HistoryInv, Now
<1> QED BY <1>1, <1>3, <1>4, <1>8, <1>9, <1>10, NotServed DEF IndInv

LEMMA GetFailsKeepsInv ==
  ASSUME IndInv, pc # "idle", NEW nbytes, GetConfDescrFails(nbytes)
  PROVE  IndInv'
<1>1. bigbuf' \in [0 .. (BufSize - 1) -> Devices \cup {Nothing}]
  BY StoredType DEF GetConfDescrFails, IndInv, TypeOK
<1> QED BY <1>1, FalseKeepsInv DEF GetConfDescrFails, deviceVars, IndInv, TypeOK

\* Where the walk is after a descriptor, and what it has passed.
LEMMA Past ==
  ASSUME IndInv, Walking, byte_ptr' = byte_ptr + At(plug, byte_ptr).bLength
  PROVE  /\ byte_ptr' \in Nat /\ byte_ptr < byte_ptr'
         /\ byte_ptr' \in Starts(plug) \cup {Length(plug)}
         /\ \A p \in Starts(plug) : p < byte_ptr' => p < byte_ptr \/ p = byte_ptr
<1>1. byte_ptr \in Starts(plug) /\ plug \in Devices
  <2>1. DOMAIN Sought = {"walk", "endpoint"}
    BY DEF Sought
  <2>2. pc # "idle"
    BY <2>1 DEF Walking
  <2> QED BY <2>2, WalkIsOwn, Probing
<1>2. /\ At(plug, byte_ptr).type \in DOMAIN Needed
      /\ At(plug, byte_ptr).bLength \in 0 .. 255
      /\ At(plug, byte_ptr).bLength >= Needed[At(plug, byte_ptr).type]
      /\ byte_ptr + At(plug, byte_ptr).bLength \in Starts(plug) \cup {Length(plug)}
      /\ \A p \in Starts(plug) : byte_ptr < p => byte_ptr + At(plug, byte_ptr).bLength <= p
  BY <1>1, Formed
<1>3. At(plug, byte_ptr).bLength > 0 /\ byte_ptr \in Nat
  BY <1>1, <1>2, NeededBounds, Formed
<1>4. \A p \in Starts(plug) : p \in Nat
  BY <1>1, Formed
<1> QED BY <1>2, <1>3, <1>4

LEMMA SkipKeepsInv == IndInv /\ Skip => IndInv'
<1> SUFFICES ASSUME IndInv, Skip PROVE IndInv'
  OBVIOUS
<1> USE DEF deviceVars, taskVars, tableVars
<1>1. /\ Walking /\ At(plug, byte_ptr).type # Sought[pc]
      /\ byte_ptr' = byte_ptr + At(plug, byte_ptr).bLength
      /\ UNCHANGED <<deviceVars, taskVars, tableVars, bigbuf, driver, pc, total_length, confvalue, before>>
  BY WalkIsOwn DEF Skip
<1>2. /\ byte_ptr' \in Nat /\ byte_ptr < byte_ptr'
      /\ byte_ptr' \in Starts(plug) \cup {Length(plug)}
      /\ \A p \in Starts(plug) : p < byte_ptr' => p < byte_ptr \/ p = byte_ptr
  BY <1>1, Past
<1>3. pc \in {"walk", "endpoint"} /\ Sought["walk"] = "interface" /\ Sought["endpoint"] = "endpoint"
  <2>1. DOMAIN Sought = {"walk", "endpoint"} /\ Sought["walk"] = "interface" /\ Sought["endpoint"] = "endpoint"
    BY DEF Sought
  <2> QED BY <1>1, <2>1 DEF Walking
<1>4. TypeOK'
  BY <1>1, <1>2 DEF IndInv, TypeOK
<1>5. DeviceInv'
  BY <1>1 DEF IndInv, DeviceInv
<1>6. BufferInv'
  BY <1>1, <1>2, <1>3 DEF IndInv, BufferInv, Starts, Length
<1>7. WalkInv'
  <2>1. CASE pc = "walk"
    <3>1. \A p \in Starts(plug) : p < byte_ptr' => At(plug, p).type # "interface"
      BY <2>1, <1>1, <1>2, <1>3 DEF IndInv, WalkInv
    <3> QED BY <3>1, <2>1, <1>1 DEF WalkInv, Starts, At
  <2>2. CASE pc = "endpoint"
    <3>1. PICK o \in Starts(plug) :
            /\ Claimed(o) /\ o < byte_ptr
            /\ \A p \in Starts(plug) : o < p /\ p < byte_ptr => At(plug, p).type # "endpoint"
      BY <2>2 DEF IndInv, WalkInv
    <3>2. \A p \in Starts(plug) : o < p /\ p < byte_ptr' => At(plug, p).type # "endpoint"
      BY <3>1, <2>2, <1>1, <1>2, <1>3
    <3>3. o < byte_ptr'
      <4>1. o \in Nat /\ byte_ptr \in Nat
        BY <1>1, <2>2, Formed, Probing DEF IndInv, TypeOK
      <4> QED BY <4>1, <3>1, <1>2
    <3>4. Claimed(o)'
      BY <3>1, <1>1 DEF Claimed, FirstInterface, Starts, At
    <3> QED BY <3>2, <3>3, <3>4, <2>2, <1>1 DEF WalkInv, Starts, At
  <2> QED BY <2>1, <2>2, <1>3
<1>8. HistoryInv'
  BY <1>1 DEF IndInv, HistoryInv, Now
<1> QED BY <1>1, <1>3, <1>4, <1>5, <1>6, <1>7, <1>8, NotServed DEF IndInv

LEMMA MatchKeepsInv == IndInv /\ Match => IndInv'
<1> SUFFICES ASSUME IndInv, Match PROVE IndInv'
  OBVIOUS
<1> USE DEF deviceVars, taskVars
<1> DEFINE entry == [epinfo |-> "hid_ep", devclass |-> Class[driver]]
<1>1. /\ Walking /\ pc = "walk" /\ pc' = "endpoint"
      /\ At(plug, byte_ptr).type = "interface" /\ At(plug, byte_ptr).class = Wanted[driver]
      /\ byte_ptr' = byte_ptr + At(plug, byte_ptr).bLength
      /\ UNCHANGED <<deviceVars, taskVars, endpoint, bigbuf, driver, total_length, confvalue, before>>
  BY WalkIsOwn DEF Match
<1>2. /\ devtable' = [devtable EXCEPT ![tmp_addr] = entry]
      /\ ep0size' = [ep0size EXCEPT !["hid_ep"] = ep0size[devtable[tmp_addr].epinfo]]
      /\ hid_device' = [addr |-> tmp_addr, interface |-> <<bigbuf[byte_ptr], byte_ptr>>]
  BY DEF Match
<1>3. byte_ptr \in Starts(plug) /\ bigbuf[byte_ptr] = plug
  <2>1. byte_ptr \in Starts(plug) /\ Own(byte_ptr, Needed[At(plug, byte_ptr).type])
    BY <1>1, WalkIsOwn
  <2>2. Needed[At(plug, byte_ptr).type] = 9 /\ byte_ptr \in Nat
    BY <1>1, NeededIs DEF IndInv, TypeOK
  <2> QED BY <2>1, <2>2 DEF Own
<1>4. /\ plug \in Devices /\ tmp_addr \in Addr
      /\ ep0size[devtable[tmp_addr].epinfo] = MaxPktSize[plug] /\ MaxPktSize[plug] \in Nat
  BY <1>1, Probing
<1>5. entry \in Entries
  <2>1. Class[driver] \in {1, 2}
    BY DEF IndInv, TypeOK, Drivers, Class
  <2> QED BY <2>1 DEF Entries
<1>6. devtable \in [Addr -> Entries] /\ ep0size \in [{"dev0ep", "hid_ep"} -> Nat]
  BY DEF IndInv, TypeOK
<1>7. /\ devtable' \in [Addr -> Entries] /\ devtable'[tmp_addr] = entry
      /\ ep0size' \in [{"dev0ep", "hid_ep"} -> Nat] /\ ep0size'["hid_ep"] = MaxPktSize[plug]
      /\ hid_device' = [addr |-> tmp_addr, interface |-> <<plug, byte_ptr>>]
  BY <1>2, <1>3, <1>4, <1>5, <1>6
<1>8. /\ byte_ptr' \in Nat /\ byte_ptr < byte_ptr'
      /\ byte_ptr' \in Starts(plug) \cup {Length(plug)}
      /\ \A p \in Starts(plug) : p < byte_ptr' => p < byte_ptr \/ p = byte_ptr
  BY <1>1, Past
<1>9. TypeOK'
  <2>1. hid_device'.addr \in Addr \cup {0}
    BY <1>4, <1>7
  <2> QED BY <1>1, <1>7, <1>8, <2>1 DEF IndInv, TypeOK
<1>10. DeviceInv'
  BY <1>1, <1>4, <1>7, Probing DEF DeviceInv
<1>11. BufferInv'
  BY <1>1, <1>8 DEF IndInv, BufferInv, Starts, Length
<1>12. WalkInv'
  <2>1. FirstInterface(plug, byte_ptr)
    BY <1>1, <1>3 DEF IndInv, WalkInv, FirstInterface
  <2>2. \E o \in Starts(plug) :
          /\ FirstInterface(plug, o) /\ At(plug, o).class = Wanted[driver]
          /\ devtable'[tmp_addr] = entry /\ hid_device' = [addr |-> tmp_addr, interface |-> <<plug, o>>]
          /\ o < byte_ptr'
          /\ \A p \in Starts(plug) : ~(o < p /\ p < byte_ptr')
    <3>1. \A p \in Starts(plug) : ~(byte_ptr < p /\ p < byte_ptr')
      <4>1. \A p \in Starts(plug) : p \in Nat
        BY <1>4, Formed
      <4> QED BY <4>1, <1>3, <1>8
    <3> QED BY <3>1, <2>1, <1>1, <1>3, <1>7, <1>8
  <2> QED BY <2>2, <1>1 DEF WalkInv, Claimed, FirstInterface, Starts, At
<1>13. HistoryInv'
  <2>1. before = Now
    BY <1>1 DEF IndInv, HistoryInv
  <2>2. before.devtable = devtable /\ before.configured = (active # Nothing)
    BY <2>1 DEF Now
  <2>3. Now'.devtable = devtable' /\ Now'.hidaddr = tmp_addr /\ Now'.configured = (active # Nothing)
    BY <1>1, <1>7 DEF Now
  <2> QED BY <1>1, <1>2, <2>2, <2>3 DEF HistoryInv
<1> QED BY <1>1, <1>9, <1>10, <1>11, <1>12, <1>13, NotServed DEF IndInv

LEMMA MismatchKeepsInv == IndInv /\ Mismatch => IndInv'
BY FalseKeepsInv DEF Mismatch, deviceVars, IndInv, TypeOK

LEMMA EndOfBufferKeepsInv == IndInv /\ EndOfBuffer => IndInv'
<1>1. DOMAIN Sought = {"walk", "endpoint"}
  BY DEF Sought
<1> QED BY <1>1, FalseKeepsInv DEF EndOfBuffer, deviceVars, IndInv, TypeOK

LEMMA FillEndpointKeepsInv == IndInv /\ FillEndpoint => IndInv'
<1> SUFFICES ASSUME IndInv, FillEndpoint PROVE IndInv'
  OBVIOUS
<1> USE DEF deviceVars, taskVars, walkVars
<1>1. /\ Walking /\ pc = "endpoint" /\ pc' = "setconf"
      /\ At(plug, byte_ptr).type = "endpoint"
      /\ endpoint' = <<bigbuf[byte_ptr], byte_ptr>>
      /\ UNCHANGED <<deviceVars, taskVars, devtable, ep0size, hid_device, bigbuf, driver, walkVars, before>>
  BY WalkIsOwn DEF FillEndpoint
<1>2. byte_ptr \in Starts(plug) /\ bigbuf[byte_ptr] = plug
  <2>1. byte_ptr \in Starts(plug) /\ Own(byte_ptr, Needed[At(plug, byte_ptr).type])
    BY <1>1, WalkIsOwn
  <2>2. Needed[At(plug, byte_ptr).type] = 7 /\ byte_ptr \in Nat
    BY <1>1, NeededIs DEF IndInv, TypeOK
  <2> QED BY <2>1, <2>2 DEF Own
<1>3. TypeOK'
  BY <1>1 DEF IndInv, TypeOK
<1>4. DeviceInv'
  BY <1>1 DEF IndInv, DeviceInv
<1>5. BufferInv'
  BY <1>1 DEF IndInv, BufferInv, Starts, Length
<1>6. WalkInv'
  <2>1. PICK o \in Starts(plug) :
          /\ Claimed(o) /\ o < byte_ptr
          /\ \A p \in Starts(plug) : o < p /\ p < byte_ptr => At(plug, p).type # "endpoint"
    BY <1>1 DEF IndInv, WalkInv
  <2>2. EndpointAfter(plug, o, byte_ptr)
    BY <2>1, <1>1, <1>2 DEF EndpointAfter
  <2>3. Claimed(o)' /\ endpoint' = <<plug, byte_ptr>>
    BY <2>1, <1>1, <1>2 DEF Claimed, FirstInterface, Starts, At
  <2>4. \E q, e \in Starts(plug) : Claimed(q)' /\ EndpointAfter(plug, q, e) /\ endpoint' = <<plug, e>>
    BY <2>1, <2>2, <2>3, <1>2
  <2> QED BY <2>4, <1>1 DEF WalkInv, EndpointAfter, Starts, At
<1>7. HistoryInv'
  BY <1>1 DEF IndInv, HistoryInv, Now
<1> QED BY <1>1, <1>3, <1>4, <1>5, <1>6, <1>7, NotServed DEF IndInv

LEMMA SetConfKeepsInv == IndInv /\ SetConf => IndInv'
<1> SUFFICES ASSUME IndInv, SetConf PROVE IndInv'
  OBVIOUS
<1> USE DEF taskVars, tableVars, walkVars
<1>1. /\ pc = "setconf" /\ pc' = "setproto" /\ active' = confvalue
      /\ UNCHANGED <<plug, boot, taskVars, tableVars, bigbuf, driver, walkVars, before>>
  BY DEF SetConf
<1>2. confvalue = plug /\ plug \in Devices
  BY <1>1, Probing DEF IndInv, BufferInv
<1>3. TypeOK'
  BY <1>1, <1>2 DEF IndInv, TypeOK
<1>4. DeviceInv'
  BY <1>1 DEF IndInv, DeviceInv
<1>5. BufferInv'
  BY <1>1 DEF IndInv, BufferInv, Starts, Length
<1>6. WalkInv'
  <2>1. PICK o, e \in Starts(plug) : Claimed(o) /\ EndpointAfter(plug, o, e) /\ endpoint = <<plug, e>>
    BY <1>1 DEF IndInv, WalkInv
  <2>2. Claimed(o)'
    BY <2>1, <1>1 DEF Claimed, FirstInterface, Starts, At
  <2> QED BY <2>1, <2>2, <1>1, <1>2 DEF WalkInv, EndpointAfter, Starts, At
<1>7. HistoryInv'
  BY <1>1 DEF IndInv, HistoryInv, Now
<1> QED BY <1>1, <1>3, <1>4, <1>5, <1>6, <1>7, NotServed DEF IndInv

LEMMA SetConfFailsKeepsInv == IndInv /\ SetConfFails => IndInv'
<1> SUFFICES ASSUME IndInv, SetConfFails PROVE IndInv'
  OBVIOUS
<1>1. pc = "setconf" /\ confvalue = plug /\ active' \in {active, confvalue} /\ bigbuf' = bigbuf /\ boot' = boot
  BY DEF SetConfFails, IndInv, BufferInv
<1>2. active' \in Devices \cup {Nothing} /\ boot' \in BOOLEAN
      /\ bigbuf' \in [0 .. (BufSize - 1) -> Devices \cup {Nothing}]
  BY <1>1 DEF IndInv, TypeOK
<1> QED BY <1>1, <1>2, FalseKeepsInv DEF SetConfFails

LEMMA SetProtoKeepsInv == IndInv /\ SetProto => IndInv'
<1> SUFFICES ASSUME IndInv, SetProto PROVE IndInv'
  OBVIOUS
<1>1. /\ pc = "setproto" /\ pc' = "idle" /\ boot' = TRUE /\ driver' = driver
      /\ usb_task_state' = RUNNING /\ usb_error' = usb_error /\ tmp_addr' = tmp_addr
      /\ total_length' = 0 /\ byte_ptr' = 0
      /\ plug' = plug /\ active' = active /\ bigbuf' = bigbuf
      /\ devtable' = devtable /\ ep0size' = ep0size /\ hid_device' = hid_device /\ endpoint' = endpoint
  BY DEF SetProto, Return, tableVars
<1>2. TypeOK'
  BY <1>1 DEF IndInv, TypeOK
<1>3. DeviceInv'
  BY <1>1, Probing DEF DeviceInv, CONFIGURING, RUNNING
<1>4. BufferInv' /\ WalkInv' /\ HistoryInv'
  BY <1>1 DEF BufferInv, WalkInv, HistoryInv
<1>5. ServedAsDescribed'
  <2>1. PICK o, e \in Starts(plug) : Claimed(o) /\ EndpointAfter(plug, o, e) /\ endpoint = <<plug, e>>
    BY <1>1 DEF IndInv, WalkInv
  <2>2. active = plug
    BY <1>1 DEF IndInv, WalkInv
  <2>3. devtable[tmp_addr].epinfo = "hid_ep"
    BY <2>1 DEF Claimed
  <2>4. ep0size["hid_ep"] = MaxPktSize[plug]
    BY <1>1, <2>3, Probing
  <2> QED BY <1>1, <2>1, <2>2, <2>4 DEF ServedAsDescribed, Claimed, FirstInterface, EndpointAfter, Starts, At
<1> QED BY <1>2, <1>3, <1>4, <1>5 DEF IndInv

LEMMA SetProtoFailsKeepsInv == IndInv /\ SetProtoFails => IndInv'
BY FalseKeepsInv DEF SetProtoFails, IndInv, TypeOK

LEMMA InitInv == Init => IndInv
<1> SUFFICES ASSUME Init PROVE IndInv
  OBVIOUS
<1>1. ClearTable \in [Addr -> Entries]
  BY DEF ClearTable, FreeEntry, Entries
<1>2. ep0size \in [{"dev0ep", "hid_ep"} -> Nat]
  BY DEF Init
<1>3. TypeOK
  <2>1. hid_device.addr = 0 /\ driver = "HIDMProbe" /\ pc = "idle" /\ byte_ptr = 0 /\ total_length = 0
    BY DEF Init
  <2>2. "HIDMProbe" \in Drivers
    BY DEF Drivers, Class
  <2>3. bigbuf \in [0 .. (BufSize - 1) -> Devices \cup {Nothing}]
    BY DEF Init
  <2>4. devtable \in [Addr -> Entries]
    BY <1>1 DEF Init
  <2>5. /\ plug = Nothing /\ active = Nothing /\ boot = FALSE /\ usb_task_state = ERROR
        /\ usb_error = 0 /\ tmp_addr = 0
    BY DEF Init
  <2>6. /\ usb_task_state \in {CONFIGURING, RUNNING, ERROR} /\ usb_error \in {0, NoClientDriver}
        /\ tmp_addr \in Addr \cup {0} /\ hid_device.addr \in Addr \cup {0}
        /\ plug \in Devices \cup {Nothing} /\ active \in Devices \cup {Nothing} /\ boot \in BOOLEAN
    BY <2>1, <2>5
  <2>7. total_length \in 0 .. BufSize /\ byte_ptr \in Nat
    BY <2>1
  <2> QED BY <1>2, <2>1, <2>2, <2>3, <2>4, <2>6, <2>7 DEF TypeOK
<1>4. DeviceInv /\ BufferInv /\ WalkInv /\ HistoryInv /\ ServedAsDescribed
  BY DEF Init, DeviceInv, BufferInv, WalkInv, HistoryInv, ServedAsDescribed, CONFIGURING, RUNNING, ERROR
<1> QED BY <1>3, <1>4 DEF IndInv

LEMMA NextKeepsInv == IndInv /\ [Next]_vars => IndInv'
<1> SUFFICES ASSUME IndInv, [Next]_vars PROVE IndInv'
  OBVIOUS
<1>1. CASE Enumerate  BY <1>1, EnumerateKeepsInv
<1>2. CASE Call  BY <1>2, CallKeepsInv
<1>3. CASE GetHeader  BY <1>3, GetHeaderKeepsInv
<1>4. CASE GetHeaderFails  BY <1>4, GetFailsKeepsInv DEF GetHeaderFails
<1>5. CASE GetWhole  BY <1>5, GetWholeKeepsInv
<1>6. CASE GetWholeFails  BY <1>6, GetFailsKeepsInv DEF GetWholeFails
<1>7. CASE Skip  BY <1>7, SkipKeepsInv
<1>8. CASE Match  BY <1>8, MatchKeepsInv
<1>9. CASE Mismatch  BY <1>9, MismatchKeepsInv
<1>10. CASE FillEndpoint  BY <1>10, FillEndpointKeepsInv
<1>11. CASE EndOfBuffer  BY <1>11, EndOfBufferKeepsInv
<1>12. CASE SetConf  BY <1>12, SetConfKeepsInv
<1>13. CASE SetConfFails  BY <1>13, SetConfFailsKeepsInv
<1>14. CASE SetProto  BY <1>14, SetProtoKeepsInv
<1>15. CASE SetProtoFails  BY <1>15, SetProtoFailsKeepsInv
<1>16. CASE UNCHANGED vars
  <2> USE DEF vars, deviceVars, taskVars, tableVars, walkVars
  <2>1. TypeOK' /\ DeviceInv' /\ BufferInv'
    BY <1>16 DEF IndInv, TypeOK, DeviceInv, BufferInv, Starts, Length
  <2>2. WalkInv' /\ HistoryInv'
    BY <1>16 DEF IndInv, WalkInv, HistoryInv, Now, Claimed, FirstInterface, EndpointAfter, Starts, At
  <2>3. ServedAsDescribed'
    BY <1>16 DEF IndInv, ServedAsDescribed, FirstInterface, EndpointAfter, Starts, At
  <2> QED BY <2>1, <2>2, <2>3 DEF IndInv
<1> QED BY <1>1, <1>2, <1>3, <1>4, <1>5, <1>6, <1>7, <1>8, <1>9, <1>10, <1>11, <1>12, <1>13,
          <1>14, <1>15, <1>16 DEF Next, Probe

\* The probes keep their invariant: where they are in the buffer, whose bytes
\* it holds and what they have changed so far always fit together.
THEOREM ProbeInvariant == Spec => []IndInv
BY InitInv, NextKeepsInv, PTL DEF Spec

\* Whatever a walk looks at was sent by the device being probed.
THEOREM OwnBytes == Spec => []ReadsOwnBytes
<1>1. IndInv => ReadsOwnBytes
  BY WalkIsOwn DEF ReadsOwnBytes
<1> QED BY <1>1, ProbeInvariant, PTL

\* A device that is served is described by its own first interface.
THEOREM Served == Spec => []ServedAsDescribed
<1>1. IndInv => ServedAsDescribed
  BY DEF IndInv
<1> QED BY <1>1, ProbeInvariant, PTL

(***************************************************************************)
(* Seen from USB_Task, a probe is one of UsbTask's steps.  What USB_Task   *)
(* sees changes when a probe returns; HistoryInv says what it then sees.   *)
(***************************************************************************)
TaskStep ==
  \/ Enumerate
  \/ Task!HIDMProbeTrue \/ Task!HIDMProbeFalse
  \/ Task!HIDKProbeTrue \/ Task!HIDKProbeFalse

SeenVars == <<plug, taskVars, Visible>>

\* A step inside a probe is not seen.
LEMMA Unseen ==
  ASSUME pc # "idle", pc' # "idle", UNCHANGED <<plug, taskVars, before>>
  PROVE  UNCHANGED SeenVars
BY DEF SeenVars, Visible, taskVars

LEMMA CallUnseen == IndInv /\ Call => UNCHANGED SeenVars
BY DEF Call, SeenVars, Visible, taskVars, deviceVars, IndInv, HistoryInv, Now

\* The kinds UsbTask tells apart are the classes the probes look for.
LEMMA KindIs ==
  ASSUME NEW d \in Devices, NEW o, FirstInterface(d, o), At(d, o).class \in {"mouse", "kbd"}
  PROVE  KindOf[d] = At(d, o).class
<1>1. ASSUME NEW p \in Starts(d), FirstInterface(d, p) PROVE p = o
  BY <1>1, OneFirst
<1>2. o \in Starts(d)
  BY DEF FirstInterface
<1> QED BY <1>1, <1>2 DEF KindOf

\* A probe that had not claimed its interface declines.
LEMMA Declined ==
  ASSUME IndInv, pc \in {"header", "whole", "walk"}, Return(FALSE),
         UNCHANGED <<deviceVars, tableVars>>
  PROVE  [TaskStep]_SeenVars
<1>1. Visible' = Visible
  <2>1. Visible = before /\ before = Now
    BY DEF Visible, IndInv, HistoryInv
  <2>2. Visible' = Now'
    BY DEF Visible, Return
  <2>3. Now' = Now
    BY DEF Now, deviceVars, tableVars
  <2> QED BY <2>1, <2>2, <2>3
<1>2. CASE driver = "HIDMProbe"
  <2>1. UNCHANGED taskVars
    BY <1>2, Probing DEF Return, taskVars
  <2> QED BY <1>1, <2>1 DEF SeenVars, deviceVars
<1>3. CASE driver = "HIDKProbe"
  <2>1. /\ usb_task_state = 48 /\ usb_task_state' = 255 /\ usb_error' = 253 /\ tmp_addr' = tmp_addr
        /\ plug' = plug
    BY <1>3, Probing DEF Return, deviceVars, CONFIGURING, ERROR, NoClientDriver
  <2>2. Task!HIDKProbeFalse
    BY <1>1, <2>1 DEF Task!HIDKProbeFalse, Task!ProbeReturnsFalse, Task!ProbeDeclines, Task!Fail,
       Task!portVars, Task!chipVars, Task!CONFIGURING, Task!ERROR, Task!NoClientDriver
  <2> QED BY <2>2 DEF TaskStep
<1>4. driver \in {"HIDMProbe", "HIDKProbe"}
  <2>1. Drivers = {"HIDMProbe", "HIDKProbe"}
    BY DEF Drivers, Class
  <2> QED BY <2>1 DEF IndInv, TypeOK
<1> QED BY <1>2, <1>3, <1>4

\* What a probe that has claimed its interface leaves behind.
LEMMA ClaimSeen ==
  ASSUME IndInv, pc \in {"endpoint", "setconf", "setproto"}, pc' = "idle",
         UNCHANGED <<plug, tmp_addr, tableVars>>
  PROVE  /\ Visible'.devtable = [Visible.devtable EXCEPT ![tmp_addr] =
                                   [epinfo |-> "hid_ep", devclass |-> Class[driver]]]
         /\ Visible'.hidaddr = tmp_addr
         /\ Visible'.configured = (active' # Nothing)
         /\ plug \in Devices /\ KindOf[plug] = Wanted[driver]
         /\ usb_task_state = 48
         /\ pc # "setproto" => Visible.configured = (active # Nothing)
<1>1. Visible = before /\ Visible' = Now'
  BY DEF Visible
<1>2. /\ Now.devtable = [before.devtable EXCEPT ![tmp_addr] = [epinfo |-> "hid_ep", devclass |-> Class[driver]]]
      /\ Now.hidaddr = tmp_addr
      /\ pc # "setproto" => Now.configured = before.configured
  BY DEF IndInv, HistoryInv
<1>3. Now'.devtable = Now.devtable /\ Now'.hidaddr = Now.hidaddr /\ Now'.configured = (active' # Nothing)
      /\ Now.configured = (active # Nothing)
  BY DEF Now, tableVars
<1>4. PICK o \in Starts(plug) : Claimed(o)
  BY DEF IndInv, WalkInv
<1>5. plug \in Devices /\ usb_task_state = 48
  BY Probing DEF CONFIGURING
<1>6. Wanted[driver] \in {"mouse", "kbd"}
  BY DEF IndInv, TypeOK, Drivers, Class, Wanted
<1>7. KindOf[plug] = Wanted[driver]
  BY <1>4, <1>5, <1>6, KindIs DEF Claimed
<1> QED BY <1>1, <1>2, <1>3, <1>5, <1>7

LEMMA ClaimedReturnsFalse ==
  ASSUME IndInv, pc \in {"endpoint", "setconf", "setproto"}, Return(FALSE),
         UNCHANGED <<plug, tableVars>>, active' \in {active, confvalue}, pc = "setproto" => active' = active
  PROVE  [TaskStep]_SeenVars
<1> DEFINE class == Class[driver]
<1>1. /\ Visible'.devtable = [Visible.devtable EXCEPT ![tmp_addr] = [epinfo |-> "hid_ep", devclass |-> class]]
      /\ Visible'.hidaddr = tmp_addr
      /\ Visible'.configured = (active' # Nothing)
      /\ plug \in Devices /\ KindOf[plug] = Wanted[driver]
      /\ usb_task_state = 48
      /\ pc # "setproto" => Visible.configured = (active # Nothing)
  BY ClaimSeen DEF Return
<1>2. Visible'.configured \in {Visible.configured, TRUE}
  <2>1. CASE active' = Nothing
    <3>1. pc # "setproto" /\ active' = active
      BY <2>1, <1>1 DEF IndInv, WalkInv, BufferInv
    <3> QED BY <3>1, <1>1
  <2>2. CASE active' # Nothing
    BY <2>2, <1>1
  <2> QED BY <2>1, <2>2
<1>3. plug' = plug /\ tmp_addr' = tmp_addr
  BY DEF Return
<1>4. ASSUME NEW kind, kind = Wanted[driver]
      PROVE  Task!ProbeReturnsFalse(kind, class)
  <2>1. Task!ProbeClaims(kind, class)
    BY <1>1, <1>3, <1>4 DEF Task!ProbeClaims, Task!Answers, Task!chipVars
  <2> QED BY <1>2, <2>1 DEF Task!ProbeReturnsFalse
<1>5. CASE driver = "HIDMProbe"
  <2>1. usb_task_state' = 48 /\ usb_error' = usb_error
    BY <1>5 DEF Return, CONFIGURING
  <2>2. class = 2 /\ Wanted[driver] = "mouse"
    BY <1>5 DEF Class, Wanted
  <2>3. Task!HIDMProbeFalse
    BY <1>1, <1>4, <2>1, <2>2 DEF Task!HIDMProbeFalse, Task!GoTo, Task!CONFIGURING, Task!HID_M
  <2> QED BY <2>3 DEF TaskStep
<1>6. CASE driver = "HIDKProbe"
  <2>1. usb_task_state' = 255 /\ usb_error' = 253
    BY <1>6 DEF Return, ERROR, NoClientDriver
  <2>2. class = 1 /\ Wanted[driver] = "kbd"
    BY <1>6 DEF Class, Wanted
  <2>3. Task!HIDKProbeFalse
    BY <1>1, <1>4, <2>1, <2>2 DEF Task!HIDKProbeFalse, Task!Fail, Task!CONFIGURING, Task!ERROR,
       Task!NoClientDriver, Task!HID_K
  <2> QED BY <2>3 DEF TaskStep
<1>7. driver \in {"HIDMProbe", "HIDKProbe"}
  <2>1. Drivers = {"HIDMProbe", "HIDKProbe"}
    BY DEF Drivers, Class
  <2> QED BY <2>1 DEF IndInv, TypeOK
<1> QED BY <1>5, <1>6, <1>7

LEMMA ReturnsTrue ==
  ASSUME IndInv, SetProto
  PROVE  TaskStep
<1> DEFINE class == Class[driver]
<1>1. /\ pc = "setproto" /\ pc' = "idle" /\ plug' = plug /\ active' = active /\ tmp_addr' = tmp_addr
      /\ UNCHANGED tableVars /\ usb_task_state' = 64 /\ usb_error' = usb_error
  BY DEF SetProto, Return, RUNNING
<1>2. /\ Visible'.devtable = [Visible.devtable EXCEPT ![tmp_addr] = [epinfo |-> "hid_ep", devclass |-> class]]
      /\ Visible'.hidaddr = tmp_addr
      /\ Visible'.configured = (active' # Nothing)
      /\ plug \in Devices /\ KindOf[plug] = Wanted[driver]
      /\ usb_task_state = 48
  BY <1>1, ClaimSeen
<1>3. Visible'.configured = TRUE
  BY <1>1, <1>2 DEF IndInv, WalkInv
<1>4. ASSUME NEW kind, kind = Wanted[driver]
      PROVE  Task!ProbeReturnsTrue(kind, class)
  BY <1>1, <1>2, <1>3, <1>4 DEF Task!ProbeReturnsTrue, Task!ProbeClaims, Task!Answers, Task!chipVars,
     Task!GoTo, Task!RUNNING
<1>5. CASE driver = "HIDMProbe"
  <2>1. class = 2 /\ Wanted[driver] = "mouse"
    BY <1>5 DEF Class, Wanted
  <2> QED BY <1>2, <1>4, <2>1 DEF TaskStep, Task!HIDMProbeTrue, Task!CONFIGURING, Task!HID_M
<1>6. CASE driver = "HIDKProbe"
  <2>1. class = 1 /\ Wanted[driver] = "kbd"
    BY <1>6 DEF Class, Wanted
  <2> QED BY <1>2, <1>4, <2>1 DEF TaskStep, Task!HIDKProbeTrue, Task!CONFIGURING, Task!HID_K
<1>7. driver \in {"HIDMProbe", "HIDKProbe"}
  <2>1. Drivers = {"HIDMProbe", "HIDKProbe"}
    BY DEF Drivers, Class
  <2> QED BY <2>1 DEF IndInv, TypeOK
<1> QED BY <1>5, <1>6, <1>7

LEMMA StepSeen == IndInv /\ [Next]_vars => [TaskStep]_SeenVars
<1> SUFFICES ASSUME IndInv, [Next]_vars PROVE [TaskStep]_SeenVars
  OBVIOUS
<1> USE DEF deviceVars, taskVars, tableVars, walkVars
<1>1. CASE Enumerate  BY <1>1 DEF TaskStep
<1>2. CASE Call  BY <1>2, CallUnseen
<1>3. CASE GetHeader  BY <1>3, Unseen DEF GetHeader
<1>4. CASE GetHeaderFails  BY <1>4, Declined DEF GetHeaderFails, GetConfDescrFails
<1>5. CASE GetWhole  BY <1>5, Unseen DEF GetWhole
<1>6. CASE GetWholeFails  BY <1>6, Declined DEF GetWholeFails, GetConfDescrFails
<1>7. CASE Skip
  <2>1. DOMAIN Sought = {"walk", "endpoint"}
    BY DEF Sought
  <2> QED BY <1>7, <2>1, Unseen DEF Skip, Walking
<1>8. CASE Match  BY <1>8, Unseen DEF Match
<1>9. CASE Mismatch  BY <1>9, Declined DEF Mismatch
<1>10. CASE FillEndpoint  BY <1>10, Unseen DEF FillEndpoint
<1>11. CASE EndOfBuffer
  <2>1. DOMAIN Sought = {"walk", "endpoint"}
    BY DEF Sought
  <2> QED BY <1>11, <2>1, Declined, ClaimedReturnsFalse DEF EndOfBuffer
<1>12. CASE SetConf  BY <1>12, Unseen DEF SetConf
<1>13. CASE SetConfFails  BY <1>13, ClaimedReturnsFalse DEF SetConfFails
<1>14. CASE SetProto  BY <1>14, ReturnsTrue
<1>15. CASE SetProtoFails  BY <1>15, ClaimedReturnsFalse DEF SetProtoFails
<1>16. CASE UNCHANGED vars  BY <1>16 DEF vars, SeenVars, Visible, Now
<1> QED BY <1>1, <1>2, <1>3, <1>4, <1>5, <1>6, <1>7, <1>8, <1>9, <1>10, <1>11, <1>12, <1>13,
          <1>14, <1>15, <1>16 DEF Next, Probe

\* The probes, every failure in the middle of them included, are the steps
\* that UsbTask takes them for.
THEOREM ProbesAreTaskSteps == Spec => ProbeIsTaskStep
<1>1. IndInv /\ [Next]_vars =>
        [\/ Enumerate
         \/ Task!HIDMProbeTrue \/ Task!HIDMProbeFalse
         \/ Task!HIDKProbeTrue \/ Task!HIDKProbeFalse]_<<plug, taskVars, Visible>>
  BY StepSeen DEF TaskStep, SeenVars
<1> QED BY <1>1, ProbeInvariant, PTL DEF Spec, ProbeIsTaskStep
=============================================================================
