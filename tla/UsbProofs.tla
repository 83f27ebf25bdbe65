------------------------------ MODULE UsbProofs ------------------------------
(***************************************************************************)
(* Proofs about what a game has on its usb ports, part by part, as MCUsb   *)
(* checks it: first the handles and the list of busses of UsbStack, for    *)
(* every set of devices and every number of scans; then a driver that      *)
(* opens its board (IoUsb), the links of the drives (UsbFix), the bits of  *)
(* the boards (IoBoards), and the answers of the dongles (Dogs).           *)
(*                                                                         *)
(* BaseInv is inductive: besides the properties it says that a handle is   *)
(* one of its own device, without which closing one device could clear the *)
(* latch of another, and that a finished scan has enumerated every virtual *)
(* device, without which an open could pass it by.                         *)
(***************************************************************************)
EXTENDS UsbStack, IoUsb, UsbFix, IoBoards, Dogs, FiniteSetTheorems, SequenceTheorems, WellFoundedInduction, TLAPS

HandleOfDevice == \A d \in Devices : held[d] # NULL => held[d].dev = d

ScanEnumerates == phase = "devices" => conf.emulated \subseteq enumerated

BaseInv == HandleTypes /\ HandleOfDevice /\ ScanEnumerates /\ RealIsSuppressed
             /\ LatchIsHeld

OpenInv == BaseInv /\ HeldIsOpen

\* A handle that khack or exit has latched is the one the game holds.
LEMMA LatchedIsHeld ==
  ASSUME HandleTypes, LatchIsHeld, Latched # NULL
  PROVE  Latched = held[PIUIO]
BY DEF HandleTypes, LatchIsHeld, Latched

\* The types of the handles are invariant.
LEMMA HandleTypesStep ==
  ASSUME HandleTypes, LatchIsHeld, [Next]_vars
  PROVE  HandleTypes'
<1> USE PiuioIsDevice, NullIsNoHandle, DriversAreBoolean
      DEF HandleTypes, Handles, Confs
<1>1. CASE UsbInit
  BY <1>1 DEF UsbInit, devVars, handleVars
<1>2. CASE UsbFindBusses
  BY <1>2 DEF UsbFindBusses, devVars, handleVars
<1>3. CASE UsbFindDevices
  BY <1>3 DEF UsbFindDevices, Enumerates, devVars, handleVars
<1>4. CASE UsbOpenLatched
  BY <1>4, LatchedIsHeld DEF UsbOpenLatched, Latches, enumVars, devVars
<1>5. ASSUME NEW d \in Devices, UsbOpen(d)
      PROVE  HandleTypes'
  BY <1>5 DEF UsbOpen, OpensDevice, ImplOpens, Latches, enumVars
<1>6. ASSUME NEW d \in Devices, UsbClose(d)
      PROVE  HandleTypes'
  BY <1>6 DEF UsbClose, Unlatches, ClosesDevice, enumVars
<1>7. ASSUME NEW d \in Devices, UsbReset(d)
      PROVE  HandleTypes'
  BY <1>7 DEF UsbReset, ResetDevice, enumVars, handleVars
<1>8. ASSUME NEW d \in Devices, UsbResetFails(d)
      PROVE  HandleTypes'
  BY <1>8 DEF UsbResetFails, ResetFailed, enumVars
<1>9. CASE UNCHANGED vars
  BY <1>9 DEF vars, enumVars, devVars, handleVars
<1>10. ASSUME NEW d \in Boards, MoveBoard(d)
       PROVE  HandleTypes'
  BY <1>10 DEF MoveBoard, enumVars, devVars, handleVars
<1> QED
  BY <1>1, <1>2, <1>3, <1>4, <1>5, <1>6, <1>7, <1>8, <1>9, <1>10 DEF Next

\* A step of the game keeps BaseInv.
LEMMA BaseStep ==
  ASSUME BaseInv, [Next]_vars
  PROVE  BaseInv'
<1>t. HandleTypes'
  BY HandleTypesStep DEF BaseInv
<1> SUFFICES (HandleOfDevice /\ ScanEnumerates /\ RealIsSuppressed
                /\ LatchIsHeld)'
  BY <1>t DEF BaseInv
<1> USE PiuioIsDevice, NullIsNoHandle DEF BaseInv
<1> USE DEF HandleOfDevice, ScanEnumerates, RealIsSuppressed, LatchIsHeld
<1>1. CASE UsbInit
  BY <1>1 DEF UsbInit, devVars, handleVars
<1>2. CASE UsbFindBusses
  BY <1>2 DEF UsbFindBusses, devVars, handleVars
<1>3. CASE UsbFindDevices
  BY <1>3 DEF UsbFindDevices, Enumerates, devVars, handleVars
<1>4. CASE UsbOpenLatched
  <2>1. Latched = held[PIUIO]
    BY <1>4, LatchedIsHeld DEF UsbOpenLatched
  <2>2. UNCHANGED <<held, khack, exit>>
    BY <1>4, <2>1 DEF UsbOpenLatched, Latches, HandleTypes
  <2> QED
    BY <1>4, <2>2 DEF UsbOpenLatched, enumVars, devVars
<1>5. ASSUME NEW d \in Devices, UsbOpen(d)
      PROVE  (HandleOfDevice /\ ScanEnumerates /\ RealIsSuppressed
                /\ LatchIsHeld)'
  <2> USE <1>5 DEF UsbOpen
  <2>1. PICK h \in Handles : /\ OpensDevice(d, h)
                             /\ Latches(d, h)
                             /\ held' = [held EXCEPT ![d] = h]
    OBVIOUS
  <2>2. h.dev = d /\ h # NULL
    BY <2>1 DEF OpensDevice, Handles
  <2>3. HandleOfDevice'
    BY <2>1, <2>2 DEF HandleTypes
  <2>4. ScanEnumerates'
    BY DEF enumVars
  <2>5. RealIsSuppressed'
    BY <2>1 DEF OpensDevice, IsVirtual, FindsForOpen, enumVars
  <2>6. LatchIsHeld'
    BY <2>1 DEF Latches, HandleTypes
  <2> QED
    BY <2>3, <2>4, <2>5, <2>6
<1>6. ASSUME NEW d \in Devices, UsbClose(d)
      PROVE  (HandleOfDevice /\ ScanEnumerates /\ RealIsSuppressed
                /\ LatchIsHeld)'
  <2> USE <1>6 DEF UsbClose
  <2>1. HandleOfDevice' /\ ScanEnumerates' /\ RealIsSuppressed'
    BY DEF ClosesDevice, enumVars, HandleTypes
  <2>2. d # PIUIO => held[d] # held[PIUIO]
    BY DEF HandleTypes
  <2>3. LatchIsHeld'
    <3>1. CASE d = PIUIO
      BY <3>1 DEF Unlatches, HandleTypes
    <3>2. CASE d # PIUIO
      BY <3>2, <2>2 DEF Unlatches, HandleTypes
    <3> QED
      BY <3>1, <3>2
  <2> QED
    BY <2>1, <2>3
<1>7. ASSUME NEW d \in Devices, UsbReset(d)
      PROVE  (HandleOfDevice /\ ScanEnumerates /\ RealIsSuppressed
                /\ LatchIsHeld)'
  BY <1>7 DEF UsbReset, enumVars, handleVars
<1>8. ASSUME NEW d \in Devices, UsbResetFails(d)
      PROVE  (HandleOfDevice /\ ScanEnumerates /\ RealIsSuppressed
                /\ LatchIsHeld)'
  BY <1>8 DEF UsbResetFails, enumVars
<1>9. CASE UNCHANGED vars
  BY <1>9 DEF vars, enumVars, devVars, handleVars
<1>10. ASSUME NEW d \in Boards, MoveBoard(d)
       PROVE  (HandleOfDevice /\ ScanEnumerates /\ RealIsSuppressed
                 /\ LatchIsHeld)'
  BY <1>10 DEF MoveBoard, enumVars, devVars, handleVars
<1> QED
  BY <1>1, <1>2, <1>3, <1>4, <1>5, <1>6, <1>7, <1>8, <1>9, <1>10 DEF Next

LEMMA BaseInit == Init => BaseInv
BY PiuioIsDevice, NullIsNoHandle
   DEF Init, BaseInv, HandleTypes, HandleOfDevice, ScanEnumerates,
       RealIsSuppressed, LatchIsHeld

LEMMA BaseAlways == Spec => []BaseInv
BY BaseInit, BaseStep, PTL DEF Spec

\* The latches of khack and exit are exactly the handle the game holds of the
\* PIUIO: a later open or message is never matched with a handle that is gone.
THEOREM LatchesAreHeld == Spec => []LatchIsHeld
<1>1. BaseInv => LatchIsHeld
  BY DEF BaseInv
<1> QED
  BY <1>1, BaseAlways, PTL

\* An emulated device is never opened through libusb.
THEOREM EmulatedIsNeverReal == Spec => []RealIsSuppressed
<1>1. BaseInv => RealIsSuppressed
  BY DEF BaseInv
<1> QED
  BY <1>1, BaseAlways, PTL

-----------------------------------------------------------------------------
(* Handles and open devices, for implementations that open afresh.         *)

\* HeldIsOpen for one device.
HeldOpen(d) ==
  /\ (held[d] # NULL /\ d \notin broken) =>
        d \in (IF held[d].kind = "virtual" THEN api ELSE real)
  /\ d \in api => held[d] = [dev |-> d, kind |-> "virtual"]
  /\ d \in real => held[d] = [dev |-> d, kind |-> "real"]

LEMMA OpenStep ==
  ASSUME TRUE \notin Drivers, OpenInv, [Next]_vars
  PROVE  HeldIsOpen'
<1> USE PiuioIsDevice, NullIsNoHandle DEF OpenInv, BaseInv
<1>d. ~conf.driver
  BY DriversAreBoolean DEF HandleTypes, Confs
<1>1. CASE UsbInit
  BY <1>1 DEF UsbInit, devVars, handleVars, HeldIsOpen
<1>2. CASE UsbFindBusses
  BY <1>2 DEF UsbFindBusses, devVars, handleVars, HeldIsOpen
<1>3. CASE UsbFindDevices
  BY <1>3 DEF UsbFindDevices, devVars, handleVars, HeldIsOpen
<1>4. CASE UsbOpenLatched
  <2>1. Latched = held[PIUIO]
    BY <1>4, LatchedIsHeld DEF UsbOpenLatched
  <2>2. UNCHANGED held
    BY <1>4, <2>1 DEF UsbOpenLatched, HandleTypes
  <2> QED
    BY <1>4, <2>2 DEF UsbOpenLatched, devVars, HeldIsOpen
<1>5. ASSUME NEW d \in Devices, UsbOpen(d)
      PROVE  HeldIsOpen'
  <2> USE <1>5 DEF UsbOpen
  <2>0. held[d] = NULL
    BY DEF FindsForOpen
  <2>1. PICK h \in Handles : /\ OpensDevice(d, h)
                             /\ held' = [held EXCEPT ![d] = h]
    OBVIOUS
  <2>2. held'[d] = h /\ \A e \in Devices \ {d} : held'[e] = held[e]
    BY <2>1 DEF HandleTypes
  <2>3. d \notin broken' /\ broken' = broken
    BY DEF FindsForOpen
  <2>r. NULL # [dev |-> d, kind |-> "real"]
        /\ NULL # [dev |-> d, kind |-> "virtual"]
    OBVIOUS
  <2>c. d \notin real /\ d \notin api
    BY <2>0, <2>r DEF HeldIsOpen
  <2>4. \/ /\ h = [dev |-> d, kind |-> "virtual"]
           /\ api' = api \cup {d} /\ real' = real
        \/ /\ h = [dev |-> d, kind |-> "real"]
           /\ real' = real \cup {d} /\ api' = api
    BY <2>1, <1>d DEF OpensDevice, ImplOpens
  <2> SUFFICES ASSUME NEW e \in Devices
               PROVE  HeldOpen(e)'
    BY DEF HeldIsOpen, HeldOpen
  <2>5. CASE e = d
    BY <2>2, <2>3, <2>4, <2>5, <2>c DEF HeldOpen
  <2>6. CASE e # d
    <3>1. HeldOpen(e)
      BY DEF HeldIsOpen, HeldOpen
    <3> QED
      BY <2>2, <2>3, <2>4, <2>6, <3>1 DEF HeldOpen
  <2> QED
    BY <2>5, <2>6
<1>6. ASSUME NEW d \in Devices, UsbClose(d)
      PROVE  HeldIsOpen'
  <2> USE <1>6 DEF UsbClose
  <2>1. held'[d] = NULL /\ \A e \in Devices \ {d} : held'[e] = held[e]
    BY DEF HandleTypes
  <2>3. d \notin api' /\ d \notin real'
    <3>1. CASE held[d].kind = "virtual"
      <4>1. d \notin real
        <5>1. [dev |-> d, kind |-> "real"].kind = "real"
          OBVIOUS
        <5>2. HeldOpen(d)
          BY DEF HeldIsOpen, HeldOpen
        <5> QED
          BY <3>1, <5>1, <5>2 DEF HeldOpen
      <4> QED
        BY <3>1, <4>1 DEF ClosesDevice
    <3>2. CASE held[d].kind # "virtual"
      <4>1. d \notin api
        <5>1. [dev |-> d, kind |-> "virtual"].kind = "virtual"
          OBVIOUS
        <5>2. HeldOpen(d)
          BY DEF HeldIsOpen, HeldOpen
        <5> QED
          BY <3>2, <5>1, <5>2 DEF HeldOpen
      <4> QED
        BY <3>2, <4>1 DEF ClosesDevice
    <3> QED
      BY <3>1, <3>2
  <2>4. api \ {d} \subseteq api' /\ api' \subseteq api
        /\ real \ {d} \subseteq real' /\ real' \subseteq real
    BY DEF ClosesDevice
  <2> SUFFICES ASSUME NEW e \in Devices
               PROVE  HeldOpen(e)'
    BY DEF HeldIsOpen, HeldOpen
  <2>5. CASE e = d
    BY <2>1, <2>3, <2>5 DEF HeldOpen
  <2>6. CASE e # d
    <3>1. HeldOpen(e) /\ broken' = broken \ {d}
      BY DEF HeldIsOpen, HeldOpen
    <3> QED
      BY <2>1, <2>4, <2>6, <3>1 DEF HeldOpen
  <2> QED
    BY <2>5, <2>6
<1>7. ASSUME NEW d \in Devices, UsbReset(d)
      PROVE  HeldIsOpen'
  BY <1>7, <1>d DEF UsbReset, ResetDevice, handleVars, HeldIsOpen
<1>8. ASSUME NEW d \in Devices, UsbResetFails(d)
      PROVE  HeldIsOpen'
  BY <1>8 DEF UsbResetFails, ResetFailed, HeldIsOpen
<1>9. CASE UNCHANGED vars
  BY <1>9 DEF vars, devVars, handleVars, HeldIsOpen
<1>10. ASSUME NEW d \in Boards, MoveBoard(d)
       PROVE  HeldIsOpen'
  BY <1>10 DEF MoveBoard, devVars, handleVars, HeldIsOpen
<1> QED
  BY <1>1, <1>2, <1>3, <1>4, <1>5, <1>6, <1>7, <1>8, <1>9, <1>10 DEF Next

\* A handle the game holds leads to an open device, and every open device has
\* its handle held, if the ptapi implementations open afresh each time.
THEOREM HeldHandlesAreOpen ==
  ASSUME TRUE \notin Drivers
  PROVE  Spec => []HeldIsOpen
<1>1. Init => OpenInv
  BY BaseInit DEF Init, OpenInv, HeldIsOpen
<1>2. OpenInv /\ [Next]_vars => OpenInv'
  BY BaseStep, OpenStep DEF OpenInv
<1>3. OpenInv => HeldIsOpen
  BY DEF OpenInv
<1> QED
  BY <1>1, <1>2, <1>3, PTL DEF Spec

-----------------------------------------------------------------------------
(* Enumeration.                                                            *)
(*                                                                         *)
(* ListInv is inductive.  That a device is found at most once rests on     *)
(* FakesApart; that it is found at all, after usb-emu.c saw one of its own *)
(* fakes and took it for the real device, on SeenStay: what a scan has     *)
(* seen of the fakes, no later scan removes.  Boards that came or went     *)
(* between the scans are left out of what it says.                         *)

Fakes(d) == Copies(d) \ {Own}

Started ==
  /\ real_inits = (IF init_count = 0 THEN 0 ELSE 1)
  /\ init_count = 2 => scans > 0
  /\ scans = 0 => avail = {}

OwnListed ==
  /\ phase # "none" => scans > 0
  /\ scans > 0 => init_count > 0 /\ Own \in DOMAIN busses
  /\ phase = "busses" => scans \notin DOMAIN busses

FakesApart ==
  \A b \in DOMAIN busses \ {Own} :
    /\ busses[b] \subseteq conf.emulated /\ busses[b] \cap attached \subseteq moved
    /\ \A c \in DOMAIN busses \ {Own} : b # c => busses[b] \cap busses[c] = {}

RescanClears ==
  phase = "busses" /\ ~conf.keep_busses /\ init_count = 1 => DOMAIN busses = {Own}

SeenStay ==
  \A d \in avail \ (attached \cup moved) :
    Fakes(d) # {} /\ conf.keep_devs /\ (conf.keep_busses \/ init_count = 2)

AllListed ==
  phase = "devices" => \A d \in conf.emulated \ (attached \cup moved) : Fakes(d) # {}

ListInv ==
  /\ TypeOK /\ avail \subseteq conf.emulated
  /\ Started /\ OwnListed /\ FakesApart /\ RescanClears /\ SeenStay /\ AllListed

LEMMA ListInit == Init => ListInv
<1> SUFFICES ASSUME Init PROVE ListInv
  OBVIOUS
<1>1. HandleTypes
  BY BaseInit DEF BaseInv
<1>2. TypeOK
  BY <1>1, MaxScansIsNat DEF Init, TypeOK
<1> QED
  BY <1>2 DEF Init, ListInv, Started, OwnListed, FakesApart, RescanClears, SeenStay,
              AllListed

\* A forwarded usb_find_busses keeps libusb's own bus, and of the fake ones all
\* or none.
LEMMA FindBussesLists ==
  ASSUME ListInv, UsbFindBusses
  PROVE  /\ busses' \in [DOMAIN busses' -> SUBSET Devices]
         /\ Own \in DOMAIN busses'
         /\ DOMAIN busses' \subseteq DOMAIN busses \cup {Own}
         /\ \A b \in DOMAIN busses' \ {Own} : busses'[b] = busses[b]
         /\ conf.keep_busses \/ init_count = 2 => DOMAIN busses \subseteq DOMAIN busses'
         /\ ~conf.keep_busses /\ init_count = 1 => DOMAIN busses' = {Own}
<1> USE DEF ListInv, TypeOK, UsbFindBusses
<1>0. NativeWorks
  BY DEF Started, NativeWorks
<1>1. CASE init_count = 1
  <2>1. busses' = NativeBusses
    BY <1>1 DEF ForwardsFindBusses
  <2>2. DOMAIN NativeBusses
          = {Own} \cup (IF conf.keep_busses THEN DOMAIN busses \ {Own} ELSE {})
    BY <1>0 DEF NativeBusses
  <2>3. \A b \in DOMAIN NativeBusses :
          NativeBusses[b] = IF b \in DOMAIN busses THEN busses[b] ELSE {}
    BY DEF NativeBusses
  <2>4. NativeBusses \in [DOMAIN NativeBusses -> SUBSET Devices]
    BY DEF NativeBusses
  <2> QED
    BY <1>1, <2>1, <2>2, <2>3, <2>4
<1>2. CASE init_count = 2
  <2>1. busses' = busses
    BY <1>2 DEF ForwardsFindBusses
  <2>2. Own \in DOMAIN busses
    BY <1>2 DEF OwnListed, Started
  <2> QED
    BY <1>2, <2>1, <2>2
<1> QED
  BY <1>1, <1>2

\* What usb_find_devices leaves: each bus with what the rescan found, and one
\* more with the fakes of the devices that were not seen.
LEMMA FindDevicesLists ==
  ASSUME ListInv, UsbFindDevices
  PROVE  /\ scans \notin DOMAIN busses /\ scans # Own
         /\ busses' \in [DOMAIN busses \cup {scans} -> SUBSET Devices]
         /\ DOMAIN busses' = DOMAIN busses \cup {scans}
         /\ busses'[Own] = attached
         /\ \A b \in DOMAIN busses \ {Own} :
              busses'[b] = IF conf.keep_devs THEN busses[b] ELSE {}
         /\ busses'[scans] = conf.emulated \ avail'
         /\ avail' = avail \cup (conf.emulated
                                   \cap (attached \cup UNION {busses'[b] : b \in DOMAIN busses \ {Own}}))
<1> USE DEF ListInv, TypeOK
<1>0. NativeWorks
  BY DEF UsbFindDevices, Started, OwnListed, NativeWorks
<1>1. scans \notin DOMAIN busses /\ Own \in DOMAIN busses /\ scans # Own
  BY DEF UsbFindDevices, OwnListed, Own
<1>2. /\ DOMAIN Rescanned = DOMAIN busses
      /\ Rescanned[Own] = attached
      /\ \A b \in DOMAIN busses \ {Own} :
           Rescanned[b] = IF conf.keep_devs THEN busses[b] ELSE {}
  BY <1>0, <1>1 DEF Rescanned
<1>3. avail' = avail \cup (OnBusses(Rescanned) \cap conf.emulated)
  BY DEF UsbFindDevices, Seen
<1>4. busses' = [b \in DOMAIN busses \cup {scans} |->
                   IF b = scans THEN conf.emulated \ avail' ELSE Rescanned[b]]
  BY <1>3 DEF UsbFindDevices, Injected, Seen
<1>5. /\ DOMAIN busses' = DOMAIN busses \cup {scans}
      /\ busses'[scans] = conf.emulated \ avail'
      /\ \A b \in DOMAIN busses : busses'[b] = Rescanned[b]
  BY <1>1, <1>4
<1>6. OnBusses(Rescanned)
        = attached \cup UNION {busses'[b] : b \in DOMAIN busses \ {Own}}
  <2>1. OnBusses(Rescanned) = UNION {Rescanned[b] : b \in DOMAIN busses}
    BY <1>2 DEF OnBusses
  <2>2. UNION {Rescanned[b] : b \in DOMAIN busses}
          = Rescanned[Own] \cup UNION {Rescanned[b] : b \in DOMAIN busses \ {Own}}
    BY <1>1
  <2>3. UNION {Rescanned[b] : b \in DOMAIN busses \ {Own}}
          = UNION {busses'[b] : b \in DOMAIN busses \ {Own}}
    BY <1>5
  <2> QED
    BY <2>1, <2>2, <2>3, <1>2
<1>7. busses' \in [DOMAIN busses \cup {scans} -> SUBSET Devices]
  <2>1. conf.emulated \subseteq Devices
    BY DEF HandleTypes, Confs
  <2>2. \A b \in DOMAIN busses : Rescanned[b] \subseteq Devices
    BY <1>2, BoardsAreDevices
  <2> QED
    BY <1>4, <2>1, <2>2
<1> QED
  BY <1>1, <1>2, <1>3, <1>5, <1>6, <1>7

\* One step per action; the actions on handles leave the list alone.
LEMMA ListStep ==
  ASSUME BaseInv, ListInv, [Next]_vars
  PROVE  ListInv'
<1>t. HandleTypes'
  BY HandleTypesStep DEF BaseInv
<1>1. CASE UsbInit
  <2> USE <1>1 DEF UsbInit, ListInv
  <2>1. TypeOK' /\ (avail \subseteq conf.emulated)'
    BY <1>t DEF TypeOK, Counted, ForwardsInit, boardVars
  <2>2. Started'
    BY DEF Started, Counted, ForwardsInit, TypeOK
  <2>3. OwnListed' /\ FakesApart' /\ AllListed'
    BY DEF OwnListed, FakesApart, AllListed, Fakes, Copies, Counted, TypeOK, boardVars
  <2>4. RescanClears' /\ SeenStay'
    BY DEF RescanClears, SeenStay, Fakes, Copies, OwnListed, Counted, TypeOK, boardVars
  <2> QED
    BY <2>1, <2>2, <2>3, <2>4
<1>2. CASE UsbFindBusses
  <2> USE <1>2 DEF ListInv
  <2>l. /\ busses' \in [DOMAIN busses' -> SUBSET Devices]
        /\ Own \in DOMAIN busses'
        /\ DOMAIN busses' \subseteq DOMAIN busses \cup {Own}
        /\ \A b \in DOMAIN busses' \ {Own} : busses'[b] = busses[b]
        /\ conf.keep_busses \/ init_count = 2 => DOMAIN busses \subseteq DOMAIN busses'
        /\ ~conf.keep_busses /\ init_count = 1 => DOMAIN busses' = {Own}
    BY FindBussesLists
  <2>c. /\ UNCHANGED <<attached, moved, conf, init_count, real_inits, avail>>
        /\ init_count > 0 /\ scans' = scans + 1 /\ scans < MaxScans /\ phase' = "busses"
    BY DEF UsbFindBusses, boardVars
  <2>1. TypeOK'
    BY <1>t, <2>l, <2>c, MaxScansIsNat DEF TypeOK, Own
  <2>2. Started' /\ AllListed' /\ (avail \subseteq conf.emulated)'
    BY <2>c DEF Started, AllListed, TypeOK
  <2>3. OwnListed'
    BY <2>l, <2>c DEF OwnListed, TypeOK, Own
  <2>4. FakesApart'
    BY <2>l, <2>c DEF FakesApart
  <2>5. RescanClears'
    BY <2>l, <2>c DEF RescanClears
  <2>6. SeenStay'
    <3> SUFFICES ASSUME NEW d \in avail \ (attached \cup moved)
                 PROVE  Fakes(d)' # {} /\ conf.keep_devs
                          /\ (conf.keep_busses \/ init_count = 2)
      BY <2>c DEF SeenStay
    <3>1. conf.keep_devs /\ (conf.keep_busses \/ init_count = 2)
      BY DEF SeenStay
    <3>2. PICK b \in DOMAIN busses \ {Own} : d \in busses[b]
      BY DEF SeenStay, Fakes, Copies
    <3>3. b \in DOMAIN busses' /\ d \in busses'[b]
      BY <2>l, <3>1, <3>2
    <3> QED
      BY <3>1, <3>2, <3>3 DEF Fakes, Copies
  <2> QED
    BY <2>1, <2>2, <2>3, <2>4, <2>5, <2>6
<1>3. CASE UsbFindDevices
  <2> USE <1>3 DEF ListInv
  <2> DEFINE Foreign == DOMAIN busses \ {Own}
  <2>l. /\ scans \notin DOMAIN busses /\ scans # Own
        /\ busses' \in [DOMAIN busses \cup {scans} -> SUBSET Devices]
        /\ DOMAIN busses' = DOMAIN busses \cup {scans}
        /\ busses'[Own] = attached
        /\ \A b \in Foreign :
             busses'[b] = IF conf.keep_devs THEN busses[b] ELSE {}
        /\ busses'[scans] = conf.emulated \ avail'
        /\ avail' = avail \cup (conf.emulated
                                  \cap (attached \cup UNION {busses'[b] : b \in Foreign}))
    BY FindDevicesLists
  <2>c. /\ UNCHANGED <<attached, moved, conf, init_count, real_inits, scans>>
        /\ phase = "busses" /\ phase' = "devices" /\ scans > 0
        /\ Own \in DOMAIN busses /\ init_count > 0
    BY DEF UsbFindDevices, OwnListed, boardVars
  <2>f. DOMAIN busses' \ {Own} = Foreign \cup {scans}
    BY <2>l
  <2>0. (avail \subseteq conf.emulated)'
    BY <2>l, <2>c
  <2>1. TypeOK'
    BY <1>t, <2>l, <2>c, <2>0 DEF TypeOK, HandleTypes, Confs
  <2>2. Started' /\ RescanClears'
    BY <2>c DEF Started, RescanClears
  <2>3. OwnListed'
    BY <2>l, <2>c DEF OwnListed
  <2>4. FakesApart'
    <3>1. \A b \in Foreign : busses'[b] \subseteq busses[b]
      BY <2>l
    <3>2. \A b \in Foreign : busses'[b] \subseteq conf.emulated
                             /\ busses'[b] \cap attached \subseteq moved
      BY <3>1 DEF FakesApart
    <3>3. busses'[scans] \subseteq conf.emulated /\ busses'[scans] \cap attached = {}
      BY <2>l
    <3>4. \A b, c \in Foreign : b # c => busses'[b] \cap busses'[c] = {}
      BY <3>1 DEF FakesApart
    <3>5. \A b \in Foreign : busses'[b] \cap busses'[scans] = {}
      <4> TAKE b \in Foreign
      <4>1. busses'[b] \subseteq avail'
        BY <2>l, <3>2
      <4> QED
        BY <2>l, <4>1
    <3> QED
      BY <2>f, <2>c, <3>2, <3>3, <3>4, <3>5 DEF FakesApart
  <2>5. SeenStay'
    <3> SUFFICES ASSUME NEW d \in avail' \ (attached \cup moved)
                 PROVE  Fakes(d)' # {} /\ conf.keep_devs
                          /\ (conf.keep_busses \/ init_count = 2)
      BY <2>c DEF SeenStay
    <3>1. PICK b \in Foreign : d \in busses[b] /\ conf.keep_devs
      <4>1. CASE d \in avail
        BY <4>1 DEF SeenStay, Fakes, Copies
      <4>2. CASE d \notin avail
        <5>1. PICK b \in Foreign : d \in busses'[b]
          BY <2>l, <4>2
        <5> QED
          BY <2>l, <5>1
      <4> QED
        BY <4>1, <4>2
    <3>2. conf.keep_busses \/ init_count = 2
      BY <2>c, <3>1 DEF RescanClears, TypeOK
    <3>3. b \in DOMAIN busses' \ {Own} /\ d \in busses'[b]
      BY <2>l, <3>1
    <3> QED
      BY <3>1, <3>2, <3>3 DEF Fakes, Copies
  <2>6. AllListed'
    <3> SUFFICES ASSUME NEW d \in conf.emulated \ (attached \cup moved)
                 PROVE  Fakes(d)' # {}
      BY <2>c DEF AllListed
    <3>1. CASE d \in avail'
      BY <2>c, <2>5, <3>1 DEF SeenStay
    <3>2. CASE d \notin avail'
      BY <2>l, <3>2 DEF Fakes, Copies
    <3> QED
      BY <3>1, <3>2
  <2> QED
    BY <2>0, <2>1, <2>2, <2>3, <2>4, <2>5, <2>6
<1>m. ASSUME NEW d \in Boards, MoveBoard(d)
      PROVE  ListInv'
  <2> USE <1>m DEF MoveBoard, ListInv, enumVars
  <2>m. /\ attached' \subseteq Boards /\ moved' \subseteq Boards
        /\ \A e : e \notin attached' \cup moved' /\ scans > 0 => e \notin attached \cup moved
        /\ attached' \ moved' \subseteq attached \cup (IF scans > 0 THEN {} ELSE {d})
        /\ moved \subseteq moved'
    BY DEF TypeOK
  <2>1. TypeOK' /\ (avail \subseteq conf.emulated)'
    BY <1>t, <2>m DEF TypeOK
  <2>2. Started' /\ OwnListed' /\ RescanClears'
    BY DEF Started, OwnListed, RescanClears
  <2>3. scans = 0 => DOMAIN busses \ {Own} = {} /\ avail = {} /\ phase # "devices"
    BY DEF TypeOK, Started, OwnListed, Own
  <2>4. FakesApart' /\ SeenStay' /\ AllListed'
    <3>1. CASE scans = 0
      BY <2>3, <3>1 DEF FakesApart, SeenStay, AllListed
    <3>2. CASE scans > 0
      <4>1. FakesApart'
        BY <2>m, <3>2 DEF FakesApart
      <4>2. SeenStay' /\ AllListed'
        BY <2>m, <3>2 DEF SeenStay, AllListed, Fakes, Copies
      <4> QED
        BY <4>1, <4>2
    <3> QED
      BY <3>1, <3>2 DEF TypeOK
  <2> QED
    BY <2>1, <2>2, <2>4
<1>4. CASE UNCHANGED <<boardVars, enumVars, conf>>
  <2> USE <1>4 DEF ListInv, boardVars, enumVars
  <2>1. TypeOK' /\ (avail \subseteq conf.emulated)'
    BY <1>t DEF TypeOK
  <2>2. Started' /\ OwnListed' /\ FakesApart' /\ RescanClears' /\ SeenStay' /\ AllListed'
    BY DEF Started, OwnListed, FakesApart, RescanClears, SeenStay, AllListed, Fakes,
           Copies
  <2> QED
    BY <2>1, <2>2
<1> QED
  BY <1>1, <1>2, <1>3, <1>m, <1>4
     DEF Next, UsbOpenLatched, UsbOpen, UsbClose, UsbReset, UsbResetFails, vars

\* The shape of the list that the scans of a game leave.
LEMMA ListAlways == Spec => []ListInv
<1>1. Init => BaseInv /\ ListInv
  BY BaseInit, ListInit
<1>2. BaseInv /\ ListInv /\ [Next]_vars => (BaseInv /\ ListInv)'
  BY BaseStep, ListStep
<1> QED
  BY <1>1, <1>2, PTL DEF Spec

\* Types of the whole state: the count of usb_init calls never leaves 0 .. 2.
THEOREM UsbStackTypes == Spec => []TypeOK
<1>1. ListInv => TypeOK
  BY DEF ListInv
<1> QED
  BY <1>1, ListAlways, PTL

\* What a scan leaves, for the boards that stayed where they were.
LEMMA ScanFinds ==
  ASSUME ListInv, ListInv', UsbFindDevices
  PROVE  (EmulatedIsFound /\ NativeIsFound)'
<1>0. Own \in DOMAIN busses' /\ busses'[Own] = attached'
  BY FindDevicesLists DEF ListInv, OwnListed, UsbFindDevices, boardVars
<1>1. NativeIsFound'
  BY <1>0 DEF NativeIsFound, OnBusses
<1>2. ASSUME NEW d \in conf'.emulated \ moved'
      PROVE  \E b \in Copies(d)' : Copies(d)' = {b}
  <2>1. CASE d \in attached'
    <3>1. Copies(d)' = {Own}
      BY <1>0, <2>1, <1>2 DEF Copies, ListInv, FakesApart
    <3> QED
      BY <3>1
  <2>2. CASE d \notin attached'
    <3>1. Copies(d)' = Fakes(d)'
      BY <1>0, <2>2 DEF Fakes, Copies
    <3>2. \A b, c \in Fakes(d)' : b = c
      BY DEF Fakes, Copies, ListInv, FakesApart
    <3>3. Fakes(d)' # {}
      BY <2>2, <1>2 DEF ListInv, AllListed, UsbFindDevices
    <3> QED
      BY <3>1, <3>2, <3>3
  <2> QED
    BY <2>1, <2>2
<1> QED
  BY <1>1, <1>2 DEF EmulatedIsFound

\* However often the game enumerates and repeats usb_init, and whatever libusb
\* keeps of what usb-emu.c linked into its list, each scan of the game finds the
\* boards that are plugged in, and each emulated device exactly once, unless its
\* own board was plugged in or pulled after the first scan.
THEOREM DevicesAreListed == Spec => DevicesAreFound
<1>1. BaseInv /\ ListInv /\ ListInv' /\ [Next]_vars
        => [phase = "busses" /\ phase' = "devices"
              => (EmulatedIsFound /\ NativeIsFound)']_vars
  <2> SUFFICES ASSUME ListInv, ListInv', Next, phase = "busses", phase' = "devices"
               PROVE  (EmulatedIsFound /\ NativeIsFound)'
    OBVIOUS
  <2>1. UsbFindDevices
    BY DEF Next, MoveBoard, UsbInit, UsbFindBusses, UsbOpenLatched, UsbOpen, UsbClose, UsbReset,
           UsbResetFails, enumVars
  <2> QED
    BY <2>1, ScanFinds
<1> QED
  BY <1>1, BaseAlways, ListAlways, PTL DEF Spec, DevicesAreFound

-----------------------------------------------------------------------------
(* The driver of a real board.  OpenSteps says what io_usb_open has taken  *)
(* hold of before each of its calls, and that it is only ever under way    *)
(* while no handle was given.                                              *)

OpenSteps ==
  /\ usb_pc \in {"idle", "init", "find", "detach", "configure", "claim"}
  /\ usb_pc # "idle" => device_handle = "NULL"
  /\ contexts = IF usb_pc \in {"idle", "init"} /\ device_handle # "open" THEN 0 ELSE 1
  /\ usb_pc # "idle" => claimed = {}
  /\ usb_pc = "idle" => claimed = libusb_handles
  /\ IF usb_pc \in {"detach", "configure", "claim"} \/ device_handle = "open"
     THEN \E b : libusb_handles = {b}
     ELSE libusb_handles = {}

LEMMA OpenStepsInit == DriverInit => OpenSteps
BY DEF DriverInit, OpenSteps

LEMMA OpenStepsStep ==
  ASSUME OpenSteps, [DriverNext]_vars_usb
  PROVE  OpenSteps'
<1> USE DEF OpenSteps, Opening, GoesOn, OpenFails, LeavesDevice, OnBoard, Alive,
            usb_world, usb_ours
<1>1. CASE drv_device_open
  BY <1>1 DEF drv_device_open
<1>2. CASE libusb_init
  BY <1>2 DEF libusb_init
<1>3. CASE io_usb_get_device_handle
  BY <1>3 DEF io_usb_get_device_handle
<1>4. CASE DetachKernelDriver
  BY <1>4 DEF DetachKernelDriver
<1>5. CASE SetConfiguration
  BY <1>5 DEF SetConfiguration
<1>6. CASE ClaimInterface
  BY <1>6 DEF ClaimInterface
<1>7. CASE drv_device_close
  BY <1>7 DEF drv_device_close
<1>8. CASE PlugInBoard \/ UnplugBoard \/ UNCHANGED vars_usb
  BY <1>8 DEF PlugInBoard, UnplugBoard, vars_usb
<1> QED
  BY <1>1, <1>2, <1>3, <1>4, <1>5, <1>6, <1>7, <1>8 DEF DriverNext, io_usb_open

\* Whichever call fails, and whenever the board is pulled, io_usb_open has taken
\* all of what it needs or nothing.
THEOREM OpeningIsAllOrNothing == DriverSpec => []OpenIsAllOrNothing
<1>1. OpenSteps => OpenIsAllOrNothing
  <2> SUFFICES ASSUME OpenSteps, usb_pc = "idle"
               PROVE  /\ contexts = (IF device_handle = "open" THEN 1 ELSE 0)
                      /\ Cardinality(libusb_handles) = contexts
                      /\ claimed = libusb_handles
    BY DEF OpenIsAllOrNothing
  <2>1. contexts = (IF device_handle = "open" THEN 1 ELSE 0)
        /\ claimed = libusb_handles
    BY DEF OpenSteps
  <2>2. CASE device_handle = "open"
    <3>1. PICK b : libusb_handles = {b}
      BY <2>2 DEF OpenSteps
    <3>2. Cardinality({b}) = 1
      BY FS_Singleton
    <3> QED
      BY <2>1, <2>2, <3>1, <3>2
  <2>3. CASE device_handle # "open"
    <3>1. libusb_handles = {}
      BY <2>3 DEF OpenSteps
    <3> QED
      BY <2>1, <2>3, <3>1, FS_EmptySet
  <2> QED
    BY <2>1, <2>2, <2>3
<1> QED
  BY <1>1, OpenStepsInit, OpenStepsStep, PTL DEF DriverSpec

-----------------------------------------------------------------------------
\* UsbFix: what the hook reads in the path of a drive, place by place.  The two
\* parts of a path, of n and of m places.
JoinedAt(S, s, t, n, m) ==
  /\ s \o t \in Seq(S) /\ Len(s \o t) = n + m
  /\ \A i \in 1 .. n : (s \o t)[i] = s[i]
  /\ \A i \in 1 .. m : (s \o t)[n + i] = t[i]
LEMMA PathsJoined ==
  ASSUME NEW S, NEW s \in Seq(S), NEW t \in Seq(S), NEW n \in Nat, NEW m \in Nat,
         Len(s) = n, Len(t) = m
  PROVE  JoinedAt(S, s, t, n, m)
<1>1. /\ s \o t \in Seq(S)
      /\ Len(s \o t) = Len(s) + Len(t)
      /\ \A i \in 1 .. Len(s) + Len(t) :
           (s \o t)[i] = IF i <= Len(s) THEN s[i] ELSE t[i - Len(s)]
  BY ConcatProperties
<1>2. \A i \in 1 .. n : i \in 1 .. n + m /\ i <= n
  OBVIOUS
<1>3. \A i \in 1 .. m : n + i \in 1 .. n + m /\ ~(n + i <= n) /\ n + i - n = i
  OBVIOUS
<1> QED
  BY <1>1, <1>2, <1>3 DEF JoinedAt

LEMMA SecondOfPath ==
  ASSUME NEW S, NEW s \in Seq(S), NEW t \in Seq(S), NEW n, NEW m,
         Len(s) = n, Len(t) = m, NEW i \in 1 .. m
  PROVE  (s \o t)[n + i] = t[i]
<1>1. n \in Nat /\ m \in Nat
  OBVIOUS
<1>2. JoinedAt(S, s, t, n, m)
  BY <1>1, PathsJoined
<1> QED
  BY <1>2 DEF JoinedAt

\* The places of a path that the hook looks at, for a drive on USB.
LEMMA LinkOfDrive ==
  ASSUME NEW disk, NEW s \in Sockets, plugged[disk] = s, ~s.other,
         NEW path, path = BlockLink(disk)
  PROVE  /\ Len(path) = 12 + s.bridge + s.hub
         /\ path[1] = ".." /\ path[2] = "devices"
         /\ \A i \in 5 .. 4 + s.bridge : path[i] = "device"
         /\ path[5 + s.bridge] = "usb" /\ path[6 + s.bridge] = s.at
         /\ path[Len(path) - 1] = "block"
<1> DEFINE Part == {"..", "devices", "pci", "device", "usb", "host", "target", "lun", "block",
                    disk, s.at}
           pci == <<"..", "devices", "pci", "device">>
           bridges == [i \in 1 .. s.bridge |-> "device"]
           root == <<"usb", s.at>>
           hubs == [i \in 1 .. s.hub |-> s.at]
           port == <<s.at>>
           scsi == <<"host", "target", "lun", "block", disk>>
           upToBridges == pci \o bridges
           upToRoot == upToBridges \o root
           upToHubs == upToRoot \o hubs
           upToPort == upToHubs \o port
<1>1. s.bridge \in Nat /\ s.hub \in Nat
  BY SocketsArePlaces
<1>2. path = upToPort \o scsi
  BY DEF BlockLink
<1>3. /\ pci \in Seq(Part) /\ root \in Seq(Part) /\ port \in Seq(Part) /\ scsi \in Seq(Part)
      /\ Len(pci) = 4 /\ Len(root) = 2 /\ Len(port) = 1 /\ Len(scsi) = 5
  OBVIOUS
<1>4. bridges \in Seq(Part) /\ Len(bridges) = s.bridge /\ hubs \in Seq(Part) /\ Len(hubs) = s.hub
  BY <1>1
<1>5. /\ upToBridges \in Seq(Part) /\ Len(upToBridges) = 4 + s.bridge
      /\ \A i \in 1 .. 4 : upToBridges[i] = pci[i]
      /\ \A i \in 1 .. s.bridge : upToBridges[4 + i] = bridges[i]
  <2> DEFINE len == 4
  <2>1. len \in Nat /\ s.bridge \in Nat
    BY <1>1
  <2> HIDE DEF pci, bridges, Part, len
  <2>2. pci \in Seq(Part) /\ bridges \in Seq(Part) /\ Len(pci) = len /\ Len(bridges) = s.bridge
    BY <1>3, <1>4 DEF len
  <2>3. JoinedAt(Part, pci, bridges, len, s.bridge)
    BY <2>1, <2>2, PathsJoined
  <2> QED
    BY <2>3 DEF len, JoinedAt
<1>6. /\ upToRoot \in Seq(Part) /\ Len(upToRoot) = (4 + s.bridge) + 2
      /\ \A i \in 1 .. (4 + s.bridge) : upToRoot[i] = upToBridges[i]
      /\ \A i \in 1 .. 2 : upToRoot[(4 + s.bridge) + i] = root[i]
  <2> DEFINE len == (4 + s.bridge)
           more == 2
  <2>1. len \in Nat /\ more \in Nat
    BY <1>1
  <2> HIDE DEF upToBridges, root, Part, len, more
  <2>2. upToBridges \in Seq(Part) /\ root \in Seq(Part) /\ Len(upToBridges) = len /\ Len(root) = more
    BY <1>3, <1>5 DEF len, more
  <2>3. JoinedAt(Part, upToBridges, root, len, more)
    BY <2>1, <2>2, PathsJoined
  <2> QED
    BY <2>3 DEF len, more, JoinedAt
<1>7. /\ upToHubs \in Seq(Part) /\ Len(upToHubs) = (6 + s.bridge) + s.hub
      /\ \A i \in 1 .. (6 + s.bridge) : upToHubs[i] = upToRoot[i]
      /\ \A i \in 1 .. s.hub : upToHubs[(6 + s.bridge) + i] = hubs[i]
  <2> DEFINE len == (6 + s.bridge)
  <2>1. len \in Nat /\ s.hub \in Nat
    BY <1>1
  <2> HIDE DEF upToRoot, hubs, Part, len
  <2>2. upToRoot \in Seq(Part) /\ hubs \in Seq(Part) /\ Len(upToRoot) = len /\ Len(hubs) = s.hub
    BY <1>1, <1>4, <1>6 DEF len
  <2>3. JoinedAt(Part, upToRoot, hubs, len, s.hub)
    BY <2>1, <2>2, PathsJoined
  <2> QED
    BY <2>3 DEF len, JoinedAt
<1>8. /\ upToPort \in Seq(Part) /\ Len(upToPort) = (6 + s.bridge + s.hub) + 1
      /\ \A i \in 1 .. (6 + s.bridge + s.hub) : upToPort[i] = upToHubs[i]
      /\ \A i \in 1 .. 1 : upToPort[(6 + s.bridge + s.hub) + i] = port[i]
  <2> DEFINE len == (6 + s.bridge + s.hub)
           more == 1
  <2>1. len \in Nat /\ more \in Nat
    BY <1>1
  <2> HIDE DEF upToHubs, port, Part, len, more
  <2>2. upToHubs \in Seq(Part) /\ port \in Seq(Part) /\ Len(upToHubs) = len /\ Len(port) = more
    BY <1>1, <1>3, <1>7 DEF len, more
  <2>3. JoinedAt(Part, upToHubs, port, len, more)
    BY <2>1, <2>2, PathsJoined
  <2> QED
    BY <2>3 DEF len, more, JoinedAt
<1>9. /\ path \in Seq(Part) /\ Len(path) = (7 + s.bridge + s.hub) + 5
      /\ \A i \in 1 .. (7 + s.bridge + s.hub) : path[i] = upToPort[i]
      /\ \A i \in 1 .. 5 : path[(7 + s.bridge + s.hub) + i] = scsi[i]
  <2> DEFINE len == (7 + s.bridge + s.hub)
           more == 5
  <2>1. len \in Nat /\ more \in Nat
    BY <1>1
  <2> HIDE DEF upToPort, scsi, Part, len, more
  <2>2. upToPort \in Seq(Part) /\ scsi \in Seq(Part) /\ Len(upToPort) = len /\ Len(scsi) = more
    BY <1>1, <1>3, <1>8 DEF len, more
  <2>3. JoinedAt(Part, upToPort, scsi, len, more)
    BY <2>1, <2>2, PathsJoined
  <2> QED
    BY <2>3, <1>2 DEF len, more, JoinedAt
<1>10. pci[1] = ".." /\ pci[2] = "devices"
  OBVIOUS
<1> HIDE DEF pci, upToBridges, upToRoot, upToHubs, upToPort
<1>11. \A i \in 5 .. 4 + s.bridge : path[i] = "device"
  <2> SUFFICES ASSUME NEW i \in 5 .. 4 + s.bridge
               PROVE  path[i] = "device"
    OBVIOUS
  <2>1. /\ i - 4 \in 1 .. s.bridge /\ i = 4 + (i - 4)
        /\ i \in 1 .. 4 + s.bridge /\ i \in 1 .. 6 + s.bridge
        /\ i \in 1 .. 6 + s.bridge + s.hub /\ i \in 1 .. 7 + s.bridge + s.hub
    BY <1>1
  <2>2. upToBridges[i] = bridges[i - 4]
    BY <2>1, <1>5
  <2> HIDE DEF bridges
  <2>3. upToRoot[i] = upToBridges[i]
    BY <2>1, <1>6
  <2>4. upToHubs[i] = upToRoot[i]
    BY <2>1, <1>7
  <2>5. path[i] = upToHubs[i]
    BY <2>1, <1>8, <1>9
  <2>6. bridges[i - 4] = "device"
    BY <2>1 DEF bridges
  <2> QED
    BY <2>2, <2>3, <2>4, <2>5, <2>6
<1>12. path[1] = ".." /\ path[2] = "devices"
  <2>1. \A i \in 1 .. 2 :
          /\ i \in 1 .. 4 /\ i \in 1 .. 4 + s.bridge /\ i \in 1 .. 6 + s.bridge
          /\ i \in 1 .. 6 + s.bridge + s.hub /\ i \in 1 .. 7 + s.bridge + s.hub
    BY <1>1
  <2>2. ASSUME NEW i \in 1 .. 2
        PROVE  path[i] = pci[i]
    <3>1. path[i] = upToHubs[i]
      BY <2>1, <1>8, <1>9
    <3>2. upToHubs[i] = upToBridges[i]
      BY <2>1, <1>6, <1>7
    <3> QED
      BY <3>1, <3>2, <2>1, <1>5
  <2> QED
    BY <2>2, <1>10
<1>13. path[5 + s.bridge] = "usb" /\ path[6 + s.bridge] = s.at
  <2>1. \A i \in {5 + s.bridge, 6 + s.bridge} :
          /\ i \in 1 .. 6 + s.bridge
          /\ i \in 1 .. 6 + s.bridge + s.hub /\ i \in 1 .. 7 + s.bridge + s.hub
    BY <1>1
  <2>2. \A i \in {5 + s.bridge, 6 + s.bridge} : path[i] = upToRoot[i]
    BY <2>1, <1>7, <1>8, <1>9
  <2>3. upToRoot[(4 + s.bridge) + 1] = "usb" /\ upToRoot[(4 + s.bridge) + 2] = s.at
    BY <1>6
  <2>4. (4 + s.bridge) + 1 = 5 + s.bridge /\ (4 + s.bridge) + 2 = 6 + s.bridge
    BY <1>1
  <2> QED
    BY <2>2, <2>3, <2>4
<1>14. Len(path) = 12 + s.bridge + s.hub /\ path[Len(path) - 1] = "block"
  <2>1. Len(path) = 12 + s.bridge + s.hub
    BY <1>1, <1>9
  <2>2. Len(path) - 1 = (7 + s.bridge + s.hub) + 4
    BY <1>1, <2>1
  <2>3. path[(7 + s.bridge + s.hub) + 4] = scsi[4]
    BY <1>9
  <2> QED
    BY <2>1, <2>2, <2>3
<1> QED
  BY <1>11, <1>12, <1>13, <1>14

\* Of a drive on USB the hook finds its place, whatever is before and behind it.
LEMMA PlaceIsFound ==
  ASSUME NEW disk, NEW s \in Sockets, plugged[disk] = s, ~s.other
  PROVE  FoundBusPort(BlockLink(disk)) = s.at
<1> DEFINE path == BlockLink(disk)
           I == {i \in 5 .. Len(path) - 3 : HasBusPort(path[i])}
<1>1. s.bridge \in Nat /\ s.hub \in Nat /\ s.at \in BusPorts
  BY SocketsArePlaces
<1>2. /\ Len(path) = 12 + s.bridge + s.hub
      /\ \A i \in 5 .. 4 + s.bridge : path[i] = "device"
      /\ path[5 + s.bridge] = "usb" /\ path[6 + s.bridge] = s.at
  BY LinkOfDrive
<1> HIDE DEF path
<1>3. 6 + s.bridge \in I
  BY <1>1, <1>2, SMTT(30) DEF HasBusPort
<1>4. ASSUME NEW i \in I
      PROVE  6 + s.bridge <= i
  <2>1. i \in 5 .. Len(path) - 3 /\ HasBusPort(path[i])
    OBVIOUS
  <2>2. CASE i < 6 + s.bridge
    <3>1. i \in 5 .. 4 + s.bridge \/ i = 5 + s.bridge
      BY <1>1, <1>2, <2>1, <2>2, SMTT(30)
    <3>2. path[i] \in {"device", "usb"}
      BY <1>2, <3>1
    <3> QED
      BY <2>1, <3>2, SocketsArePlaces DEF HasBusPort
  <2>3. i \in Int /\ 6 + s.bridge \in Int
    BY <1>1, <1>2, <2>1
  <2> HIDE DEF I
  <2> QED
    BY <2>2, <2>3
<1>5. Min(I) = 6 + s.bridge
  <2>1. \A i \in I : i \in Int
    BY <1>1, <1>2
  <2> HIDE DEF I
  <2> QED
    BY <2>1, <1>1, <1>3, <1>4 DEF Min
<1>6. SelectInSubSeq(path, 5, Len(path) - 3, HasBusPort) = 6 + s.bridge
  BY <1>3, <1>5 DEF SelectInSubSeq
<1> QED
  BY <1>1, <1>2, <1>6 DEF FoundBusPort, path

\* A drive that is not on USB has a shorter path.
LEMMA LinkOfOther ==
  ASSUME NEW disk, NEW s \in Sockets, plugged[disk] = s, s.other
  PROVE  /\ Len(BlockLink(disk)) = 10
         /\ BlockLink(disk)[Len(BlockLink(disk)) - 1] = "block"
<1> DEFINE Part == {"..", "devices", "pci", "device", "ata", "host", "target", "lun", "block", disk}
           head == <<"..", "devices", "pci", "device">>
           ata == <<"ata">>
           scsi == <<"host", "target", "lun", "block", disk>>
           four == 4
           one == 1
           five == 5
<1>1. /\ head \in Seq(Part) /\ ata \in Seq(Part) /\ scsi \in Seq(Part)
      /\ Len(head) = four /\ Len(ata) = one /\ Len(scsi) = five /\ scsi[4] = "block"
      /\ four \in Nat /\ one \in Nat /\ five \in Nat
  OBVIOUS
<1>2. BlockLink(disk) = (head \o ata) \o scsi
  BY DEF BlockLink
<1> HIDE DEF head, ata, scsi, Part, four, one, five
<1>3. head \o ata \in Seq(Part) /\ Len(head \o ata) = four + one
  BY <1>1, PathsJoined
<1> DEFINE front == head \o ata
           n == four + one
<1>4. n \in Nat /\ n = 5
  BY DEF four, one
<1>5. front \in Seq(Part) /\ Len(front) = n
  BY <1>3
<1> HIDE DEF front, n
<1>6. /\ front \o scsi \in Seq(Part) /\ Len(front \o scsi) = n + five
      /\ \A i \in 1 .. n : (front \o scsi)[i] = front[i]
      /\ \A i \in 1 .. five : (front \o scsi)[n + i] = scsi[i]
  <2>1. /\ front \in Seq(Part) /\ scsi \in Seq(Part) /\ Len(front) = n /\ Len(scsi) = five
        /\ n \in Nat /\ five \in Nat
    BY <1>1, <1>4, <1>5
  <2>2. front \o scsi \in Seq(Part) /\ Len(front \o scsi) = n + five
    BY <2>1, PathsJoined
  <2>3. \A i \in 1 .. n : (front \o scsi)[i] = front[i]
    BY <2>1, PathsJoined
  <2>4. ASSUME NEW i \in 1 .. five
        PROVE  (front \o scsi)[n + i] = scsi[i]
    BY <2>1, SecondOfPath
  <2> QED
    BY <2>2, <2>3, <2>4
<1>7. BlockLink(disk) = front \o scsi
  BY <1>2 DEF front
<1>8. Len(BlockLink(disk)) = 10 /\ Len(BlockLink(disk)) - 1 = n + 4
  BY <1>4, <1>6, <1>7 DEF five
<1>9. BlockLink(disk)[n + 4] = scsi[4]
  <2>1. 4 \in 1 .. five
    BY DEF five
  <2> QED
    BY <2>1, <1>6, <1>7, Zenon
<1> QED
  BY <1>1, <1>8, <1>9

\* What the game reads of a path the hook has rewritten.
LEMMA Rewritten ==
  ASSUME NEW parts, Len(parts) \in Nat, Len(parts) >= 12, NEW name,
         NEW path, path = SubSeq(parts, 1, 5) \o <<name, name>>
  PROVE  Len(path) = 7 /\ path[6] = name
<1> DEFINE Part == {parts[i] : i \in 1 .. 5} \cup {name}
           front == SubSeq(parts, 1, 5)
           back == <<name, name>>
           five == 5
           two == 2
<1>1. \A i \in 1 .. 5 : parts[i] \in Part
  OBVIOUS
<1>2. front \in Seq(Part) /\ Len(front) = five
  <2> HIDE DEF Part
  <2> QED
    BY <1>1, SubSeqProperties
<1>3. back \in Seq(Part) /\ Len(back) = two /\ back[1] = name
  OBVIOUS
<1>4. five \in Nat /\ two \in Nat
  OBVIOUS
<1> HIDE DEF Part, front, back, five, two
<1>5. /\ front \o back \in Seq(Part) /\ Len(front \o back) = five + two
      /\ \A i \in 1 .. five : (front \o back)[i] = front[i]
      /\ \A i \in 1 .. two : (front \o back)[five + i] = back[i]
  <2>1. /\ front \in Seq(Part) /\ back \in Seq(Part) /\ Len(front) = five /\ Len(back) = two
        /\ five \in Nat /\ two \in Nat
    BY <1>2, <1>3, <1>4
  <2>2. front \o back \in Seq(Part) /\ Len(front \o back) = five + two
    BY <2>1, PathsJoined DEF JoinedAt
  <2>3. \A i \in 1 .. five : (front \o back)[i] = front[i]
    BY <2>1, PathsJoined
  <2>4. ASSUME NEW i \in 1 .. two
        PROVE  (front \o back)[five + i] = back[i]
    BY <2>1, SecondOfPath
  <2> QED
    BY <2>2, <2>3, <2>4
<1>6. path = front \o back
  BY DEF front, back
<1> QED
  BY <1>3, <1>5, <1>6 DEF five, two

\* The hook's statics are those of the options, and a name has a socket or none.
FixInv ==
  /\ fix = propatch_usb_fix_init(fix_options)
  /\ plugged \in [ToSet(Disks) -> Sockets \cup {NoDrive}]
  /\ DrivesAreTheirPlayers

\* A look at one name.
LEMMA LookKeeps ==
  ASSUME FixInv, NEW disk \in ToSet(Disks), GameLooks(disk)
  PROVE  DrivesAreTheirPlayers'
<1> DEFINE s == plugged[disk]
           link == BlockLink(disk)
           path == propatch_usb_fix_readlink(disk)
           part == IF Len(path) > 1 THEN path[Len(path) - 1] ELSE "none"
           ports == <<fix_options.p1, fix_options.p2>>
           at == {i \in 1 .. 2 : s # NoDrive /\ ~s.other /\ ports[i] = s.at}
           named == fix_options.dev_nodes # NoDrive /\ disk \in fix_options.dev_nodes
           player == IF \E i \in 1 .. 2 : part = StaticIni[i]
                     THEN CHOOSE i \in 1 .. 2 : part = StaticIni[i] ELSE 0
<1>1. shown' = [disk |-> disk, socket |-> s, player |-> player]
      /\ fix' = fix /\ fix_options' = fix_options
  BY DEF GameLooks
<1>2. s \in Sockets \cup {NoDrive}
  BY DEF FixInv
<1>3. fix.enabled => /\ fix.names = fix_options.dev_nodes /\ fix.ports = ports
                     /\ fix_options.dev_nodes # NoDrive
  BY DEF FixInv, propatch_usb_fix_init, Off
<1> SUFFICES IF player # 0 THEN named /\ player \in at
             ELSE ~(fix.enabled /\ named /\ at # {} /\ s.bridge + s.hub <= 1)
  BY <1>1 DEF DrivesAreTheirPlayers
<1>4. ASSUME part \in {"none", "block"}
      PROVE  player = 0
  BY <1>4 DEF StaticIni
<1>5. CASE s = NoDrive
  <2>1. path = <<>>
    BY <1>5 DEF propatch_usb_fix_readlink
  <2>2. player = 0 /\ at = {}
    BY <1>4, <1>5, <2>1
  <2> QED
    BY <2>2
<1>6. CASE s \in Sockets /\ s.other
  <2>1. s # NoDrive
    BY <1>6, SocketsArePlaces
  <2>2. Len(link) = 10 /\ link[Len(link) - 1] = "block"
    BY <1>6, LinkOfOther
  <2>3. path \in {link, <<>>}
    BY <2>1, <2>2 DEF propatch_usb_fix_readlink
  <2>4. player = 0
    <3> HIDE DEF path, link, player
    <3>1. CASE path = link
      <4>1. part \in {"none", "block"}
        BY <2>2, <3>1
      <4> QED
        BY <1>4, <4>1
    <3>2. CASE path = <<>>
      BY <1>4, <3>2
    <3> QED
      BY <2>3, <3>1, <3>2
  <2>5. at = {}
    BY <1>6
  <2> QED
    BY <2>4, <2>5
<1>7. CASE s \in Sockets /\ ~s.other
  <2>1. s # NoDrive /\ s.at # NoDrive /\ s.bridge \in Nat /\ s.hub \in Nat
    BY <1>7, SocketsArePlaces
  <2>2. /\ Len(link) = 12 + s.bridge + s.hub
        /\ link[1] = ".." /\ link[2] = "devices" /\ link[Len(link) - 1] = "block"
    BY <1>7, LinkOfDrive
  <2>3. FoundBusPort(link) = s.at
    BY <1>7, PlaceIsFound
  <2>4. CASE ~(fix.enabled /\ disk \in fix.names)
    <3>1. path = link
      BY <2>1, <2>4 DEF propatch_usb_fix_readlink
    <3>2. player = 0
      <4> HIDE DEF path, link, player
      <4>1. part \in {"none", "block"}
        BY <2>2, <3>1
      <4> QED
        BY <1>4, <4>1
    <3> QED
      BY <1>3, <2>4, <3>2
  <2>5. CASE fix.enabled /\ disk \in fix.names
    <3> DEFINE players == {i \in 1 .. 2 : fix.ports[i] = s.at}
               first == IF 1 \in players THEN 1 ELSE 2
    <3>1. players = at /\ named
      BY <1>3, <1>7, <2>1, <2>5
    <3>2. path = IF Len(link) \notin 12 .. 13 THEN <<>>
                 ELSE IF players = {} THEN link
                 ELSE SubSeq(link, 1, 5) \o <<StaticIni[first], StaticIni[first]>>
      BY <2>1, <2>2, <2>3, <2>5 DEF propatch_usb_fix_readlink
    <3>3. CASE Len(link) \notin 12 .. 13
      <4>1. player = 0
        BY <1>4, <3>2, <3>3
      <4>2. Len(link) = 12 + s.bridge + s.hub /\ Len(link) \notin 12 .. 13
        BY <2>2, <3>3
      <4>3. ~(s.bridge + s.hub <= 1)
        <5> HIDE DEF link, s
        <5> QED
          BY <2>1, <4>2
      <4> QED
        BY <4>1, <4>3
    <3>4. CASE Len(link) \in 12 .. 13 /\ players = {}
      <4>1. player = 0
        <5> HIDE DEF path, link, player
        <5>1. part \in {"none", "block"}
          BY <2>2, <3>2, <3>4
        <5> QED
          BY <1>4, <5>1
      <4> QED
        BY <3>1, <3>4, <4>1
    <3>5. CASE Len(link) \in 12 .. 13 /\ players # {}
      <4>1. first \in players /\ first \in 1 .. 2
        BY <3>5
      <4>2. Len(path) = 7 /\ path[6] = StaticIni[first]
        <5> HIDE DEF path, link, players, first
        <5> QED
          BY <3>2, <3>5, Rewritten
      <4>3. part = StaticIni[first]
        <5> HIDE DEF path, first
        <5> QED
          BY <4>2
      <4>4. player = first
        <5> HIDE DEF part, first
        <5> QED
          BY <4>1, <4>3 DEF StaticIni
      <4> HIDE DEF player
      <4> QED
        BY <3>1, <4>1, <4>4
    <3> QED
      BY <3>3, <3>4, <3>5
  <2> QED
    BY <2>4, <2>5
<1> QED
  BY <1>2, <1>5, <1>6, <1>7, SocketsArePlaces

LEMMA FixStep == FixInv /\ [UsbFixNext]_vars_usbfix => FixInv'
<1> SUFFICES ASSUME FixInv, UsbFixNext \/ UNCHANGED vars_usbfix
             PROVE  FixInv'
  OBVIOUS
<1>1. ASSUME NEW disk \in ToSet(Disks), GameLooks(disk)
      PROVE  FixInv'
  <2>1. DrivesAreTheirPlayers'
    BY <1>1, LookKeeps
  <2> QED
    BY <1>1, <2>1 DEF FixInv, GameLooks, propatch_usb_fix_init
<1>2. ASSUME NEW disk \in ToSet(Disks), PullDrive(disk)
      PROVE  FixInv'
  BY <1>2 DEF FixInv, PullDrive, propatch_usb_fix_init, DrivesAreTheirPlayers
<1>3. ASSUME NEW socket \in Sockets, PlugInDrive(socket)
      PROVE  FixInv'
  BY <1>3 DEF FixInv, PlugInDrive, propatch_usb_fix_init, DrivesAreTheirPlayers
<1>4. CASE UNCHANGED vars_usbfix
  BY <1>4 DEF FixInv, vars_usbfix, propatch_usb_fix_init, DrivesAreTheirPlayers
<1> QED
  BY <1>1, <1>2, <1>3, <1>4 DEF UsbFixNext

\* For every set of names, sockets and options: a drive with one of the two names
\* shows up on the side of the player whose port it is in, up to one bridge or
\* one hub, and no other drive is ever a player's (propatch_usb_fix_readlink).
THEOREM DrivesBelong == UsbFixSpec => []DrivesAreTheirPlayers
<1>1. UsbFixInit => FixInv
  BY DEF UsbFixInit, FixInv, DrivesAreTheirPlayers
<1>2. FixInv => DrivesAreTheirPlayers
  BY DEF FixInv
<1> QED
  BY <1>1, <1>2, FixStep, PTL DEF UsbFixSpec

(************** IoBoards: every bit, whatever the library is ***************)
\* First the layouts, for any set of inputs or lights: what goes through a handler
\* and a library is what the board has.  Then BoardsInv, which is inductive: what each
\* variable holds of what was pressed when the board was read, and of the lights
\* sent, unless a transfer failed or calls of two threads overlap.
PiuioInputs == Sensors \cup Singles(DOMAIN sys)

\* The bits of the panels and of the buttons, and the names that they stand for.
LEMMA Panels ==
  /\ DOMAIN panel = {"lu", "ru", "cn", "ld", "rd"}
  /\ \A d \in DOMAIN panel : panel[d] \in 0 .. 4 /\ hw_panel[panel[d] + 1] = d
  /\ \A i \in 0 .. 4 : hw_panel[i + 1] \in DOMAIN panel /\ panel[hw_panel[i + 1]] = i
<1>1. DOMAIN panel = {"lu", "ru", "cn", "ld", "rd"}
  BY DEF panel
<1>2. /\ panel["lu"] = 0 /\ panel["ru"] = 1 /\ panel["cn"] = 2 /\ panel["ld"] = 3 /\ panel["rd"] = 4
      /\ hw_panel[1] = "lu" /\ hw_panel[2] = "ru" /\ hw_panel[3] = "cn" /\ hw_panel[4] = "ld"
      /\ hw_panel[5] = "rd"
  BY DEF panel, hw_panel
<1>3. ASSUME NEW d \in DOMAIN panel
      PROVE  panel[d] \in 0 .. 4 /\ hw_panel[panel[d] + 1] = d
  BY <1>1, <1>2
<1>4. ASSUME NEW i \in 0 .. 4
      PROVE  hw_panel[i + 1] \in DOMAIN panel /\ panel[hw_panel[i + 1]] = i
  <2>1. i = 0 \/ i = 1 \/ i = 2 \/ i = 3 \/ i = 4
    OBVIOUS
  <2> QED
    BY <1>1, <1>2, <2>1
<1> QED
  BY <1>1, <1>3, <1>4

LEMMA Buttons ==
  /\ DOMAIN btn_in = {"back", "left", "right", "start"}
  /\ \A d \in DOMAIN btn_in : btn_in[d] \in 0 .. 3 /\ hw_btn[btn_in[d] + 1] = d
  /\ \A i \in 0 .. 3 : hw_btn[i + 1] \in DOMAIN btn_in /\ btn_in[hw_btn[i + 1]] = i
<1>1. DOMAIN btn_in = {"back", "left", "right", "start"}
  BY DEF btn_in
<1>2. /\ btn_in["back"] = 0 /\ btn_in["left"] = 1 /\ btn_in["right"] = 2 /\ btn_in["start"] = 3
      /\ hw_btn[1] = "back" /\ hw_btn[2] = "left" /\ hw_btn[3] = "right" /\ hw_btn[4] = "start"
  BY DEF btn_in, hw_btn
<1>3. ASSUME NEW d \in DOMAIN btn_in
      PROVE  btn_in[d] \in 0 .. 3 /\ hw_btn[btn_in[d] + 1] = d
  BY <1>1, <1>2
<1>4. ASSUME NEW i \in 0 .. 3
      PROVE  hw_btn[i + 1] \in DOMAIN btn_in /\ btn_in[hw_btn[i + 1]] = i
  <2>1. i = 0 \/ i = 1 \/ i = 2 \/ i = 3
    OBVIOUS
  <2> QED
    BY <1>1, <1>2, <2>1
<1> QED
  BY <1>1, <1>3, <1>4

\* The bits of the system's inputs.
LEMMA Systems ==
  /\ DOMAIN sys = {"test", "coin", "service", "clear", "coin2"} /\ hw_sys = sys
  /\ sys["test"] = <<1, 1>> /\ sys["coin"] = <<1, 2>> /\ sys["service"] = <<1, 6>>
  /\ sys["clear"] = <<1, 7>> /\ sys["coin2"] = <<3, 2>>
  /\ \A s, r \in DOMAIN sys : sys[s] = sys[r] => s = r
  /\ \A s \in DOMAIN sys : sys[s] \in {1, 3} \X (0 .. 7)
<1>1. DOMAIN sys = {"test", "coin", "service", "clear", "coin2"}
  BY DEF sys
<1>2. /\ sys["test"] = <<1, 1>> /\ sys["coin"] = <<1, 2>> /\ sys["service"] = <<1, 6>>
      /\ sys["clear"] = <<1, 7>> /\ sys["coin2"] = <<3, 2>>
  BY DEF sys
<1>3. hw_sys = sys
  BY DEF sys, hw_sys
<1>4. \A s, r \in DOMAIN sys : sys[s] = sys[r] => s = r
  BY <1>1, <1>2
<1>5. \A s \in DOMAIN sys : sys[s] \in {1, 3} \X (0 .. 7)
  BY <1>1, <1>2
<1> QED
  BY <1>1, <1>2, <1>3, <1>4, <1>5

\* Panels, system and buttons.
LEMMA Kinds ==
  /\ Sensors \cap Singles(DOMAIN sys) = {} /\ Btns \cap Sensors = {}
  /\ Btns \cap Singles(DOMAIN sys) = {}
BY DEF Sensors, Btns, Singles, Players, Groups

\* The block that the game is given, as the board would have made it.
LEMMA BlockToGame ==
  ASSUME NEW names, NEW g \in Groups
  PROVE  _patch_piuio_read_inputs_to_buffer(names, g) = PiuioBlock(names, g)
<1> DEFINE A == {<<2 * n[1], panel[n[2]]>> : n \in {m \in names \cap Sensors : m[3] = g}}
           B == {b \in {0, 2} \X (0 .. 4) : <<b[1] \div 2, hw_panel[b[2] + 1], g>> \in names}
<1>1. ASSUME NEW n \in names \cap Sensors, n[3] = g
      PROVE  <<2 * n[1], panel[n[2]]>> \in B
  <2>1. PICK p \in {0, 1}, d \in DOMAIN panel : n = <<p, d, g>>
    BY <1>1 DEF Sensors, Players, Groups
  <2>2. 2 * p \in {0, 2} /\ (2 * p) \div 2 = p
    OBVIOUS
  <2>3. panel[d] \in 0 .. 4 /\ hw_panel[panel[d] + 1] = d
    BY Panels
  <2> QED
    BY <2>1, <2>2, <2>3
<1>2. ASSUME NEW b \in B
      PROVE  b \in A
  <2>1. PICK x \in {0, 2}, y \in 0 .. 4 : b = <<x, y>> /\ <<x \div 2, hw_panel[y + 1], g>> \in names
    BY <1>2
  <2> DEFINE n == <<x \div 2, hw_panel[y + 1], g>>
  <2>2. x \div 2 \in {0, 1} /\ 2 * (x \div 2) = x
    OBVIOUS
  <2>3. hw_panel[y + 1] \in DOMAIN panel /\ panel[hw_panel[y + 1]] = y
    BY Panels
  <2>4. n \in names \cap Sensors /\ n[3] = g
    BY <2>1, <2>2, <2>3 DEF Sensors, Players
  <2>5. b = <<2 * n[1], panel[n[2]]>>
    BY <2>1, <2>2, <2>3
  <2> QED
    BY <2>4, <2>5
<1>3. A = B
  BY <1>1, <1>2
<1> QED
  BY <1>3, Systems DEF _patch_piuio_read_inputs_to_buffer, PiuioBlock

\* Which bits of the PIUIO's block are active.
LEMMA PiuioBit ==
  ASSUME NEW now, NEW g, NEW b
  PROVE  b \in PiuioBlock(now, g) <=>
           \/ b \in {0, 2} \X (0 .. 4) /\ <<b[1] \div 2, hw_panel[b[2] + 1], g>> \in now
           \/ \E s \in now \cap Singles(DOMAIN sys) : b = sys[s[1]]
<1> DEFINE P(x) == <<x[1] \div 2, hw_panel[x[2] + 1], g>> \in now
           Q == {0, 2} \X (0 .. 4)
           T == now \cap Singles(DOMAIN sys)
           h(s) == sys[s[1]]
<1>1. PiuioBlock(now, g) = {x \in Q : P(x)} \cup {h(s) : s \in T}
  <2>1. hw_sys = sys
    BY Systems
  <2> QED
    BY <2>1 DEF PiuioBlock
<1> HIDE DEF P, Q, T, h
<1>2. b \in PiuioBlock(now, g) <=> (b \in Q /\ P(b)) \/ \E s \in T : b = h(s)
  BY <1>1
<1> QED
  BY <1>2 DEF P, Q, T, h

\* What the library takes from the block of one group.
LEMMA BlockFromBoard ==
  ASSUME NEW now, NEW g \in Groups
  PROVE  piuio_drv_piuio_copy_inputs(PiuioBlock(now, g), g)
           = {n \in now \cap Sensors : n[3] = g} \cup (now \cap Singles(DOMAIN sys \ {"coin2"}))
<1> DEFINE block == PiuioBlock(now, g)
           C == {n \in Sensors : n[3] = g /\ <<2 * n[1], panel[n[2]]>> \in block}
           D == {s \in Singles(DOMAIN sys \ {"coin2"}) : sys[s[1]] \in block}
<1>1. ASSUME NEW p \in {0, 1}, NEW d \in DOMAIN panel
      PROVE  <<2 * p, panel[d]>> \in block <=> <<p, d, g>> \in now
  <2>1. 2 * p \in {0, 2} /\ (2 * p) \div 2 = p
    OBVIOUS
  <2>2. panel[d] \in 0 .. 4 /\ hw_panel[panel[d] + 1] = d
    BY Panels
  <2>3. <<2 * p, panel[d]>> \notin {1, 3} \X (0 .. 7)
    BY <2>1
  <2>4. \A s \in now \cap Singles(DOMAIN sys) : sys[s[1]] \in {1, 3} \X (0 .. 7)
    BY Systems DEF Singles
  <2> QED
    BY <2>1, <2>2, <2>3, <2>4, PiuioBit
<1>2. ASSUME NEW s \in DOMAIN sys
      PROVE  sys[s] \in block <=> <<s>> \in now
  <2>1. sys[s] \notin {0, 2} \X (0 .. 4)
    BY Systems
  <2>2. sys[s] \in block <=> \E r \in now \cap Singles(DOMAIN sys) : sys[s] = sys[r[1]]
    <3>1. ~(sys[s] \in {0, 2} \X (0 .. 4) /\ <<sys[s][1] \div 2, hw_panel[sys[s][2] + 1], g>> \in now)
      BY <2>1
    <3> QED
      BY <3>1, PiuioBit
  <2>3. ASSUME NEW r \in now \cap Singles(DOMAIN sys), sys[s] = sys[r[1]]
        PROVE  <<s>> \in now
    BY <2>3, Systems DEF Singles
  <2>4. <<s>> \in now => \E r \in now \cap Singles(DOMAIN sys) : sys[s] = sys[r[1]]
    <3>1. <<s>> \in Singles(DOMAIN sys) /\ <<s>>[1] = s
      BY DEF Singles
    <3> QED
      BY <3>1, Systems
  <2> QED
    BY <2>2, <2>3, <2>4
<1>3. C = {n \in now \cap Sensors : n[3] = g}
  <2>1. ASSUME NEW n \in Sensors, n[3] = g
        PROVE  <<2 * n[1], panel[n[2]]>> \in block <=> n \in now
    <3>1. PICK p \in {0, 1}, d \in DOMAIN panel : n = <<p, d, g>>
      BY <2>1 DEF Sensors, Players, Groups
    <3> QED
      BY <1>1, <3>1
  <2> QED
    BY <2>1
<1>4. D = now \cap Singles(DOMAIN sys \ {"coin2"})
  BY <1>2 DEF Singles
<1> QED
  BY <1>3, <1>4 DEF piuio_drv_piuio_copy_inputs

LEMMA ButtonBits ==
  ASSUME NEW p \in {0, 1}, NEW d \in DOMAIN btn_in
  PROVE  /\ 4 * p + btn_in[d] \in 0 .. 7 /\ (4 * p + btn_in[d]) \div 4 = p
         /\ hw_btn[((4 * p + btn_in[d]) % 4) + 1] = d
<1>1. btn_in[d] \in 0 .. 3 /\ hw_btn[btn_in[d] + 1] = d
  BY Buttons
<1> DEFINE i == btn_in[d]
<1>2. i \in 0 .. 3 /\ hw_btn[i + 1] = d
  BY <1>1
<1> HIDE DEF i
<1>3. 4 * p + i \in 0 .. 7 /\ (4 * p + i) \div 4 = p /\ (4 * p + i) % 4 = i
  BY <1>2
<1> QED
  BY <1>2, <1>3 DEF i

LEMMA Halves == \A c \in 0 .. 7 : c \div 4 \in {0, 1} /\ c % 4 \in 0 .. 3 /\ c = 4 * (c \div 4) + (c % 4)
<1> SUFFICES ASSUME NEW c \in 0 .. 7
             PROVE  c \div 4 \in {0, 1} /\ c % 4 \in 0 .. 3 /\ c = 4 * (c \div 4) + (c % 4)
  OBVIOUS
<1>1. c \in Int
  OBVIOUS
<1> QED
  BY <1>1

\* The same for the buttons: the block that the game is given, and what is read.
LEMMA ButtonsToGame ==
  ASSUME NEW names
  PROVE  _patch_piubtn_process_inputs(names) = PiubtnBlock(names)
<1> DEFINE A == {<<0, 4 * n[1] + btn_in[n[2]]>> : n \in names \cap Btns}
           B == {<<0, b>> : b \in {c \in 0 .. 7 : <<c \div 4, hw_btn[(c % 4) + 1]>> \in names}}
<1>1. ASSUME NEW n \in names \cap Btns
      PROVE  <<0, 4 * n[1] + btn_in[n[2]]>> \in B
  <2>1. PICK p \in {0, 1}, d \in DOMAIN btn_in : n = <<p, d>>
    BY DEF Btns, Players
  <2> QED
    BY <2>1, ButtonBits
<1>2. ASSUME NEW c \in 0 .. 7, <<c \div 4, hw_btn[(c % 4) + 1]>> \in names
      PROVE  <<0, c>> \in A
  <2>1. c \div 4 \in {0, 1} /\ c % 4 \in 0 .. 3 /\ c = 4 * (c \div 4) + (c % 4)
    BY Halves
  <2> DEFINE n == <<c \div 4, hw_btn[(c % 4) + 1]>>
  <2>2. n \in names \cap Btns /\ <<0, c>> = <<0, 4 * n[1] + btn_in[n[2]]>>
    BY <1>2, <2>1, Buttons DEF Btns, Players
  <2> QED
    BY <2>2
<1>3. A = B
  BY <1>1, <1>2
<1> QED
  BY <1>3 DEF _patch_piubtn_process_inputs, PiubtnBlock

LEMMA ButtonsFromBoard ==
  ASSUME NEW now
  PROVE  piubtn_drv_piubtn_copy_inputs(PiubtnBlock(now)) = now \cap Btns
<1>1. ASSUME NEW n \in Btns
      PROVE  <<0, 4 * n[1] + btn_in[n[2]]>> \in PiubtnBlock(now) <=> n \in now
  <2>1. PICK p \in {0, 1}, d \in DOMAIN btn_in : n = <<p, d>>
    BY DEF Btns, Players
  <2> QED
    BY <2>1, ButtonBits, ZenonT(60) DEF PiubtnBlock
<1> QED
  BY <1>1 DEF piubtn_drv_piubtn_copy_inputs

\* Only the buttons matter.
LEMMA ButtonsOnly ==
  ASSUME NEW names
  PROVE  PiubtnBlock(names) = PiubtnBlock(names \cap Btns)
<1>1. \A c \in 0 .. 7 : <<c \div 4, hw_btn[(c % 4) + 1]>> \in Btns
  BY Halves, Buttons DEF Btns, Players
<1> QED
  BY <1>1 DEF PiubtnBlock

LEMMA PiuioOnly ==
  ASSUME NEW names, NEW g \in Groups
  PROVE  PiuioBlock(names, g) = PiuioBlock(names \cap PiuioInputs, g)
<1>1. \A b \in {0, 2} \X (0 .. 4) : <<b[1] \div 2, hw_panel[b[2] + 1], g>> \in Sensors
  BY Panels DEF Sensors, Players
<1> QED
  <2> DEFINE m == names \cap PiuioInputs
  <2>1. names \cap Singles(DOMAIN sys) = m \cap Singles(DOMAIN sys)
    BY DEF PiuioInputs
  <2>2. \A b \in {0, 2} \X (0 .. 4) : <<b[1] \div 2, hw_panel[b[2] + 1], g>> \in names
                                      <=> <<b[1] \div 2, hw_panel[b[2] + 1], g>> \in m
    BY <1>1 DEF PiuioInputs
  <2> HIDE DEF m
  <2>3. ASSUME NEW b
        PROVE  b \in PiuioBlock(names, g) <=> b \in PiuioBlock(m, g)
    <3>1. b \in PiuioBlock(names, g) <=>
             \/ b \in {0, 2} \X (0 .. 4) /\ <<b[1] \div 2, hw_panel[b[2] + 1], g>> \in names
             \/ \E s \in names \cap Singles(DOMAIN sys) : b = sys[s[1]]
      BY PiuioBit
    <3>2. b \in PiuioBlock(m, g) <=>
             \/ b \in {0, 2} \X (0 .. 4) /\ <<b[1] \div 2, hw_panel[b[2] + 1], g>> \in m
             \/ \E s \in m \cap Singles(DOMAIN sys) : b = sys[s[1]]
      BY PiuioBit
    <3> QED
      BY <2>1, <2>2, <3>1, <3>2, Zenon
  <2>4. PiuioBlock(names, g) = PiuioBlock(m, g)
    BY <2>3
  <2> QED
    BY <2>4 DEF m

\* Which bits of the LXIO's block are active.
LEMMA LxioBit ==
  ASSUME NEW now, NEW b
  PROVE  b \in LxioBlock(now) <=>
           \/ b \in (0 .. 7) \X (0 .. 4) /\ <<b[1] \div 4, hw_panel[b[2] + 1], b[1] % 4>> \in now
           \/ \E s \in now \cap Singles(DOMAIN sys) :
                b = <<IF s = <<"coin2">> THEN 9 ELSE 8, sys[s[1]][2]>>
           \/ \E n \in now \cap Btns : \E x \in lxio_btn[n[2]] : b = <<10 + n[1], x>>
<1> DEFINE P(x) == <<x[1] \div 4, hw_panel[x[2] + 1], x[1] % 4>> \in now
           Q == (0 .. 7) \X (0 .. 4)
           T == now \cap Singles(DOMAIN sys)
           h(s) == <<IF s = <<"coin2">> THEN 9 ELSE 8, sys[s[1]][2]>>
           U == now \cap Btns
           k(n) == lxio_btn[n[2]]
           l(n, x) == <<10 + n[1], x>>
<1>1. LxioBlock(now) = {x \in Q : P(x)} \cup {h(s) : s \in T} \cup UNION {{l(n, x) : x \in k(n)} : n \in U}
  <2>1. hw_sys = sys /\ hw_lxio = lxio_btn
    BY Systems DEF hw_lxio, lxio_btn
  <2> QED
    BY <2>1 DEF LxioBlock
<1> HIDE DEF P, Q, T, h, U, k, l
<1>2. b \in LxioBlock(now) <=>
        \/ b \in Q /\ P(b)
        \/ \E s \in T : b = h(s)
        \/ \E n \in U : \E x \in k(n) : b = l(n, x)
  BY <1>1
<1> QED
  BY <1>2 DEF P, Q, T, h, U, k, l

LEMMA LxioButtons ==
  /\ DOMAIN btn_in = {"back", "left", "right", "start"}
  /\ \A d, e \in DOMAIN btn_in : lxio_btn[d] \subseteq 0 .. 4 /\ lxio_btn[d] # {}
       /\ (lxio_btn[d] \cap lxio_btn[e] # {} => d = e)
<1>1. DOMAIN btn_in = {"back", "left", "right", "start"}
  BY Buttons
<1>2. lxio_btn["start"] = {2} /\ lxio_btn["left"] = {3} /\ lxio_btn["right"] = {4}
      /\ lxio_btn["back"] = {0, 1}
  BY DEF lxio_btn
<1> QED
  BY <1>1, <1>2

LEMMA LxioInBits ==
  ASSUME NEW now
  PROVE  LxioBlock(now) \subseteq LxioBits
<1>1. ASSUME NEW b
      PROVE  b \in LxioBlock(now) <=>
        \/ b \in (0 .. 7) \X (0 .. 4) /\ <<b[1] \div 4, hw_panel[b[2] + 1], b[1] % 4>> \in now
        \/ \E s \in now \cap Singles(DOMAIN sys) :
             b = <<IF s = <<"coin2">> THEN 9 ELSE 8, sys[s[1]][2]>>
        \/ \E n \in now \cap Btns : \E x \in lxio_btn[n[2]] : b = <<10 + n[1], x>>
  BY LxioBit
<1> SUFFICES ASSUME NEW b \in LxioBlock(now)
             PROVE  b \in LxioBits
  OBVIOUS
<1>4. CASE b \in (0 .. 7) \X (0 .. 4)
  BY <1>4 DEF LxioBits
<1>2. ASSUME NEW s \in Singles(DOMAIN sys), b = <<IF s = <<"coin2">> THEN 9 ELSE 8, sys[s[1]][2]>>
      PROVE  b \in LxioBits
  <2>1. sys[s[1]][2] \in 0 .. 7
    BY Systems DEF Singles
  <2> QED
    BY <1>2, <2>1 DEF LxioBits
<1>3. ASSUME NEW n \in Btns, NEW x \in lxio_btn[n[2]], b = <<10 + n[1], x>>
      PROVE  b \in LxioBits
  <2>1. PICK p \in {0, 1}, d \in DOMAIN btn_in : n = <<p, d>>
    BY DEF Btns, Players
  <2>2. x \in 0 .. 4
    BY <2>1, LxioButtons
  <2> QED
    BY <1>3, <2>1, <2>2 DEF LxioBits
<1> QED
  BY <1>1, <1>2, <1>3, <1>4

\* What the library takes from the block of the LXIO: the PIUIO's, and the buttons.
LEMMA LxioToPiuio ==
  ASSUME NEW now
  PROVE  convert_input_to_piuio(LxioBlock(now)) = now \cap PiuioInputs
<1> DEFINE block == LxioBlock(now)
<1>1. ASSUME NEW p \in {0, 1}, NEW d \in DOMAIN panel, NEW g \in Groups
      PROVE  <<lxio_sensor(p, g), panel[d]>> \in block <=> <<p, d, g>> \in now
  <2>1. lxio_sensor(p, g) \in 0 .. 7 /\ lxio_sensor(p, g) \div 4 = p /\ lxio_sensor(p, g) % 4 = g
    BY DEF lxio_sensor, Groups
  <2>2. panel[d] \in 0 .. 4 /\ hw_panel[panel[d] + 1] = d
    BY Panels
  <2>3. ASSUME NEW s
        PROVE  <<lxio_sensor(p, g), panel[d]>> # <<IF s = <<"coin2">> THEN 9 ELSE 8, sys[s[1]][2]>>
    BY <2>1
  <2>4. ASSUME NEW n \in Btns, NEW x
        PROVE  <<lxio_sensor(p, g), panel[d]>> # <<10 + n[1], x>>
    BY <2>1 DEF Btns, Players
  <2> QED
    BY <2>1, <2>2, <2>3, <2>4, LxioBit
<1>2. ASSUME NEW s \in DOMAIN sys
      PROVE  <<IF s = "coin2" THEN 9 ELSE 8, sys[s][2]>> \in block <=> <<s>> \in now
  <2> DEFINE b == <<IF s = "coin2" THEN 9 ELSE 8, sys[s][2]>>
  <2>1. b \notin (0 .. 7) \X (0 .. 4)
    OBVIOUS
  <2>2. ASSUME NEW n \in Btns, NEW x
        PROVE  b # <<10 + n[1], x>>
    BY DEF Btns, Players
  <2>3. ASSUME NEW r \in DOMAIN sys, b = <<IF <<r>> = <<"coin2">> THEN 9 ELSE 8, sys[r][2]>>
        PROVE  r = s
    BY <2>3, Systems
  <2>4. b \in block <=> \E r \in now \cap Singles(DOMAIN sys) :
                          b = <<IF r = <<"coin2">> THEN 9 ELSE 8, sys[r[1]][2]>>
    <3> HIDE DEF b
    <3> QED
      <4>1. b \in block <=>
              \/ b \in (0 .. 7) \X (0 .. 4) /\ <<b[1] \div 4, hw_panel[b[2] + 1], b[1] % 4>> \in now
              \/ \E r \in now \cap Singles(DOMAIN sys) :
                   b = <<IF r = <<"coin2">> THEN 9 ELSE 8, sys[r[1]][2]>>
              \/ \E n \in now \cap Btns : \E y \in lxio_btn[n[2]] : b = <<10 + n[1], y>>
        BY LxioBit
      <4> QED
        BY <2>1, <2>2, <4>1
  <2>5. <<s>> \in now => <<s>> \in now \cap Singles(DOMAIN sys)
    BY DEF Singles
  <2> QED
    BY <2>3, <2>4, <2>5 DEF Singles
<1>3. {n \in Sensors : <<lxio_sensor(n[1], n[3]), panel[n[2]]>> \in block} = now \cap Sensors
  <2>1. ASSUME NEW n \in Sensors
        PROVE  <<lxio_sensor(n[1], n[3]), panel[n[2]]>> \in block <=> n \in now
    <3>1. PICK p \in {0, 1}, d \in DOMAIN panel, g \in Groups : n = <<p, d, g>>
      BY DEF Sensors, Players
    <3> QED
      BY <1>1, <3>1
  <2> QED
    BY <2>1
<1>4. {s \in Singles({"test", "coin", "service", "clear"}) : <<8, sys[s[1]][2]>> \in block}
        = now \cap Singles({"test", "coin", "service", "clear"})
  <2>1. ASSUME NEW s \in {"test", "coin", "service", "clear"}
        PROVE  <<8, sys[s][2]>> \in block <=> <<s>> \in now
    BY <1>2, Systems
  <2> HIDE DEF block
  <2> QED
    BY <2>1 DEF Singles
<1>5. {s \in Singles({"coin2"}) : <<9, sys[s[1]][2]>> \in block} = now \cap Singles({"coin2"})
  <2>1. <<9, sys["coin2"][2]>> \in block <=> <<"coin2">> \in now
    BY <1>2, Systems
  <2> HIDE DEF block
  <2> QED
    BY <2>1 DEF Singles
<1>6. Singles(DOMAIN sys) = Singles({"test", "coin", "service", "clear"}) \cup Singles({"coin2"})
  BY Systems DEF Singles
<1> QED
  BY <1>3, <1>4, <1>5, <1>6 DEF convert_input_to_piuio, PiuioInputs

LEMMA LxioToPiubtn ==
  ASSUME NEW now
  PROVE  lxio_get_input(LxioBlock(now)) = now \cap Btns
<1> DEFINE block == LxioBlock(now)
<1>1. ASSUME NEW p \in {0, 1}, NEW d \in DOMAIN btn_in
      PROVE  (\E x \in lxio_btn[d] : <<10 + p, x>> \in block) <=> <<p, d>> \in now
  <2>1. ASSUME NEW x \in lxio_btn[d]
        PROVE  <<10 + p, x>> \in block <=>
                 \E n \in now \cap Btns : \E y \in lxio_btn[n[2]] : <<10 + p, x>> = <<10 + n[1], y>>
    <3> DEFINE b == <<10 + p, x>>
    <3>1. b \notin (0 .. 7) \X (0 .. 4)
      OBVIOUS
    <3>2. ASSUME NEW s
          PROVE  b # <<IF s = <<"coin2">> THEN 9 ELSE 8, sys[s[1]][2]>>
      OBVIOUS
    <3> HIDE DEF b
    <3>3. b \in block <=> \E n \in now \cap Btns : \E y \in lxio_btn[n[2]] : b = <<10 + n[1], y>>
      <4>1. b \in block <=>
              \/ b \in (0 .. 7) \X (0 .. 4) /\ <<b[1] \div 4, hw_panel[b[2] + 1], b[1] % 4>> \in now
              \/ \E r \in now \cap Singles(DOMAIN sys) :
                   b = <<IF r = <<"coin2">> THEN 9 ELSE 8, sys[r[1]][2]>>
              \/ \E n \in now \cap Btns : \E y \in lxio_btn[n[2]] : b = <<10 + n[1], y>>
        BY LxioBit
      <4> QED
        BY <3>1, <3>2, <4>1
    <3> QED
      BY <3>3 DEF b
  <2>2. ASSUME NEW x \in lxio_btn[d], NEW n \in now \cap Btns, NEW y \in lxio_btn[n[2]],
               <<10 + p, x>> = <<10 + n[1], y>>
        PROVE  <<p, d>> \in now
    <3>1. PICK q \in {0, 1}, e \in DOMAIN btn_in : n = <<q, e>>
      BY DEF Btns, Players
    <3>2. q = p /\ x \in lxio_btn[e]
      BY <2>2, <3>1
    <3>3. e = d
      BY <3>2, LxioButtons
    <3> QED
      BY <3>1, <3>2, <3>3
  <2>3. ASSUME <<p, d>> \in now
        PROVE  \E x \in lxio_btn[d] : <<10 + p, x>> \in block
    <3>1. PICK x \in lxio_btn[d] : TRUE
      BY LxioButtons
    <3>2. <<p, d>> \in now \cap Btns /\ <<p, d>>[1] = p /\ <<p, d>>[2] = d
      BY <2>3 DEF Btns, Players
    <3> QED
      BY <2>1, <3>1, <3>2
  <2> QED
    BY <2>1, <2>2, <2>3
<1>2. ASSUME NEW n \in Btns
      PROVE  (\E x \in lxio_btn[n[2]] : <<10 + n[1], x>> \in block) <=> n \in now
  <2>1. PICK p \in {0, 1}, d \in DOMAIN btn_in : n = <<p, d>>
    BY DEF Btns, Players
  <2> QED
    BY <1>1, <2>1
<1> QED
  BY <1>2 DEF lxio_get_input

\* The lights on the board are those of the game's block.
LEMMA Lights ==
  ASSUME NEW block, NEW N, N \subseteq _patch_piuio_read_outputs_from_buffer(block),
         _patch_piuio_read_outputs_from_buffer(block) \subseteq N \cup {<<"halo_r2">>}
  PROVE  /\ \A b \in {0, 2} \X (2 .. 6) : b \in piuio_lights(N) <=> b \in block
         /\ \A c \in DOMAIN cab \ {"halo_r2"} : cab[c] \in piuio_lights(N) <=> cab[c] \in block
         /\ <<2, 7>> \in piuio_lights(N) <=> <<"halo_r2">> \in N
         /\ piuio_lights(N) \subseteq (0 .. 3) \X (0 .. 7)
<1> DEFINE R == _patch_piuio_read_outputs_from_buffer(block)
           A == {<<2 * n[1], 2 + panel[n[2]]>> : n \in N \cap PadLights}
           C == {cab[c[1]] : c \in N \cap Singles(DOMAIN cab)}
<1>1. piuio_lights(N) = A \cup C
  BY DEF piuio_lights
<1>2. /\ DOMAIN cab = {"bass", "halo_r2", "halo_r1", "halo_l2", "halo_l1"}
      /\ cab["bass"] = <<1, 2>> /\ cab["halo_r2"] = <<2, 7>> /\ cab["halo_r1"] = <<3, 0>>
      /\ cab["halo_l2"] = <<3, 1>> /\ cab["halo_l1"] = <<3, 2>>
  BY DEF cab
<1>3. \A p \in {0, 1}, d \in DOMAIN panel : <<p, d>> \in N <=> <<2 * p, 2 + panel[d]>> \in block
  <2> SUFFICES ASSUME NEW p \in {0, 1}, NEW d \in DOMAIN panel
               PROVE  <<p, d>> \in N <=> <<2 * p, 2 + panel[d]>> \in block
    OBVIOUS
  <2>1. <<p, d>> \in PadLights /\ <<p, d>> \notin Singles(DOMAIN cab) /\ <<p, d>> # <<"halo_r2">>
    BY DEF PadLights, Players, Singles
  <2>2. <<p, d>> \in R <=> <<2 * p, 2 + panel[d]>> \in block
    BY <2>1 DEF _patch_piuio_read_outputs_from_buffer, Singles
  <2> QED
    BY <2>1, <2>2
<1>4. \A c \in DOMAIN cab \ {"halo_r2"} : <<c>> \in N <=> cab[c] \in block
  <2> SUFFICES ASSUME NEW c \in DOMAIN cab \ {"halo_r2"}
               PROVE  <<c>> \in N <=> cab[c] \in block
    OBVIOUS
  <2>1. <<c>> \notin PadLights /\ <<c>> # <<"halo_r2">>
    BY DEF PadLights, Players
  <2>2. <<c>> \in R <=> cab[c] \in block
    BY <2>1 DEF _patch_piuio_read_outputs_from_buffer
  <2> QED
    BY <2>1, <2>2
<1>5. A \subseteq {0, 2} \X (2 .. 6)
  BY Panels DEF PadLights, Players
<1>6. C \subseteq {<<1, 2>>, <<2, 7>>, <<3, 0>>, <<3, 1>>, <<3, 2>>}
  BY <1>2 DEF Singles
<1>7. ASSUME NEW x \in {0, 2}, NEW y \in 2 .. 6
      PROVE  <<x, y>> \in A <=> <<x, y>> \in block
  <2>1. PICK p \in {0, 1} : x = 2 * p
    OBVIOUS
  <2>2. PICK d \in DOMAIN panel : y = 2 + panel[d]
    <3>1. y - 2 \in 0 .. 4
      OBVIOUS
    <3> QED
      BY <3>1, Panels
  <2>3. ASSUME NEW n \in N \cap PadLights, <<x, y>> = <<2 * n[1], 2 + panel[n[2]]>>
        PROVE  <<x, y>> \in block
    <3>1. PICK q \in {0, 1}, e \in DOMAIN panel : n = <<q, e>>
      BY DEF PadLights, Players
    <3> QED
      BY <1>3, <2>3, <3>1
  <2>4. <<p, d>> \in N => <<p, d>> \in N \cap PadLights
    BY DEF PadLights, Players
  <2>5. <<p, d>> \in N => <<x, y>> \in A
    BY <2>1, <2>2, <2>4
  <2> QED
    BY <1>3, <2>1, <2>2, <2>3, <2>5
<1>8. ASSUME NEW c \in DOMAIN cab
      PROVE  cab[c] \in C <=> <<c>> \in N
  <2>1. ASSUME NEW d \in Singles(DOMAIN cab), cab[c] = cab[d[1]]
        PROVE  d = <<c>>
    BY <1>2, <2>1 DEF Singles
  <2>2. <<c>> \in Singles(DOMAIN cab) /\ <<c>>[1] = c
    BY DEF Singles
  <2> QED
    BY <2>1, <2>2
<1> HIDE DEF A, C
<1>9. \A b \in {0, 2} \X (2 .. 6) : b \in piuio_lights(N) <=> b \in block
  BY <1>1, <1>6, <1>7
<1>10. \A c \in DOMAIN cab : cab[c] \in piuio_lights(N) <=> <<c>> \in N
  BY <1>1, <1>2, <1>5, <1>8
<1>11. piuio_lights(N) \subseteq (0 .. 3) \X (0 .. 7)
  BY <1>1, <1>5, <1>6
<1> QED
  BY <1>2, <1>4, <1>9, <1>10, <1>11

LightsOf(l) ==
  /\ PiuioLightBits(l.block) = PiuioLightBits(l.sent.piuio)
  /\ l.block \cap ({4, 5} \X (0 .. 7)) = LxioPlayers(l.sent.piubtn)

\* With the PIUIO of its own.
LEMMA RealLights ==
  ASSUME NEW block, NEW g, impl = "real"
  PROVE  PiuioLightBits(piuio_drv_piuio_copy_outputs(_patch_piuio_read_outputs_from_buffer(block), g))
           = PiuioLightBits(block)
<1> DEFINE N == _patch_piuio_read_outputs_from_buffer(block)
           X == piuio_drv_piuio_copy_outputs(N, g)
<1>1. X = Select(g) \cup piuio_lights(N)
  BY DEF piuio_drv_piuio_copy_outputs
<1>2. /\ \A b \in {0, 2} \X (2 .. 6) : b \in piuio_lights(N) <=> b \in block
      /\ \A c \in DOMAIN cab \ {"halo_r2"} : cab[c] \in piuio_lights(N) <=> cab[c] \in block
      /\ <<2, 7>> \in piuio_lights(N) <=> <<"halo_r2">> \in N
  BY Lights
<1>3. <<"halo_r2">> \in N <=> <<2, 7>> \in block
  BY DEF _patch_piuio_read_outputs_from_buffer, PadLights, Players, cab
<1>4. /\ <<1, 2>> = cab["bass"] /\ <<3, 0>> = cab["halo_r1"] /\ <<3, 1>> = cab["halo_l2"]
      /\ <<3, 2>> = cab["halo_l1"]
      /\ {"bass", "halo_r1", "halo_l2", "halo_l1"} \subseteq DOMAIN cab \ {"halo_r2"}
  BY DEF cab
<1>5. Select(g) \subseteq {<<0, 0>>, <<2, 0>>, <<0, 1>>, <<2, 1>>}
  BY DEF Select
<1> HIDE DEF N, X
<1>6. ASSUME NEW b \in ({0, 2} \X (2 .. 6)) \cup {<<1, 2>>} \cup ({3} \X (0 .. 2)) \cup {<<2, 7>>}
      PROVE  b \in X <=> b \in block
  <2>1. b \notin Select(g)
    BY <1>5
  <2>2. b \in {0, 2} \X (2 .. 6) \/ b \in {<<1, 2>>, <<2, 7>>, <<3, 0>>, <<3, 1>>, <<3, 2>>}
    OBVIOUS
  <2>3. b \in piuio_lights(N) <=> b \in block
    BY <1>2, <1>3, <1>4, <2>2
  <2> QED
    BY <1>1, <2>1, <2>3
<1>7. PiuioLightBits(X) = PiuioLightBits(block)
  BY <1>6 DEF PiuioLightBits
<1> QED
  BY <1>7 DEF X, N

\* With the LXIO.
LEMMA LxioLights ==
  ASSUME impl = "lxio", out.piuio = _patch_piuio_read_outputs_from_buffer(game_out.piuio),
         out.piubtn = _patch_piubtn_process_outputs(game_out.piubtn)
  PROVE  LightsOf([block |-> convert_output_to_lxio, sent |-> game_out])
<1> DEFINE N == out["piuio"] \ {<<"halo_r2">>}
           block == game_out.piuio
           X == convert_output_to_lxio
           L == UNION {{<<4 + n[1], b>> : b \in lxio_btn[n[2]]} : n \in out["piubtn"]}
<1>1. X = piuio_lights(N) \cup L
  BY DEF convert_output_to_lxio
<1>2. /\ \A b \in {0, 2} \X (2 .. 6) : b \in piuio_lights(N) <=> b \in block
      /\ \A c \in DOMAIN cab \ {"halo_r2"} : cab[c] \in piuio_lights(N) <=> cab[c] \in block
      /\ piuio_lights(N) \subseteq (0 .. 3) \X (0 .. 7)
  <2>1. N \subseteq _patch_piuio_read_outputs_from_buffer(block)
        /\ _patch_piuio_read_outputs_from_buffer(block) \subseteq N \cup {<<"halo_r2">>}
    OBVIOUS
  <2> HIDE DEF N, block
  <2> QED
    BY <2>1, Lights
<1>3. /\ <<1, 2>> = cab["bass"] /\ <<3, 0>> = cab["halo_r1"] /\ <<3, 1>> = cab["halo_l2"]
      /\ <<3, 2>> = cab["halo_l1"]
      /\ {"bass", "halo_r1", "halo_l2", "halo_l1"} \subseteq DOMAIN cab \ {"halo_r2"}
  BY DEF cab
<1>4. L = LxioPlayers(game_out.piubtn)
  <2>1. hw_lxio = lxio_btn
    BY DEF hw_lxio, lxio_btn
  <2>2. out["piubtn"] = {m \in Btns : <<0, 4 * (1 - m[1]) + btn_out[m[2]]>> \in game_out.piubtn}
    BY DEF _patch_piubtn_process_outputs
  <2> QED
    BY <2>1, <2>2 DEF LxioPlayers
<1>5. L \subseteq {4, 5} \X (0 .. 7)
  <2>1. ASSUME NEW n \in out["piubtn"], NEW b \in lxio_btn[n[2]]
        PROVE  <<4 + n[1], b>> \in {4, 5} \X (0 .. 7)
    <3>1. n \in Btns
      BY DEF _patch_piubtn_process_outputs
    <3>2. PICK p \in {0, 1}, d \in DOMAIN btn_in : n = <<p, d>>
      BY <3>1 DEF Btns, Players
    <3>3. b \in 0 .. 4
      BY <3>2, LxioButtons
    <3> QED
      BY <3>2, <3>3
  <2> QED
    BY <2>1
<1> HIDE DEF N, X, L
<1>6. ASSUME NEW b \in ({0, 2} \X (2 .. 6)) \cup {<<1, 2>>} \cup ({3} \X (0 .. 2))
      PROVE  b \in X <=> b \in block
  <2>1. b \notin L
    BY <1>5
  <2>2. b \in {0, 2} \X (2 .. 6) \/ b \in {<<1, 2>>, <<3, 0>>, <<3, 1>>, <<3, 2>>}
    OBVIOUS
  <2>3. b \in piuio_lights(N) <=> b \in block
    BY <1>2, <1>3, <2>2
  <2> QED
    BY <1>1, <2>1, <2>3
<1>7. PiuioLightBits(X) = PiuioLightBits(block)
  BY <1>6 DEF PiuioLightBits
<1>8. X \cap ({4, 5} \X (0 .. 7)) = L
  BY <1>1, <1>2, <1>5
<1> QED
  BY <1>4, <1>7, <1>8 DEF LightsOf, X

Inputs(now) == {s \in now : impl = "real" => s # <<"coin2">>} \cap PiuioInputs

BoardTypes ==
  /\ impl \in {"real", "lxio"} /\ clients \subseteq BothBoards
  /\ sensor_group \in Groups /\ overlap \subseteq BothBoards
  /\ step \in [BothBoards -> {"idle", "convert", "write", "read", "invert", "inputs"}]
  /\ impl = "real" => \A c \in BothBoards : step[c] = "idle"
  /\ BothBoards = DOMAIN out /\ BothBoards = DOMAIN game_out /\ BothBoards = DOMAIN lit
  /\ BothBoards = DOMAIN game_in /\ BothBoards = DOMAIN seen /\ BothBoards = DOMAIN given_for

\* The lights that are set are those of the game's last blocks.
LightsAreSet ==
  /\ out["piuio"] = _patch_piuio_read_outputs_from_buffer(game_out["piuio"])
  /\ out["piubtn"] = _patch_piubtn_process_outputs(game_out["piubtn"])

LightsOnWire ==
  /\ impl = "lxio" => LightsOf(lxio_light_state_buffer)
  /\ lit["piuio"] # Failed =>
       PiuioLightBits(lit["piuio"].block) = PiuioLightBits(lit["piuio"].sent)
  /\ impl = "lxio" /\ lit["piubtn"] # Failed =>
       lit["piubtn"].block \cap ({4, 5} \X (0 .. 7)) = LxioPlayers(lit["piubtn"].sent)

\* Two threads that are in calls at a time are known to be.
OverlapsAreKnown ==
  step["piuio"] # "idle" /\ step["piubtn"] # "idle" => overlap = BothBoards

\* What a call that no other overlaps has read is in the buffer as it should be.
BufferIsRead ==
  \A c \in BothBoards \ overlap : seen[c] # Failed =>
    /\ step[c] = "invert" => lxio_btn_state_buffer = Inverted(LxioBlock(seen[c]))
    /\ step[c] = "inputs" => lxio_btn_state_buffer = LxioBlock(seen[c])

\* What the library has of the PIUIO between its calls.
InputsAreRead ==
  step["piuio"] = "idle" /\ seen["piuio"] # Failed => inputs \cap PiuioInputs = Inputs(seen["piuio"])

BlocksAreGiven ==
  /\ given_for["piuio"].held # Failed =>
       game_in["piuio"] = PiuioBlock({s \in given_for["piuio"].held : impl = "real" => s # <<"coin2">>},
                                     given_for["piuio"].group)
  /\ given_for["piubtn"].held # Failed =>
       game_in["piubtn"] = PiubtnBlock(given_for["piubtn"].held)

BoardsInv ==
  /\ BoardTypes /\ LightsAreSet /\ LightsOnWire /\ OverlapsAreKnown
  /\ BufferIsRead /\ InputsAreRead /\ BlocksAreGiven

\* A cycle through all of the groups reads all that is held.
LEMMA CycleReads ==
  ASSUME NEW now, impl = "real"
  PROVE  UNION {piuio_drv_piuio_copy_inputs(PiuioBlock(now, g), g) : g \in 0 .. 3} = Inputs(now)
<1> DEFINE R(g) == {n \in now \cap Sensors : n[3] = g}
           T == now \cap Singles(DOMAIN sys \ {"coin2"})
<1>1. \A g \in 0 .. 3 : piuio_drv_piuio_copy_inputs(PiuioBlock(now, g), g) = R(g) \cup T
  BY BlockFromBoard DEF Groups
<1>2. UNION {piuio_drv_piuio_copy_inputs(PiuioBlock(now, g), g) : g \in 0 .. 3}
        = UNION {R(g) \cup T : g \in 0 .. 3}
  <2> HIDE DEF R, T
  <2> QED
    BY <1>1
<1>3. UNION {R(g) \cup T : g \in 0 .. 3} = (now \cap Sensors) \cup T
  <2>1. \A n \in Sensors : n[3] \in 0 .. 3
    BY DEF Sensors, Groups
  <2> HIDE DEF T
  <2> QED
    BY <2>1
<1>4. Inputs(now) = (now \cap Sensors) \cup T
  <2>1. <<"coin2">> \notin Sensors
    BY DEF Sensors, Players
  <2>2. ASSUME NEW s \in Singles(DOMAIN sys)
        PROVE  s # <<"coin2">> <=> s \in Singles(DOMAIN sys \ {"coin2"})
    BY DEF Singles
  <2>3. Singles(DOMAIN sys \ {"coin2"}) \subseteq Singles(DOMAIN sys)
    BY DEF Singles
  <2> QED
    BY <2>1, <2>2, <2>3 DEF Inputs, PiuioInputs
<1> QED
  BY <1>2, <1>3, <1>4

\* Each action keeps the invariant.
LEMMA MessageToPiuio ==
  ASSUME BoardsInv, NEW block, NEW g \in Groups, NEW failing \in 0 .. 4, PiuioOut(block, g, failing)
  PROVE  BoardsInv'
<1> USE DEF BoardsInv, BoardTypes
<1> DEFINE lights == _patch_piuio_read_outputs_from_buffer(block)
<1>0. /\ step["piuio"] = "idle" /\ "piuio" \in clients
      /\ out' = [out EXCEPT !.piuio = lights] /\ sensor_group' = g
      /\ game_out' = [game_out EXCEPT !.piuio = block]
      /\ UNCHANGED <<impl, clients, pressed, unplugged, lxio_light_state_buffer, lxio_btn_state_buffer>>
      /\ BothBoards = {"piuio", "piubtn"}
  BY DEF PiuioOut, Ready, wire, lxio_buffers, BothBoards
<1>1. LightsAreSet'
  BY <1>0 DEF LightsAreSet
<1>2. \A b : PiuioLightBits(b)' = PiuioLightBits(b')
  BY <1>0 DEF PiuioLightBits
<1>3. CASE g > 0
  <2>1. UNCHANGED <<step, overlap, inputs, lit, game_in, given_for, seen>>
    BY <1>3 DEF PiuioOut
  <2>2. BoardTypes'
    BY <1>0, <2>1
  <2>3. LightsOnWire' /\ OverlapsAreKnown' /\ BufferIsRead' /\ InputsAreRead' /\ BlocksAreGiven'
    BY <1>0, <2>1 DEF LightsOnWire, LightsOf, PiuioLightBits, OverlapsAreKnown, BufferIsRead,
                      InputsAreRead, Inputs, BlocksAreGiven
  <2> QED
    BY <1>1, <2>2, <2>3
<1>4. CASE g = 0 /\ impl = "real"
  <2>1. /\ PiuioUpdate(failing, lights)
        /\ IF failing < 4 THEN Given("piuio", Failed) ELSE UNCHANGED <<game_in, given_for>>
        /\ UNCHANGED <<step, overlap>>
    BY <1>4 DEF PiuioOut
  <2>2. DOMAIN lit' = DOMAIN lit /\ DOMAIN seen' = DOMAIN seen /\ DOMAIN game_in' = DOMAIN game_in
        /\ DOMAIN given_for' = DOMAIN given_for
    BY <2>1 DEF PiuioUpdate, Lit, Given
  <2>3. BoardTypes'
    BY <1>0, <2>1, <2>2
  <2>4. LightsOnWire'
    <3>1. CASE failing = 0
      BY <1>0, <1>4, <2>1, <3>1 DEF PiuioUpdate, LightsOnWire, LightsOf, PiuioLightBits
    <3>2. CASE failing # 0
      <4>1. lit'["piuio"] = [block |-> piuio_drv_piuio_copy_outputs(lights, failing - 1), sent |-> block]
        BY <1>0, <2>1, <3>2 DEF PiuioUpdate, Lit
      <4>2. PiuioLightBits(piuio_drv_piuio_copy_outputs(lights, failing - 1)) = PiuioLightBits(block)
        BY <1>4, RealLights
      <4> QED
        BY <1>0, <1>4, <4>1, <4>2 DEF LightsOnWire, PiuioLightBits
    <3> QED
      BY <3>1, <3>2
  <2>5. InputsAreRead'
    <3>1. CASE failing < 4
      <4>1. seen'["piuio"] = Failed
        BY <1>0, <2>1, <3>1 DEF PiuioUpdate
      <4> QED
        BY <4>1 DEF InputsAreRead
    <3>2. CASE failing = 4
      <4>1. seen'["piuio"] = pressed
        BY <1>0, <2>1, <3>2 DEF PiuioUpdate
      <4> DEFINE K(n) == n \in Singles(DOMAIN sys) \/ (n \in Sensors /\ n[3] < failing)
                 U == UNION {piuio_drv_piuio_copy_inputs(PiuioBlock(pressed, h), h) : h \in 0 .. failing - 1}
      <4>2. inputs' = {n \in inputs : ~K(n)} \cup U
        BY <2>1, <3>2 DEF PiuioUpdate
      <4>3. U = Inputs(pressed)
        BY <1>4, <3>2, CycleReads
      <4>4. \A n \in PiuioInputs : K(n)
        BY <3>2 DEF PiuioInputs, Sensors, Groups
      <4>5. Inputs(pressed) \subseteq PiuioInputs
        BY DEF Inputs
      <4> HIDE DEF K, U
      <4>6. inputs' \cap PiuioInputs = Inputs(pressed)
        BY <4>2, <4>3, <4>4, <4>5
      <4> QED
        BY <1>0, <4>1, <4>6 DEF InputsAreRead, Inputs
    <3> QED
      BY <3>1, <3>2
  <2>6. OverlapsAreKnown' /\ BufferIsRead'
    BY <1>0, <1>4, <2>1 DEF OverlapsAreKnown, BufferIsRead
  <2>7. BlocksAreGiven'
    <3>1. CASE failing < 4
      <4>0. Given("piuio", Failed)
        BY <2>1, <3>1
      <4>1. /\ given_for'["piuio"].held = Failed /\ given_for'["piubtn"] = given_for["piubtn"]
            /\ game_in'["piubtn"] = game_in["piubtn"]
        BY <1>0, <4>0 DEF Given
      <4> QED
        BY <4>1 DEF BlocksAreGiven
    <3>2. CASE failing = 4
      BY <1>0, <2>1, <3>2 DEF BlocksAreGiven
    <3> QED
      BY <3>1, <3>2
  <2> QED
    BY <1>1, <2>3, <2>4, <2>5, <2>6, <2>7
<1>5. CASE g = 0 /\ impl # "real"
  <2>1. Start("piuio") /\ UNCHANGED <<inputs, lit, game_in, given_for, seen>>
    BY <1>5 DEF PiuioOut
  <2>2. /\ step' = [step EXCEPT !["piuio"] = "convert"]
        /\ overlap' = IF step["piubtn"] # "idle" THEN BothBoards ELSE overlap \ {"piuio"}
    BY <1>0, <2>1 DEF Start
  <2>3. BoardTypes'
    BY <1>0, <1>5, <2>1, <2>2
  <2>4. LightsOnWire' /\ OverlapsAreKnown' /\ InputsAreRead' /\ BlocksAreGiven'
    BY <1>0, <2>1, <2>2 DEF LightsOnWire, LightsOf, PiuioLightBits, OverlapsAreKnown,
                      InputsAreRead, Inputs, BlocksAreGiven
  <2>5. BufferIsRead'
    BY <1>0, <2>1, <2>2 DEF BufferIsRead
  <2> QED
    BY <1>1, <2>3, <2>4, <2>5
<1> QED
  BY <1>3, <1>4, <1>5 DEF Groups

LEMMA InputsOfPiuio ==
  ASSUME BoardsInv, PiuioIn
  PROVE  BoardsInv'
<1> USE DEF BoardsInv, BoardTypes
<1>0. /\ step["piuio"] = "idle"
      /\ UNCHANGED <<wire, lxio, sensor_group, out, inputs, lit, game_out, seen>>
      /\ Given("piuio", _patch_piuio_read_inputs_to_buffer(inputs, sensor_group))
      /\ BothBoards = {"piuio", "piubtn"}
  BY DEF PiuioIn, Ready, BothBoards
<1> USE DEF wire, lxio, lxio_buffers
<1>1. DOMAIN game_in' = DOMAIN game_in /\ DOMAIN given_for' = DOMAIN given_for
  BY <1>0 DEF Given
<1>2. BoardTypes' /\ LightsAreSet'
  BY <1>0, <1>1 DEF LightsAreSet
<1>3. LightsOnWire' /\ OverlapsAreKnown' /\ BufferIsRead' /\ InputsAreRead'
  BY <1>0 DEF LightsOnWire, LightsOf, PiuioLightBits, OverlapsAreKnown, BufferIsRead,
              InputsAreRead, Inputs
<1>4. BlocksAreGiven'
  <2> DEFINE block == _patch_piuio_read_inputs_to_buffer(inputs, sensor_group)
             now == seen["piuio"]
             less == {s \in now : impl = "real" => s # <<"coin2">>}
  <2>1. /\ game_in'["piuio"] = block /\ game_in'["piubtn"] = game_in["piubtn"]
        /\ given_for'["piubtn"] = given_for["piubtn"]
        /\ given_for'["piuio"] = [held |-> IF block = Failed THEN Failed ELSE now, group |-> sensor_group]
    BY <1>0 DEF Given
  <2>2. ASSUME now # Failed
        PROVE  block = PiuioBlock(less, sensor_group)
    <3>1. inputs \cap PiuioInputs = less \cap PiuioInputs
      BY <1>0, <2>2 DEF InputsAreRead, Inputs
    <3>2. block = PiuioBlock(inputs, sensor_group)
      BY BlockToGame
    <3>3. block = PiuioBlock(inputs \cap PiuioInputs, sensor_group)
      BY <3>2, PiuioOnly
    <3>4. PiuioBlock(less, sensor_group) = PiuioBlock(less \cap PiuioInputs, sensor_group)
      BY PiuioOnly
    <3> QED
      BY <3>1, <3>3, <3>4
  <2> HIDE DEF block
  <2>3. given_for'["piuio"].held # Failed =>
          given_for'["piuio"].held = now /\ given_for'["piuio"].group = sensor_group
    BY <2>1
  <2> QED
    BY <1>0, <2>1, <2>2, <2>3 DEF BlocksAreGiven
<1> QED
  BY <1>2, <1>3, <1>4

LEMMA MessageToPiubtn ==
  ASSUME BoardsInv, NEW block, NEW fails \in BOOLEAN, PiubtnOut(block, fails)
  PROVE  BoardsInv'
<1> USE DEF BoardsInv, BoardTypes
<1> DEFINE lights == _patch_piubtn_process_outputs(block)
<1>0. /\ out' = [out EXCEPT !.piubtn = lights] /\ game_out' = [game_out EXCEPT !.piubtn = block]
      /\ IF impl = "lxio" THEN UNCHANGED lit ELSE ptapi_io_piubtn_send(lights, fails)
      /\ UNCHANGED <<wire, lxio, sensor_group, inputs, game_in, given_for, seen>>
      /\ BothBoards = {"piuio", "piubtn"}
  BY DEF PiubtnOut, BothBoards
<1> USE DEF wire, lxio, lxio_buffers
<1>1. DOMAIN lit' = DOMAIN lit /\ lit'["piuio"] = lit["piuio"]
  BY <1>0 DEF ptapi_io_piubtn_send, Lit
<1>2. BoardTypes' /\ LightsAreSet'
  BY <1>0, <1>1 DEF LightsAreSet
<1>3. OverlapsAreKnown' /\ BufferIsRead' /\ InputsAreRead' /\ BlocksAreGiven'
  BY <1>0 DEF OverlapsAreKnown, BufferIsRead, InputsAreRead, Inputs, BlocksAreGiven
<1>4. LightsOnWire'
  BY <1>0, <1>1 DEF LightsOnWire, LightsOf, PiuioLightBits
<1> QED
  BY <1>2, <1>3, <1>4

LEMMA InputsOfPiubtn ==
  ASSUME BoardsInv, NEW fails \in BOOLEAN, PiubtnIn(fails)
  PROVE  BoardsInv'
<1> USE DEF BoardsInv, BoardTypes
<1>0. /\ step["piubtn"] = "idle"
      /\ UNCHANGED <<wire, sensor_group, out, lit, game_out, lxio_buffers>>
      /\ BothBoards = {"piuio", "piubtn"}
  BY DEF PiubtnIn, Ready, BothBoards
<1> USE DEF wire, lxio_buffers
<1>1. LightsAreSet' /\ LightsOnWire'
  BY <1>0 DEF LightsAreSet, LightsOnWire, LightsOf, PiuioLightBits
<1>2. CASE impl = "lxio"
  <2>1. Start("piubtn") /\ UNCHANGED <<inputs, game_in, given_for, seen>>
    BY <1>2 DEF PiubtnIn
  <2>2. /\ step' = [step EXCEPT !["piubtn"] = "convert"]
        /\ overlap' = IF step["piuio"] # "idle" THEN BothBoards ELSE overlap \ {"piubtn"}
    BY <1>0, <2>1 DEF Start
  <2>3. BoardTypes'
    BY <1>0, <1>2, <2>1, <2>2
  <2>4. OverlapsAreKnown' /\ InputsAreRead' /\ BlocksAreGiven'
    BY <1>0, <2>1, <2>2 DEF OverlapsAreKnown, InputsAreRead, Inputs, BlocksAreGiven
  <2>5. BufferIsRead'
    BY <1>0, <2>1, <2>2 DEF BufferIsRead
  <2> QED
    BY <1>1, <2>3, <2>4, <2>5
<1>3. CASE impl # "lxio"
  <2> DEFINE block == IF fails THEN Failed ELSE _patch_piubtn_process_inputs(inputs')
  <2>1. UNCHANGED <<step, overlap>> /\ ptapi_io_piubtn_recv(fails) /\ Given("piubtn", block)
    BY <1>3 DEF PiubtnIn
  <2>2. /\ seen' = [seen EXCEPT !["piubtn"] = IF fails THEN Failed ELSE pressed]
        /\ inputs' = IF fails THEN inputs
                     ELSE (inputs \ Btns) \cup piubtn_drv_piubtn_copy_inputs(PiubtnBlock(pressed))
    BY <2>1 DEF ptapi_io_piubtn_recv
  <2>3. inputs' = IF fails THEN inputs ELSE (inputs \ Btns) \cup (pressed \cap Btns)
    BY <2>2, ButtonsFromBoard
  <2>4. inputs' \cap PiuioInputs = inputs \cap PiuioInputs
    BY <2>3, Kinds DEF PiuioInputs
  <2>5. /\ game_in'["piuio"] = game_in["piuio"] /\ given_for'["piuio"] = given_for["piuio"]
        /\ game_in'["piubtn"] = block
        /\ given_for'["piubtn"].held = IF block = Failed THEN Failed ELSE seen'["piubtn"]
        /\ DOMAIN game_in' = DOMAIN game_in /\ DOMAIN given_for' = DOMAIN given_for
    BY <1>0, <2>1 DEF Given
  <2>6. BoardTypes'
    BY <1>0, <2>1, <2>2, <2>5
  <2>7. OverlapsAreKnown' /\ BufferIsRead' /\ InputsAreRead'
    BY <1>0, <1>3, <2>1, <2>2, <2>4 DEF OverlapsAreKnown, BufferIsRead, InputsAreRead, Inputs
  <2>8. ASSUME ~fails
        PROVE  block = PiubtnBlock(pressed)
    <3>1. inputs' \cap Btns = pressed \cap Btns
      BY <2>3, <2>8
    <3> QED
      BY <2>8, <3>1, ButtonsToGame, ButtonsOnly
  <2> HIDE DEF block
  <2>9. BlocksAreGiven'
    BY <1>0, <2>2, <2>5, <2>8, ZenonT(60) DEF BlocksAreGiven
  <2> QED
    BY <1>1, <2>6, <2>7, <2>9
<1> QED
  BY <1>2, <1>3

LEMMA InvertedTwice ==
  ASSUME NEW block, block \subseteq LxioBits
  PROVE  Inverted(Inverted(block)) = block
BY DEF Inverted

\* A step of the call that c makes of the lxio library.
LEMMA LxioSteps ==
  ASSUME BoardsInv, NEW c \in clients, LxioStep(c)
  PROVE  BoardsInv'
<1> USE DEF BoardsInv, BoardTypes
<1>0. /\ BothBoards = {"piuio", "piubtn"} /\ c \in BothBoards
      /\ step[c] # "idle" /\ impl = "lxio"
      /\ UNCHANGED <<wire, sensor_group, out, game_out, overlap>>
  BY DEF LxioStep, Convert, lxio_drv_device_write, lxio_drv_device_read, Invert, ConvertInput,
         Fails, Step, BothBoards
<1> DEFINE d == IF c = "piuio" THEN "piubtn" ELSE "piuio"
<1>a. d \in BothBoards /\ d # c /\ \A e \in BothBoards : e = c \/ e = d
  BY <1>0
<1>b. c \notin overlap => step[d] = "idle"
  BY <1>0 DEF OverlapsAreKnown
<1> USE DEF wire, lxio_buffers
<1>c. LightsAreSet'
  BY <1>0 DEF LightsAreSet
<1>d. ASSUME NEW to \in {"idle", "convert", "write", "read", "invert", "inputs"},
             step' = [step EXCEPT ![c] = to]
      PROVE  /\ step' \in [BothBoards -> {"idle", "convert", "write", "read", "invert", "inputs"}]
             /\ step'[c] = to /\ step'[d] = step[d] /\ OverlapsAreKnown'
  BY <1>0, <1>a, <1>d DEF OverlapsAreKnown
<1> HIDE DEF d
<1>1. CASE Convert(c)
  <2>1. /\ step' = [step EXCEPT ![c] = "write"]
        /\ lxio_light_state_buffer' = [block |-> convert_output_to_lxio, sent |-> game_out]
        /\ UNCHANGED <<lxio_btn_state_buffer, inputs, lit, game_in, given_for, seen>>
    BY <1>1 DEF Convert, Step
  <2>2. OverlapsAreKnown' /\ step'[c] = "write" /\ step'[d] = step[d] /\ BoardTypes'
    BY <1>0, <1>d, <2>1
  <2>3. LightsOf(lxio_light_state_buffer')
    BY <1>0, <2>1, LxioLights DEF LightsAreSet
  <2>4. LightsOnWire'
    BY <1>0, <2>1, <2>3 DEF LightsOnWire, LightsOf, PiuioLightBits
  <2>5. BufferIsRead' /\ InputsAreRead' /\ BlocksAreGiven'
    BY <1>0, <1>a, <2>1, <2>2 DEF BufferIsRead, InputsAreRead, Inputs, BlocksAreGiven
  <2> QED
    BY <1>c, <2>2, <2>4, <2>5
\* The call ends: what the PIUBTN is given then is not of a round that succeeded.
<1>2. ASSUME NEW from, Fails(c, from)
      PROVE  BoardsInv'
  <2>1. /\ step' = [step EXCEPT ![c] = "idle"] /\ seen' = [seen EXCEPT ![c] = Failed]
        /\ Returns(c, FALSE) /\ UNCHANGED <<lxio_buffers, inputs, lit>>
    BY <1>2 DEF Fails, Step
  <2>2. /\ DOMAIN game_in' = DOMAIN game_in /\ DOMAIN given_for' = DOMAIN given_for
        /\ game_in'[d] = game_in[d] /\ given_for'[d] = given_for[d] /\ given_for'[c].held = Failed
    <3>1. PICK block : Given(c, block)
      BY <2>1 DEF Returns
    <3>2. seen'[c] = Failed
      BY <1>0, <2>1
    <3>3. given_for' = [given_for EXCEPT ![c] = [held |-> IF block = Failed THEN Failed ELSE Failed,
                                                 group |-> sensor_group']]
          /\ game_in' = [game_in EXCEPT ![c] = block]
      BY <3>1, <3>2 DEF Given
    <3> QED
      BY <1>0, <1>a, <3>3
  <2>3. OverlapsAreKnown' /\ step'[c] = "idle" /\ step'[d] = step[d] /\ BoardTypes'
    BY <1>0, <1>d, <2>1, <2>2
  <2>4. seen'[c] = Failed /\ seen'[d] = seen[d]
    BY <1>0, <1>a, <2>1
  <2>5. LightsOnWire' /\ BufferIsRead' /\ InputsAreRead'
    BY <1>0, <1>a, <2>1, <2>3, <2>4 DEF LightsOnWire, LightsOf, PiuioLightBits, BufferIsRead,
                                        InputsAreRead, Inputs
  <2>6. BlocksAreGiven'
    <3>1. CASE c = "piuio"
      BY <1>0, <2>2, <3>1 DEF BlocksAreGiven, d
    <3>2. CASE c = "piubtn"
      BY <1>0, <2>2, <3>2 DEF BlocksAreGiven, d
    <3> QED
      BY <1>0, <3>1, <3>2
  <2> QED
    BY <1>c, <2>3, <2>5, <2>6
<1>3. CASE lxio_drv_device_write(c) /\ ~Fails(c, "write")
  <2> DEFINE lights == lxio_light_state_buffer
  <2>1. /\ step' = [step EXCEPT ![c] = "read"]
        /\ \/ UNCHANGED lit
           \/ lit' = [e \in BothBoards |-> Of(c, [block |-> lights.block, sent |-> lights.sent[e]])]
        /\ UNCHANGED <<lxio_buffers, inputs, game_in, given_for, seen>>
    BY <1>3 DEF lxio_drv_device_write, Step
  <2>2. OverlapsAreKnown' /\ step'[c] = "read" /\ step'[d] = step[d] /\ BoardTypes'
    BY <1>0, <1>d, <2>1
  <2>3. LightsOnWire'
    <3>1. CASE UNCHANGED lit
      BY <1>0, <2>1, <3>1 DEF LightsOnWire, LightsOf, PiuioLightBits
    <3>2. CASE lit' = [e \in BothBoards |-> Of(c, [block |-> lights.block, sent |-> lights.sent[e]])]
      <4>1. \A e \in BothBoards : lit'[e] # Failed =>
              lit'[e].block = lights.block /\ lit'[e].sent = lights.sent[e]
        BY <3>2 DEF Of
      <4> QED
        BY <1>0, <2>1, <4>1 DEF LightsOnWire, LightsOf, PiuioLightBits
    <3> QED
      BY <2>1, <3>1, <3>2
  <2>4. BufferIsRead' /\ InputsAreRead' /\ BlocksAreGiven'
    BY <1>0, <1>a, <2>1, <2>2 DEF BufferIsRead, InputsAreRead, Inputs, BlocksAreGiven
  <2> QED
    BY <1>c, <2>2, <2>3, <2>4
<1>4. CASE lxio_drv_device_read(c) /\ ~Fails(c, "read")
  <2>1. /\ step' = [step EXCEPT ![c] = "invert"]
        /\ lxio_btn_state_buffer' = IF io_usb_interrupt_transfer THEN Inverted(LxioBlock(pressed))
                                    ELSE lxio_btn_state_buffer
        /\ seen' = [seen EXCEPT ![c] = IF io_usb_interrupt_transfer THEN pressed ELSE Failed]
        /\ UNCHANGED <<lxio_light_state_buffer, inputs, lit, game_in, given_for>>
    BY <1>4 DEF lxio_drv_device_read, Step
  <2>2. OverlapsAreKnown' /\ step'[c] = "invert" /\ step'[d] = step[d] /\ BoardTypes'
    BY <1>0, <1>d, <2>1
  <2>3. seen'[d] = seen[d]
        /\ (seen'[c] # Failed => lxio_btn_state_buffer' = Inverted(LxioBlock(seen'[c])))
    BY <1>0, <1>a, <2>1
  <2>4. BufferIsRead'
    <3>1. c \notin overlap => step'[d] = "idle"
      BY <1>b, <2>2
    <3>2. d \notin overlap => step'[d] = "idle"
      BY <1>0, <1>a, <2>2 DEF OverlapsAreKnown
    <3> QED
      BY <1>0, <1>a, <2>2, <2>3, <3>1, <3>2 DEF BufferIsRead
  <2>5. LightsOnWire' /\ InputsAreRead' /\ BlocksAreGiven'
    BY <1>0, <1>a, <2>1, <2>2, <2>3 DEF LightsOnWire, LightsOf, PiuioLightBits, InputsAreRead, Inputs,
                                        BlocksAreGiven
  <2> QED
    BY <1>c, <2>2, <2>4, <2>5
<1>5. CASE Invert(c)
  <2>1. /\ step[c] = "invert" /\ step' = [step EXCEPT ![c] = "inputs"]
        /\ lxio_btn_state_buffer' = Inverted(lxio_btn_state_buffer)
        /\ UNCHANGED <<lxio_light_state_buffer, inputs, lit, game_in, given_for, seen>>
    BY <1>5 DEF Invert, Step
  <2>2. OverlapsAreKnown' /\ step'[c] = "inputs" /\ step'[d] = step[d] /\ BoardTypes'
    BY <1>0, <1>d, <2>1
  <2>3. BufferIsRead'
    <3>1. d \notin overlap => step'[d] = "idle"
      BY <1>0, <1>a, <2>2 DEF OverlapsAreKnown
    <3>2. c \notin overlap /\ seen[c] # Failed => lxio_btn_state_buffer' = LxioBlock(seen[c])
      BY <1>0, <2>1, LxioInBits, InvertedTwice DEF BufferIsRead
    <3> QED
      BY <1>0, <1>a, <2>1, <2>2, <3>1, <3>2 DEF BufferIsRead
  <2>4. LightsOnWire' /\ InputsAreRead' /\ BlocksAreGiven'
    BY <1>0, <1>a, <2>1, <2>2 DEF LightsOnWire, LightsOf, PiuioLightBits, InputsAreRead, Inputs,
                                  BlocksAreGiven
  <2> QED
    BY <1>c, <2>2, <2>3, <2>4
<1>6. CASE ConvertInput(c)
  <2> DEFINE block == _patch_piubtn_process_inputs(lxio_get_input(lxio_btn_state_buffer))
  <2>1. /\ step[c] = "inputs" /\ step' = [step EXCEPT ![c] = "idle"] /\ UNCHANGED <<lxio_buffers, lit>>
        /\ seen' = [e \in BothBoards |-> IF e \in {c, "piuio"} THEN Of(c, seen[c]) ELSE seen[e]]
        /\ inputs' = convert_input_to_piuio(lxio_btn_state_buffer)
        /\ IF c = "piubtn" THEN Given(c, block) ELSE UNCHANGED <<game_in, given_for>>
    BY <1>6 DEF ConvertInput, Step, Returns
  <2>2. /\ DOMAIN game_in' = DOMAIN game_in /\ DOMAIN given_for' = DOMAIN given_for
        /\ game_in'["piuio"] = game_in["piuio"] /\ given_for'["piuio"] = given_for["piuio"]
    BY <1>0, <2>1 DEF Given
  <2>3. OverlapsAreKnown' /\ step'[c] = "idle" /\ step'[d] = step[d] /\ BoardTypes'
    BY <1>0, <1>d, <2>1, <2>2
  <2>4. /\ seen'[c] = (IF c \in overlap THEN Failed ELSE seen[c]) /\ seen'["piuio"] = seen'[c]
        /\ seen'["piubtn"] = IF c = "piubtn" THEN seen'[c] ELSE seen["piubtn"]
    BY <1>0, <2>1 DEF Of
  <2>5. seen'[c] # Failed => lxio_btn_state_buffer = LxioBlock(seen'[c])
    BY <1>0, <2>1, <2>4 DEF BufferIsRead
  <2>6. InputsAreRead'
    <3>1. seen'[c] # Failed => inputs' = seen'[c] \cap PiuioInputs
      BY <2>1, <2>5, LxioToPiuio
    <3> QED
      BY <1>0, <2>4, <3>1 DEF InputsAreRead, Inputs
  <2>7. BufferIsRead'
    <3>1. d \notin overlap => step'[d] = "idle"
      BY <1>0, <1>a, <2>1, <2>3 DEF OverlapsAreKnown
    <3> QED
      BY <1>0, <1>a, <2>3, <3>1 DEF BufferIsRead
  <2>8. BlocksAreGiven'
    <3>1. ASSUME c = "piubtn"
          PROVE  given_for'["piubtn"].held # Failed =>
                   game_in'["piubtn"] = PiubtnBlock(given_for'["piubtn"].held)
      <4>1. seen'[c] # Failed => block = PiubtnBlock(seen'[c])
        BY <2>5, LxioToPiubtn, ButtonsToGame, ButtonsOnly
      <4> HIDE DEF block
      <4>2. game_in'[c] = block /\ given_for'[c].held = IF block = Failed THEN Failed ELSE seen'[c]
        <5>1. Given(c, block)
          BY <2>1, <3>1
        <5> QED
          BY <1>0, <5>1 DEF Given
      <4> QED
        BY <3>1, <4>1, <4>2
    <3>2. c # "piubtn" => UNCHANGED <<game_in, given_for>>
      BY <2>1
    <3> HIDE DEF block
    <3> QED
      BY <1>0, <2>2, <3>1, <3>2 DEF BlocksAreGiven
  <2>9. LightsOnWire'
    BY <1>0, <2>1 DEF LightsOnWire, LightsOf, PiuioLightBits
  <2> QED
    BY <1>c, <2>3, <2>6, <2>7, <2>8, <2>9
<1> QED
  BY <1>1, <1>2, <1>3, <1>4, <1>5, <1>6 DEF LxioStep, lxio_drv_device_write, lxio_drv_device_read

\* For any blocks of lights and whatever is pressed: the game and the board agree on
\* every bit, through the handlers, the libraries and the bytes inverted in place.
THEOREM EveryBitAgrees == BoardsSpec => []BoardsAgree
<1>1. BoardsInit => BoardsInv
  <2> SUFFICES ASSUME BoardsInit
               PROVE  BoardsInv
    OBVIOUS
  <2> USE DEF BoardsInit
  <2>1. BoardTypes
    BY DEF BoardTypes, Groups
  <2>2. LightsAreSet
    BY DEF LightsAreSet, BothBoards, _patch_piuio_read_outputs_from_buffer,
           _patch_piubtn_process_outputs
  <2>3. LightsOnWire
    BY DEF LightsOnWire, LightsOf, PiuioLightBits, LxioPlayers, BothBoards
  <2>4. OverlapsAreKnown /\ BufferIsRead /\ InputsAreRead /\ BlocksAreGiven
    BY DEF OverlapsAreKnown, BufferIsRead, InputsAreRead, BlocksAreGiven, BothBoards
  <2> QED
    BY <2>1, <2>2, <2>3, <2>4 DEF BoardsInv
<1>2. BoardsInv /\ [BoardsNext]_vars_boards => BoardsInv'
  <2> SUFFICES ASSUME BoardsInv, BoardsNext \/ UNCHANGED vars_boards
               PROVE  BoardsInv'
    OBVIOUS
  <2>1. CASE MovePlayer \/ UnplugBoards \/ UNCHANGED vars_boards
    <3>1. UNCHANGED <<impl, clients, sensor_group, out, inputs, lxio, lit, game_boards, seen>>
      BY <2>1 DEF MovePlayer, UnplugBoards, vars_boards, wire, game_boards
    <3> QED
      BY <3>1, ZenonT(60) DEF lxio, lxio_buffers, game_boards, BoardsInv, BoardTypes, LightsAreSet,
         LightsOnWire, LightsOf, PiuioLightBits, OverlapsAreKnown, BufferIsRead, InputsAreRead,
         Inputs, BlocksAreGiven
  <2> QED
    BY <2>1, MessageToPiuio, InputsOfPiuio, MessageToPiubtn, InputsOfPiubtn, LxioSteps DEF BoardsNext
<1>3. BoardsInv => BoardsAgree
  <2> SUFFICES ASSUME BoardsInv
               PROVE  BoardsAgree
    OBVIOUS
  <2>1. BothBoards = {"piuio", "piubtn"}
    BY DEF BothBoards
  <2> QED
    BY <2>1 DEF BoardsInv, BoardTypes, LightsOnWire, BlocksAreGiven, BoardsAgree
<1> QED
  BY <1>1, <1>2, <1>3, PTL DEF BoardsSpec

-----------------------------------------------------------------------------
(* The dongles: what is under a mask, the keys of the table, and what was taught. *)

\* A set of numbers that is not empty has a least one.
LEMMA LeastOf ==
  ASSUME NEW T \in SUBSET Nat, NEW n \in T
  PROVE  \E m \in T : \A k \in T : m <= k
<1> DEFINE R == OpToRel(<, Nat)
<1>1. \A x, y \in Nat : <<x, y>> \in R <=> x < y
  BY DEF OpToRel
<1>2. IsWellFoundedOn(R, Nat)
  BY NatLessThanWellFounded
<1> HIDE DEF R
<1>3. PICK m \in T : \A k \in T : ~(<<k, m>> \in R)
  BY <1>2, WFMin
<1>4. \A k \in T : k \in Nat /\ m \in Nat /\ ~(k < m)
  BY <1>1, <1>3
<1> QED BY <1>4

DogRequestType ==
  [opcode : STRING, dog_addr : DogWords, dog_bytes : DogWords, dog_data : Seq(DogWords),
   dog_password : DogWords]

\* The keys that answer a request.
Fits(keys, algorithm, request) ==
  {k \in DOMAIN keys : keys[k].algorithm = algorithm /\ keys[k].request = request}

\* What is taught is what the table answers, and the dongle without masks has the
\* memory and the password of the emulated one.
DogInv ==
  /\ {"flash_memory", "password"} \subseteq DOMAIN dog_header
  /\ dog_header.flash_memory = dog_memory /\ dog_header.password = dog_password
  /\ dog_memory \in [1 .. FlashWords -> DogWords]
  /\ dog_keys \in Seq(DogKeys)
  /\ \A a \in DogWords, r \in Seq(DogWords) :
       /\ <<a, r>> \in DOMAIN dog_taught <=> Fits(dog_keys, a, r) # {}
       /\ <<a, r>> \in DOMAIN dog_taught => dog_taught[<<a, r>>] = FirstResponse(dog_keys, a, r)

\* What is added to a mask key leaves a word.
LEMMA MaskIsWord == \A k : k \in DogWords => MaskOf(k) \in DogWords
BY XorAssumption DEF DogWords, MaskOf, GOLD_SALT

\* A mask that is applied twice to a sequence of words is gone.
LEMMA MaskedTwice ==
  ASSUME NEW data \in Seq(DogWords), NEW mask \in DogWords
  PROVE  XorAll(data, mask) \in Seq(DogWords) /\ XorAll(XorAll(data, mask), mask) = data
<1>1. PICK n \in Nat : data \in [1 .. n -> DogWords]
  BY SeqDef
<1>2. \A i \in 1 .. n : data[i] \in DogWords
  BY <1>1
<1>3. XorAll(data, mask) = [i \in 1 .. n |-> XorWord(data[i], mask)]
  BY <1>1 DEF XorAll
<1>4. XorAll(data, mask) \in [1 .. n -> DogWords]
  BY <1>2, <1>3, XorAssumption
<1>5. XorAll(XorAll(data, mask), mask) = [i \in 1 .. n |-> XorWord(XorWord(data[i], mask), mask)]
  BY <1>3 DEF XorAll
<1>6. \A i \in 1 .. n : XorWord(XorWord(data[i], mask), mask) = data[i]
  BY <1>2, XorAssumption
<1>7. XorAll(XorAll(data, mask), mask) = [i \in 1 .. n |-> data[i]]
  BY <1>5, <1>6
<1>8. data = [i \in 1 .. n |-> data[i]]
  BY <1>1
<1>9. XorAll(data, mask) \in Seq(DogWords)
  BY <1>4, SeqDef
<1> QED BY <1>7, <1>8, <1>9

\* The emulator unmasks a request to what the game meant.
LEMMA Unmasked ==
  ASSUME NEW req \in DogRequestType, NEW k \in DogWords
  PROVE  sec_microdog34_crypt_req(Masked(req, k), k) = req
<1> DEFINE m == MaskOf(k)
           Names == {"opcode", "dog_addr", "dog_bytes", "dog_data", "dog_password"}
           Changed(f, x) == IF x = "dog_data" THEN XorAll(f[x], m)
                            ELSE IF x = "opcode" THEN f[x] ELSE XorWord(f[x], m)
           once == [x \in Names |-> Changed(req, x)]
           twice == [x \in Names |-> Changed(once, x)]
<1>1. m \in DogWords
  BY MaskIsWord
<1>2. /\ req.dog_addr \in DogWords /\ req.dog_bytes \in DogWords /\ req.dog_password \in DogWords
      /\ req.dog_data \in Seq(DogWords)
      /\ req = [x \in Names |-> req[x]]
  BY DEF DogRequestType
<1>3. \A f : f = [x \in Names |-> f[x]] =>
        [f EXCEPT !.dog_addr = XorWord(@, m), !.dog_bytes = XorWord(@, m),
                  !.dog_data = XorAll(@, m), !.dog_password = XorWord(@, m)]
          = [x \in Names |-> Changed(f, x)]
  <2> HIDE DEF m
  <2> QED OBVIOUS
<1>4. Masked(req, k) = once
  <2>1. Masked(req, k) = [req EXCEPT !.dog_addr = XorWord(@, m), !.dog_bytes = XorWord(@, m),
                            !.dog_data = XorAll(@, m), !.dog_password = XorWord(@, m)]
    BY Zenon DEF Masked
  <2> QED BY <1>2, <1>3, <2>1, Zenon
<1>5. sec_microdog34_crypt_req(once, k) = twice
  <2>1. sec_microdog34_crypt_req(once, k) =
          [once EXCEPT !.dog_addr = XorWord(@, m), !.dog_bytes = XorWord(@, m),
                       !.dog_data = XorAll(@, m), !.dog_password = XorWord(@, m)]
    <3> HIDE DEF once
    <3> QED BY Zenon DEF sec_microdog34_crypt_req
  <2>2. once = [x \in Names |-> once[x]]
    <3> HIDE DEF m
    <3> QED OBVIOUS
  <2> HIDE DEF once, m
  <2> QED BY <1>3, <2>1, <2>2
<1>6. \A x \in Names : Changed(once, x) = req[x]
  <2> HIDE DEF m
  <2>1. XorAll(once["dog_data"], m) = req["dog_data"]
    BY <1>1, <1>2, MaskedTwice
  <2>2. \A w \in DogWords : XorWord(XorWord(w, m), m) = w
    BY <1>1, XorAssumption
  <2> QED BY <1>2, <2>1, <2>2
<1> HIDE DEF m, once
<1>7. twice = [x \in Names |-> req[x]]
  BY <1>6
<1> QED BY <1>2, <1>4, <1>5, <1>7

\* Among the keys of a table that answer a request there is a first one.
LEMMA FirstOfKeys ==
  ASSUME NEW keys \in Seq(DogKeys), NEW a, NEW r, Fits(keys, a, r) # {}
  PROVE  \E k \in Fits(keys, a, r) : \A l \in Fits(keys, a, r) : k <= l
<1>1. Fits(keys, a, r) \in SUBSET Nat
  BY DEF Fits
<1>2. PICK n \in Fits(keys, a, r) : TRUE
  OBVIOUS
<1> QED BY <1>1, <1>2, LeastOf

\* What a table of keys answers is a word.
LEMMA ResponseIsWord ==
  ASSUME NEW keys \in Seq(DogKeys), NEW a, NEW r
  PROVE  FirstResponse(keys, a, r) \in DogWords
<1>1. 0 \in DogWords
  BY XorAssumption DEF DogWords
<1>2. CASE Fits(keys, a, r) = {}
  BY <1>1, <1>2 DEF FirstResponse, Fits
<1>3. CASE Fits(keys, a, r) # {}
  <2> DEFINE first == CHOOSE k \in Fits(keys, a, r) : \A l \in Fits(keys, a, r) : k <= l
  <2>1. first \in Fits(keys, a, r)
    BY <1>3, FirstOfKeys
  <2>2. first \in DOMAIN keys
    BY <2>1 DEF Fits
  <2>3. FirstResponse(keys, a, r) = keys[first].response
    BY <1>3 DEF FirstResponse, Fits
  <2> HIDE DEF first
  <2>4. keys[first] \in DogKeys
    BY <2>2
  <2> QED BY <2>3, <2>4 DEF DogKeys
<1> QED BY <1>2, <1>3

\* A key that is appended answers what no key before it answers.
LEMMA AppendedKey ==
  ASSUME NEW keys \in Seq(DogKeys), NEW key \in DogKeys, NEW a, NEW r
  PROVE  /\ Fits(Append(keys, key), a, r) # {} <=>
              Fits(keys, a, r) # {} \/ (key.algorithm = a /\ key.request = r)
         /\ Fits(keys, a, r) # {} =>
              FirstResponse(Append(keys, key), a, r) = FirstResponse(keys, a, r)
         /\ Fits(keys, a, r) = {} /\ key.algorithm = a /\ key.request = r =>
              FirstResponse(Append(keys, key), a, r) = key.response
<1> DEFINE fits == key.algorithm = a /\ key.request = r
           old == Fits(keys, a, r)
           n == Len(keys) + 1
           new == Fits(Append(keys, key), a, r)
<1>1. /\ DOMAIN keys = 1 .. Len(keys) /\ Len(keys) \in Nat
      /\ DOMAIN Append(keys, key) = 1 .. n
      /\ \A k \in 1 .. Len(keys) : Append(keys, key)[k] = keys[k]
      /\ Append(keys, key)[n] = key
  BY AppendProperties
<1>2. old \subseteq 1 .. Len(keys) /\ \A k \in old : Append(keys, key)[k] = keys[k]
  BY <1>1 DEF Fits
<1>3. new = IF fits THEN old \cup {n} ELSE old
  <2>1. \A k \in 1 .. Len(keys) : k \in new <=> k \in old
    BY <1>1 DEF Fits
  <2>2. n \in new <=> fits
    BY <1>1 DEF Fits
  <2>3. new \subseteq 1 .. n /\ old \subseteq 1 .. n /\ n \notin old
    BY <1>1 DEF Fits
  <2>4. \A k \in 1 .. n : k \in 1 .. Len(keys) \/ k = n
    BY <1>1
  <2> HIDE DEF fits, old, new, n
  <2>5. CASE fits
    BY <2>1, <2>2, <2>3, <2>4, <2>5
  <2>6. CASE ~fits
    <3>1. n \notin new
      BY <2>2, <2>6
    <3>2. new \subseteq old /\ old \subseteq new
      BY <3>1, <2>1, <2>3, <2>4
    <3> QED BY <3>2, <2>6
  <2> QED BY <2>5, <2>6
<1>4. FirstResponse(Append(keys, key), a, r) =
        IF new = {} THEN 0
        ELSE Append(keys, key)[CHOOSE k \in new : \A l \in new : k <= l].response
  BY DEF FirstResponse, Fits
<1>5. FirstResponse(keys, a, r) =
        IF old = {} THEN 0 ELSE keys[CHOOSE k \in old : \A l \in old : k <= l].response
  BY DEF FirstResponse, Fits
<1>6. ASSUME old # {}
      PROVE  FirstResponse(Append(keys, key), a, r) = FirstResponse(keys, a, r)
  <2> DEFINE f == CHOOSE k \in old : \A l \in old : k <= l
             g == CHOOSE k \in new : \A l \in new : k <= l
  <2>1. f \in old /\ \A l \in old : f <= l
    BY <1>6, FirstOfKeys
  <2>2. Append(keys, key) \in Seq(DogKeys)
    BY AppendProperties
  <2>3. new # {}
    BY <1>3, <1>6
  <2>4. g \in new /\ \A l \in new : g <= l
    BY <2>2, <2>3, FirstOfKeys
  <2> HIDE DEF f, g, new, old
  <2>5. f \in new
    BY <2>1, <1>3
  <2>6. g <= f /\ f < n /\ f \in Nat /\ n \in Nat
    BY <2>1, <2>4, <2>5, <1>2, <1>1
  <2>7. g \in old
    BY <2>4, <2>6, <1>3, <1>2
  <2>8. g = f
    BY <2>1, <2>6, <2>7, <1>2
  <2> QED BY <1>4, <1>5, <1>6, <2>3, <2>8, <2>1, <1>2 DEF f, g
<1>7. ASSUME old = {}, fits
      PROVE  FirstResponse(Append(keys, key), a, r) = key.response
  <2>1. new = {n}
    BY <1>3, <1>7
  <2>2. (CHOOSE k \in new : \A l \in new : k <= l) = n
    <3>1. n \in Nat
      BY <1>1
    <3> HIDE DEF new, n
    <3> QED BY <2>1, <3>1
  <2> QED BY <1>4, <2>1, <2>2, <1>1
<1>8. new # {} <=> (old # {} \/ fits)
  BY <1>3
<1> QED BY <1>6, <1>7, <1>8

\* The keys of the file are taught from the start.
LEMMA DogInitial == DogsInit => DogInv
<1> SUFFICES ASSUME DogsInit PROVE DogInv
  OBVIOUS
<1>1. /\ dog_header = [serial |-> 1, password |-> 1, vendor_id |-> <<1, 2>>, mfg_serial |-> 2,
                       flash_memory |-> [i \in 1 .. FlashWords |-> 0]]
      /\ dog_keys = DogKeyFile
      /\ dog_memory = dog_header.flash_memory /\ dog_password = dog_header.password
      /\ dog_taught = [at \in {<<key.algorithm, key.request>> : key \in ToSet(DogKeyFile)} |->
                         FirstResponse(DogKeyFile, at[1], at[2])]
  BY DEF DogsInit
<1>2. dog_keys \in Seq(DogKeys)
  BY <1>1, DogAssumption
<1>3. dog_memory = [i \in 1 .. FlashWords |-> 0] /\ 0 \in DogWords
  BY <1>1, XorAssumption DEF DogWords
<1>4. ASSUME NEW a \in DogWords, NEW r \in Seq(DogWords)
      PROVE  /\ <<a, r>> \in DOMAIN dog_taught <=> Fits(dog_keys, a, r) # {}
             /\ <<a, r>> \in DOMAIN dog_taught => dog_taught[<<a, r>>] = FirstResponse(dog_keys, a, r)
  <2> DEFINE taught == {<<key.algorithm, key.request>> : key \in ToSet(DogKeyFile)}
  <2>1. <<a, r>> \in taught <=>
          \E k \in DOMAIN dog_keys : dog_keys[k].algorithm = a /\ dog_keys[k].request = r
    BY <1>1 DEF ToSet
  <2>2. <<a, r>> \in taught <=> Fits(dog_keys, a, r) # {}
    <3> HIDE DEF taught
    <3> QED BY <2>1 DEF Fits
  <2>3. DOMAIN dog_taught = taught
    BY <1>1
  <2>4. <<a, r>> \in taught => dog_taught[<<a, r>>] = FirstResponse(dog_keys, a, r)
    BY <1>1
  <2> QED BY <2>2, <2>3, <2>4
<1>5. {"flash_memory", "password"} \subseteq DOMAIN dog_header
  BY <1>1
<1> QED BY <1>1, <1>2, <1>3, <1>4, <1>5 DEF DogInv

\* What a request that the game may send has.
LEMMA RequestTypes ==
  ASSUME NEW req \in DogRequests
  PROVE  /\ req \in DogRequestType
         /\ req.dog_addr \in Nat /\ req.dog_bytes \in Nat /\ req.dog_bytes <= Len(req.dog_data)
         /\ req.dog_addr + req.dog_bytes <= FlashWords
         /\ req.dog_data \in Seq(DogWords) /\ req.dog_password \in DogWords
         /\ Asked(req) \in Seq(DogWords)
         /\ \A i \in 1 .. req.dog_bytes : req.dog_data[i] \in DogWords
<1>1. /\ req \in DogRequestType /\ req.dog_bytes <= Len(req.dog_data)
      /\ req.dog_addr + req.dog_bytes <= FlashWords
  BY DogAssumption DEF DogRequestType
<1>2. /\ req.dog_data \in Seq(DogWords) /\ req.dog_password \in DogWords
      /\ req.dog_addr \in DogWords /\ req.dog_bytes \in DogWords
  BY <1>1 DEF DogRequestType
<1>3. req.dog_addr \in Nat /\ req.dog_bytes \in Nat
  BY <1>2 DEF DogWords
<1>4. \A i \in 1 .. req.dog_bytes : req.dog_data[i] \in DogWords
  BY <1>1, <1>2, <1>3
<1>5. Asked(req) \in Seq(DogWords)
  BY <1>1, <1>2, <1>3, <1>4, SubSeqProperties DEF Asked
<1> QED BY <1>1, <1>2, <1>3, <1>4, <1>5

\* A request to the first dongle, and what the dongle without masks makes of it.
LEMMA RequestKeeps ==
  ASSUME DogInv, NEW req \in DogRequests, NEW k \in DogMaskKeys, sec_microdog34_process(req, k)
  PROVE  DogInv'
<1> DEFINE alg == CurrentAlgorithm(dog_header.flash_memory)
           key == [response |-> req.dog_password, request |-> Asked(req), algorithm |-> alg]
           at == <<alg, Asked(req)>>
<1>1. sec_microdog34_crypt_req(Masked(req, k), k) = req
  BY RequestTypes, DogAssumption, Unmasked
<1>2. sec_microdog34_dispatch(req) /\ Learns(req)
  BY <1>1 DEF sec_microdog34_process
<1>3. alg = dog_memory[FlashWords] /\ alg \in DogWords
  BY DogAssumption DEF DogInv, CurrentAlgorithm
<1>4. Refuses(req) <=> req.opcode \in {"READ_DOG", "WRITE_DOG", "SET_PASS"} /\ req.dog_password # dog_password
  BY DEF Refuses, DogInv
<1>5. Overwritten(dog_memory, req) \in [1 .. FlashWords -> DogWords]
  <2>1. \A i \in 1 .. FlashWords :
          i - req.dog_addr \in 1 .. req.dog_bytes => req.dog_data[i - req.dog_addr] \in DogWords
    BY RequestTypes
  <2> QED BY <2>1 DEF Overwritten, DogInv
<1>6. /\ {"flash_memory", "password"} \subseteq DOMAIN dog_header'
      /\ dog_header'.flash_memory = IF req.opcode = "WRITE_DOG" /\ ~Refuses(req)
                                    THEN Overwritten(dog_memory, req) ELSE dog_memory
      /\ dog_header'.password = IF req.opcode = "SET_PASS" /\ ~Refuses(req)
                                THEN req.dog_data[1] ELSE dog_password
  BY <1>2 DEF sec_microdog34_dispatch, DogInv
<1>7. /\ dog_memory' = IF req.opcode = "WRITE_DOG" /\ req.dog_password = dog_password
                       THEN Overwritten(dog_memory, req) ELSE dog_memory
      /\ dog_password' = IF req.opcode = "SET_PASS" /\ req.dog_password = dog_password
                         THEN req.dog_data[1] ELSE dog_password
      /\ dog_taught' = IF req.opcode = "RAINBOW_TABLE_ADD"
                       THEN Extended(dog_taught, at, req.dog_password) ELSE dog_taught
  BY <1>2, <1>3 DEF Learns
<1>8. dog_header'.flash_memory = dog_memory' /\ dog_header'.password = dog_password'
  BY <1>4, <1>6, <1>7
<1>9. dog_memory' \in [1 .. FlashWords -> DogWords]
  BY <1>5, <1>7 DEF DogInv
<1>10. key \in DogKeys
  BY <1>3, RequestTypes DEF DogKeys
<1>11. dog_keys' = IF req.opcode # "RAINBOW_TABLE_ADD" THEN dog_keys ELSE Append(dog_keys, key)
  BY <1>2 DEF sec_microdog34_dispatch
<1>12. dog_keys' \in Seq(DogKeys)
  <2>1. dog_keys \in Seq(DogKeys)
    BY DEF DogInv
  <2> HIDE DEF key
  <2> QED BY <2>1, <1>10, <1>11, AppendProperties
<1>13. ASSUME NEW a \in DogWords, NEW r \in Seq(DogWords)
       PROVE  /\ <<a, r>> \in DOMAIN dog_taught' <=> Fits(dog_keys', a, r) # {}
              /\ <<a, r>> \in DOMAIN dog_taught' => dog_taught'[<<a, r>>] = FirstResponse(dog_keys', a, r)
  <2>0. /\ dog_keys \in Seq(DogKeys)
        /\ <<a, r>> \in DOMAIN dog_taught <=> Fits(dog_keys, a, r) # {}
        /\ <<a, r>> \in DOMAIN dog_taught => dog_taught[<<a, r>>] = FirstResponse(dog_keys, a, r)
    BY DEF DogInv
  <2>1. CASE req.opcode # "RAINBOW_TABLE_ADD"
    <3>1. dog_keys' = dog_keys /\ dog_taught' = dog_taught
      BY <2>1, <1>7, <1>11
    <3> QED BY <2>0, <3>1
  <2>2. CASE req.opcode = "RAINBOW_TABLE_ADD"
    <3>1. dog_keys' = Append(dog_keys, key)
      BY <2>2, <1>11
    <3>2. /\ DOMAIN dog_taught' = DOMAIN dog_taught \cup {at}
          /\ \A x \in DOMAIN dog_taught : dog_taught'[x] = dog_taught[x]
          /\ at \notin DOMAIN dog_taught => dog_taught'[at] = req.dog_password
      <4>1. dog_taught' = Extended(dog_taught, at, req.dog_password)
        BY <2>2, <1>7
      <4> HIDE DEF at
      <4> QED BY <4>1 DEF Extended
    <3>3. key.response = req.dog_password /\ ((key.algorithm = a /\ key.request = r) <=> <<a, r>> = at)
      BY DEF key, at
    <3>4. /\ Fits(Append(dog_keys, key), a, r) # {} <=> Fits(dog_keys, a, r) # {} \/ <<a, r>> = at
          /\ Fits(dog_keys, a, r) # {} =>
               FirstResponse(Append(dog_keys, key), a, r) = FirstResponse(dog_keys, a, r)
          /\ Fits(dog_keys, a, r) = {} /\ <<a, r>> = at =>
               FirstResponse(Append(dog_keys, key), a, r) = req.dog_password
      <4>1. /\ Fits(Append(dog_keys, key), a, r) # {} <=>
                 Fits(dog_keys, a, r) # {} \/ (key.algorithm = a /\ key.request = r)
            /\ Fits(dog_keys, a, r) # {} =>
                 FirstResponse(Append(dog_keys, key), a, r) = FirstResponse(dog_keys, a, r)
            /\ Fits(dog_keys, a, r) = {} /\ key.algorithm = a /\ key.request = r =>
                 FirstResponse(Append(dog_keys, key), a, r) = key.response
        <5> HIDE DEF key
        <5> QED BY <2>0, <1>10, AppendedKey
      <4> HIDE DEF key, at
      <4> QED BY <4>1, <3>3
    <3> HIDE DEF key, at
    <3>5. <<a, r>> \in DOMAIN dog_taught' <=> Fits(dog_keys', a, r) # {}
      BY <2>0, <3>1, <3>2, <3>4
    <3>6. CASE Fits(dog_keys, a, r) # {}
      BY <2>0, <3>1, <3>2, <3>4, <3>5, <3>6
    <3>7. CASE Fits(dog_keys, a, r) = {}
      BY <2>0, <3>1, <3>2, <3>4, <3>5, <3>7
    <3> QED BY <3>6, <3>7
  <2> QED BY <2>1, <2>2
<1> QED BY <1>6, <1>8, <1>9, <1>12, <1>13 DEF DogInv

\* Every request to either dongle preserves the invariant.
LEMMA DogStep == DogInv /\ [DogsNext]_vars_dogs => DogInv'
<1> SUFFICES ASSUME DogInv, [DogsNext]_vars_dogs PROVE DogInv'
  OBVIOUS
<1>1. CASE \E req \in DogRequests, k \in DogMaskKeys : sec_microdog34_process(req, k)
  BY <1>1, RequestKeeps
<1>2. CASE UNCHANGED <<dog_header, dog_keys, dog_memory, dog_password, dog_taught>>
  BY <1>2 DEF DogInv
<1>3. CASE \E header \in {0, PROTOCOL_VERSION}, req \in Dog40Requests,
             masks \in [1 .. 4 -> DogMaskKeys], t \in DogTimestamps :
             sec_microdog40_do_transaction(header, Sent(WithMasks(req, masks), t))
  BY <1>2, <1>3 DEF sec_microdog40_do_transaction, dog_ideal
<1>4. CASE UNCHANGED vars_dogs
  BY <1>2, <1>4 DEF vars_dogs, dog_ideal, dog_emulated
<1> QED BY <1>1, <1>3, <1>4 DEF DogsNext

\* What the table answers is what was taught.
LEMMA AnsweredAsTaught ==
  ASSUME DogInv, NEW request \in Seq(DogWords)
  PROVE  /\ CurrentAlgorithm(dog_header.flash_memory) \in DogWords
         /\ FirstResponse(dog_keys, CurrentAlgorithm(dog_header.flash_memory), request) = Taught(request)
         /\ Taught(request) \in DogWords
<1> DEFINE a == dog_memory[FlashWords]
<1>1. CurrentAlgorithm(dog_header.flash_memory) = a /\ a \in DogWords
  BY DogAssumption DEF DogInv, CurrentAlgorithm
<1>2. /\ <<a, request>> \in DOMAIN dog_taught <=> Fits(dog_keys, a, request) # {}
      /\ <<a, request>> \in DOMAIN dog_taught =>
           dog_taught[<<a, request>>] = FirstResponse(dog_keys, a, request)
  BY <1>1 DEF DogInv
<1>3. Fits(dog_keys, a, request) = {} => FirstResponse(dog_keys, a, request) = 0
  BY DEF FirstResponse, Fits
<1>4. Taught(request) = IF <<a, request>> \in DOMAIN dog_taught THEN dog_taught[<<a, request>>] ELSE 0
  BY DEF Taught
<1>5. Taught(request) = FirstResponse(dog_keys, a, request)
  BY <1>2, <1>3, <1>4
<1>6. FirstResponse(dog_keys, a, request) \in DogWords
  BY ResponseIsWord DEF DogInv
<1> QED BY <1>1, <1>5, <1>6

\* A response consists of words, whatever of the request it has no word for.
LEMMA ResponseIsWords ==
  ASSUME NEW req \in DogRequests, NEW words \in Seq(DogWords)
  PROVE  Response(words, req) \in Seq(DogWords)
<1>1. PICK n \in Nat : req.dog_data \in [1 .. n -> DogWords]
  BY RequestTypes, SeqDef
<1>2. 0 \in DogWords
  BY XorAssumption DEF DogWords
<1>3. \A i \in 1 .. n : i <= Len(words) => words[i] \in DogWords
  OBVIOUS
<1>4. Response(words, req) \in [1 .. n -> DogWords]
  BY <1>1, <1>2, <1>3 DEF Response
<1> QED BY <1>4, SeqDef

\* The answer of the first dongle is that of the dongle without masks.
LEMMA AnswerAsMeant ==
  ASSUME DogInv, NEW req \in DogRequests,
         req.opcode \in {"READ_DOG", "WRITE_DOG", "SET_PASS", "CONVERT"}
  PROVE  /\ sec_microdog34_answer(req) = Meant(req)
         /\ Meant(req).dog_data \in Seq(DogWords)
<1> DEFINE refuses == req.opcode \in {"READ_DOG", "WRITE_DOG", "SET_PASS"}
                      /\ req.dog_password # dog_password
           words == CASE req.opcode = "READ_DOG" /\ ~refuses ->
                           [i \in 1 .. req.dog_bytes |-> dog_memory[req.dog_addr + i]]
                      [] req.opcode = "CONVERT" -> <<Taught(Asked(req))>>
                      [] OTHER -> <<>>
           given == CASE req.opcode = "READ_DOG" /\ ~Refuses(req) ->
                           SubSeq(dog_header.flash_memory, req.dog_addr + 1, req.dog_addr + req.dog_bytes)
                      [] req.opcode = "CONVERT" -> <<sec_microdog34_convert_req(req)>>
                      [] req.opcode \in {"SET_SHARE", "DOG_CASCADE"} -> <<req.dog_data[1]>>
                      [] req.opcode = "GET_LOCK_NO" -> <<dog_header.mfg_serial>>
                      [] req.opcode = "LOGIN" -> dog_header.vendor_id
                      [] OTHER -> <<>>
<1>1. Refuses(req) = refuses
  BY DEF Refuses, DogInv
<1>2. req.dog_addr \in Nat /\ req.dog_bytes \in Nat /\ req.dog_addr + req.dog_bytes <= FlashWords
  BY RequestTypes
<1>3. FlashWords \in Nat /\ dog_memory \in [1 .. FlashWords -> DogWords]
  BY DogAssumption DEF DogInv
<1>4. SubSeq(dog_memory, req.dog_addr + 1, req.dog_addr + req.dog_bytes)
        = [i \in 1 .. req.dog_bytes |-> dog_memory[req.dog_addr + i]]
  <2> DEFINE b == req.dog_bytes
             d == req.dog_addr
             s == SubSeq(dog_memory, d + 1, d + b)
  <2>1. dog_memory \in Seq(DogWords) /\ Len(dog_memory) = FlashWords
    BY <1>3, SeqDef
  <2>2. d + 1 \in 1 .. FlashWords + 1 /\ d + b \in d .. FlashWords
    BY <1>2, <1>3
  <2>3. /\ s \in Seq(DogWords) /\ Len(s) = b
        /\ \A i \in 1 .. b : s[i] = dog_memory[d + i]
    <3> HIDE DEF s
    <3>1. d \in Nat /\ b \in Nat
      BY <1>2
    <3> HIDE DEF b, d
    <3> QED BY <2>1, <2>2, <3>1, SubSeqProperties DEF s
  <2> HIDE DEF s, b, d
  <2>4. s = [i \in 1 .. b |-> s[i]]
    BY <2>3
  <2>5. s = [i \in 1 .. b |-> dog_memory[d + i]]
    BY <2>3, <2>4
  <2> QED BY <2>5 DEF s, b, d
<1>5. sec_microdog34_convert_req(req) = Taught(Asked(req)) /\ Taught(Asked(req)) \in DogWords
  BY RequestTypes, AnsweredAsTaught DEF sec_microdog34_convert_req
<1>6. given = words /\ words \in Seq(DogWords)
  <2>1. CASE req.opcode = "READ_DOG" /\ ~refuses
    <3>1. words = [i \in 1 .. req.dog_bytes |-> dog_memory[req.dog_addr + i]]
      BY <2>1
    <3>2. given = SubSeq(dog_memory, req.dog_addr + 1, req.dog_addr + req.dog_bytes)
      BY <2>1, <1>1 DEF DogInv
    <3>3. \A i \in 1 .. req.dog_bytes : dog_memory[req.dog_addr + i] \in DogWords
      BY <1>2, <1>3
    <3>4. words \in [1 .. req.dog_bytes -> DogWords]
      BY <3>1, <3>3
    <3> HIDE DEF words, given
    <3>5. words \in Seq(DogWords)
      BY <3>4, <1>2, SeqDef
    <3> QED BY <3>1, <3>2, <3>5, <1>4
  <2>2. CASE req.opcode = "CONVERT"
    <3>1. words = <<Taught(Asked(req))>> /\ given = <<sec_microdog34_convert_req(req)>>
      BY <2>2
    <3> HIDE DEF words, given
    <3> QED BY <3>1, <1>5
  <2>3. CASE req.opcode \in {"WRITE_DOG", "SET_PASS"} \/ (req.opcode = "READ_DOG" /\ refuses)
    <3>1. words = <<>> /\ given = <<>>
      BY <2>3, <1>1
    <3> HIDE DEF words, given
    <3> QED BY <3>1
  <2> QED BY <2>1, <2>2, <2>3
<1>7. sec_microdog34_answer(req) =
        [return_code |-> IF Refuses(req) THEN "ERR_PASS" ELSE "NO_ERR",
         dog_data |-> Response(given, req)]
  BY DEF sec_microdog34_answer
<1>8. Meant(req) =
        [return_code |-> IF refuses THEN "ERR_PASS" ELSE "NO_ERR", dog_data |-> Response(words, req)]
  BY DEF Meant
<1> HIDE DEF refuses, words, given
<1>9. Response(words, req) \in Seq(DogWords)
  BY <1>6, ResponseIsWords
<1> QED BY <1>1, <1>6, <1>7, <1>8, <1>9

(* The second dongle. *)
Fields40 == {"magic", "req_type", "payload_size", "payload", "mask_key1", "mask_key2",
             "mask_key3", "mask_key4"}
Request40(f) ==
  /\ f = [x \in Fields40 |-> f[x]]
  /\ f["payload"] \in Seq(DogWords)
  /\ \A x \in Fields40 \ {"payload"} : f[x] \in DogWords

\* A mask covers no field it is not meant for, and is gone when applied again.
LEMMA CoveredTwice ==
  ASSUME NEW f, Request40(f), NEW fields, NEW mask \in DogWords
  PROVE  /\ Request40(UnderMask(f, fields, mask))
         /\ UnderMask(UnderMask(f, fields, mask), fields, mask) = f
         /\ \A x \in Fields40 \ fields : UnderMask(f, fields, mask)[x] = f[x]
<1> DEFINE g == UnderMask(f, fields, mask)
           h == UnderMask(g, fields, mask)
           Under(e, x) == IF x \notin fields THEN e[x]
                          ELSE IF x = "payload" THEN XorAll(e[x], mask) ELSE XorWord(e[x], mask)
<1>1. DOMAIN f = Fields40
  BY DEF Request40
<1>2. g = [x \in Fields40 |-> Under(f, x)]
  BY <1>1 DEF UnderMask
<1>3. DOMAIN g = Fields40 /\ \A x \in Fields40 : g[x] = Under(f, x)
  BY <1>2
<1>4. h = [x \in Fields40 |-> Under(g, x)]
  <2> HIDE DEF g
  <2> QED BY <1>3 DEF UnderMask
<1>5. /\ g["payload"] \in Seq(DogWords)
      /\ "payload" \in fields => XorAll(g["payload"], mask) = f["payload"]
      /\ "payload" \notin fields => g["payload"] = f["payload"]
  <2>1. "payload" \in Fields40
    BY DEF Fields40
  <2> HIDE DEF g
  <2> QED BY <1>3, <2>1, MaskedTwice DEF Request40
<1>6. ASSUME NEW x \in Fields40 \ {"payload"}
      PROVE  /\ g[x] \in DogWords
             /\ x \in fields => XorWord(g[x], mask) = f[x]
             /\ x \notin fields => g[x] = f[x]
  <2> HIDE DEF g
  <2> QED BY <1>3, XorAssumption DEF Request40
<1> HIDE DEF g
<1>7. \A x \in Fields40 : Under(g, x) = f[x]
  BY <1>5, <1>6
<1>8. h = f
  BY <1>4, <1>7 DEF Request40
<1>9. g = [x \in Fields40 |-> g[x]]
  BY <1>2
<1> QED BY <1>3, <1>5, <1>6, <1>8, <1>9 DEF g, Request40

\* The four masks, which cover one another, are taken off in the opposite order.
LEMMA Unmasked40 ==
  ASSUME NEW req, Request40(req), NEW timestamp
  PROVE  sec_microdog40_dec_req(Sent(req, timestamp)) = Extended(req, "timestamp", timestamp)
<1> DEFINE by1 == UnderMask(req, Covered1, req.mask_key1)
           by2 == UnderMask(by1, Covered2, req.mask_key2)
           by3 == UnderMask(by2, Covered3, req.mask_key3)
           by4 == UnderMask(by3, Covered4, req.mask_key4)
           sent == Sent(req, timestamp)
<1>0. req.mask_key1 \in DogWords /\ req.mask_key2 \in DogWords /\ req.mask_key3 \in DogWords
      /\ req.mask_key4 \in DogWords
  BY DEF Request40, Fields40
<1>c. /\ "mask_key4" \notin Covered1 \cup Covered2 \cup Covered3 \cup Covered4
      /\ "mask_key3" \notin Covered1 \cup Covered2 \cup Covered3
      /\ "mask_key2" \notin Covered1 \cup Covered2 /\ "mask_key1" \notin Covered1
      /\ {"mask_key1", "mask_key2", "mask_key3", "mask_key4"} \subseteq Fields40
  BY DEF Covered1, Covered2, Covered3, Covered4, Fields40
<1>1. /\ Request40(by1) /\ UnderMask(by1, Covered1, req.mask_key1) = req
      /\ by1["mask_key1"] = req["mask_key1"] /\ by1["mask_key2"] = req["mask_key2"]
      /\ by1["mask_key3"] = req["mask_key3"] /\ by1["mask_key4"] = req["mask_key4"]
  BY <1>0, <1>c, CoveredTwice
<1> HIDE DEF by1
<1>2. /\ Request40(by2) /\ UnderMask(by2, Covered2, req.mask_key2) = by1
      /\ by2["mask_key2"] = req["mask_key2"]
      /\ by2["mask_key3"] = req["mask_key3"] /\ by2["mask_key4"] = req["mask_key4"]
  BY <1>0, <1>1, <1>c, CoveredTwice
<1> HIDE DEF by2
<1>3. /\ Request40(by3) /\ UnderMask(by3, Covered3, req.mask_key3) = by2
      /\ by3["mask_key3"] = req["mask_key3"] /\ by3["mask_key4"] = req["mask_key4"]
  BY <1>0, <1>2, <1>c, CoveredTwice
<1> HIDE DEF by3
<1>4. UnderMask(by4, Covered4, req.mask_key4) = by3 /\ by4["mask_key4"] = req["mask_key4"]
  BY <1>0, <1>3, <1>c, CoveredTwice
<1> HIDE DEF by4
<1>5. sent = [head |-> Encrypted(MonthKey(timestamp), by4), tail |-> Encrypted("shared_secret", timestamp)]
  BY DEF Sent, by1, by2, by3, by4
<1>6. Decrypted("shared_secret", sent.tail) = timestamp /\ Decrypted(MonthKey(timestamp), sent.head) = by4
  <2> HIDE DEF sent
  <2> QED BY <1>5 DEF Encrypted, Decrypted
<1> HIDE DEF sent
<1>7. sec_microdog40_dec_req(sent) =
        LET under3 == Stripped(by4, Covered4, "mask_key4")
            under2 == Stripped(under3, Covered3, "mask_key3")
            under1 == Stripped(under2, Covered2, "mask_key2")
        IN Extended(Stripped(under1, Covered1, "mask_key1"), "timestamp", timestamp)
  BY <1>6, Zenon DEF sec_microdog40_dec_req
<1>8. Stripped(by4, Covered4, "mask_key4") = by3
  BY <1>4 DEF Stripped
<1>9. Stripped(by3, Covered3, "mask_key3") = by2
  BY <1>3 DEF Stripped
<1>10. Stripped(by2, Covered2, "mask_key2") = by1
  BY <1>2 DEF Stripped
<1>11. Stripped(by1, Covered1, "mask_key1") = req
  BY <1>1 DEF Stripped
<1>12. sec_microdog40_dec_req(sent) = Extended(req, "timestamp", timestamp)
  BY <1>7, <1>8, <1>9, <1>10, <1>11
<1> QED BY <1>12 DEF sent

\* The second dongle converts a request to what it was taught.
LEMMA ConversionAsTaught ==
  ASSUME DogInv, NEW req \in Dog40Requests, NEW masks \in [1 .. 4 -> DogMaskKeys],
         NEW t \in DogTimestamps, req.req_type = Opcode40.CONVERT
  PROVE  LET answer == Transaction(Sent(WithMasks(req, masks), t))
         IN /\ answer.header = 0
            /\ Decrypted(MonthKey(t), answer.response) =
                 [req_type |-> req.req_type,
                  payload |-> <<Taught(SubSeq(req.payload, 1, req.payload_size))>>]
<1> DEFINE full == WithMasks(req, masks)
           got == Extended(full, "timestamp", t)
           asked == SubSeq(req.payload, 1, req.payload_size)
           reply == [req_type |-> req.req_type, payload |-> <<Taught(asked)>>]
<1>1. /\ req.magic \in DogWords /\ req.req_type \in DogWords /\ req.payload_size \in DogWords
      /\ req.payload \in Seq(DogWords) /\ req.payload_size <= Len(req.payload)
  BY DogAssumption
<1>2. masks[1] \in DogWords /\ masks[2] \in DogWords /\ masks[3] \in DogWords /\ masks[4] \in DogWords
  BY DogAssumption
<1>3. Request40(full)
  BY <1>1, <1>2 DEF WithMasks, Request40, Fields40
<1>4. full.req_type = req.req_type /\ full.payload = req.payload /\ full.payload_size = req.payload_size
  BY DEF WithMasks
<1>5. DOMAIN full = Fields40
  BY <1>3 DEF Request40
<1> HIDE DEF full
<1>6. sec_microdog40_dec_req(Sent(full, t)) = got
  BY <1>3, Unmasked40
<1>7. /\ got.req_type = req.req_type /\ got.payload = req.payload
      /\ got.payload_size = req.payload_size /\ got.timestamp = t
  BY <1>4, <1>5 DEF Extended, Fields40
<1> HIDE DEF got
<1>8. req.req_type = 0
  BY DEF Opcode40
<1>9. asked \in Seq(DogWords)
  <2>1. req.payload_size \in Nat
    BY <1>1, XorAssumption DEF DogWords
  <2> QED BY <1>1, <2>1, SubSeqProperties
<1>10. sec_microdog40_convert_req(got) = Taught(asked)
  BY <1>7, <1>9, AnsweredAsTaught DEF sec_microdog40_convert_req
<1>11. sec_microdog40_answer(got) = <<Taught(asked)>>
  BY <1>7, <1>8, <1>10 DEF sec_microdog40_answer, Opcode40
<1>12. Transaction(Sent(full, t)) =
         [header |-> 0, response |-> Encrypted(MonthKey(t), reply)]
  <2>1. \E op \in DOMAIN Opcode40 : got.req_type = Opcode40[op]
    BY <1>7 DEF Opcode40
  <2>2. Transaction(Sent(full, t)) =
          [header |-> 0, response |->
             Encrypted(MonthKey(got.timestamp),
                       [req_type |-> got.req_type, payload |-> sec_microdog40_answer(got)])]
    BY <1>6, <2>1 DEF Transaction
  <2> QED BY <2>2, <1>7, <1>11
<1>13. Decrypted(MonthKey(t), Encrypted(MonthKey(t), reply)) = reply
  BY DEF Decrypted, Encrypted
<1> HIDE DEF reply, asked
<1>14. /\ Transaction(Sent(full, t)).header = 0
       /\ Decrypted(MonthKey(t), Transaction(Sent(full, t)).response) = reply
  BY <1>12, <1>13
<1> QED BY <1>14 DEF full, reply, asked

\* Through any requests, passwords and masks: the words that are read are those
\* that were last written, and a conversion gives the first answer taught.
THEOREM DogAnswers == DogsSpec => []DogAnswersAsTaught
<1>1. DogInv => DogAnswersAsTaught
  <2> SUFFICES ASSUME DogInv PROVE DogAnswersAsTaught
    OBVIOUS
  <2>1. ASSUME NEW req \in DogRequests, NEW k \in DogMaskKeys,
               req.opcode \in {"READ_DOG", "WRITE_DOG", "SET_PASS", "CONVERT"}
        PROVE  LET answer == sec_microdog34_answer(sec_microdog34_crypt_req(Masked(req, k), k))
                   data == sec_microdog34_crypt_resp(answer.dog_data, k)
               IN Meant(req) = [answer EXCEPT !.dog_data = XorAll(data, MaskOf(k))]
    <3> DEFINE answer == sec_microdog34_answer(req)
               data == sec_microdog34_crypt_resp(answer.dog_data, k)
    <3>1. sec_microdog34_crypt_req(Masked(req, k), k) = req
      BY RequestTypes, DogAssumption, Unmasked
    <3>2. answer = Meant(req) /\ answer.dog_data \in Seq(DogWords)
      BY <2>1, AnswerAsMeant
    <3>3. k \in DogWords /\ MaskOf(k) \in DogWords
      BY DogAssumption, MaskIsWord
    <3>4. XorAll(data, MaskOf(k)) = answer.dog_data
      <4> HIDE DEF answer
      <4> QED BY <3>2, <3>3, MaskedTwice DEF sec_microdog34_crypt_resp
    <3>5. answer = [x \in DOMAIN answer |-> answer[x]]
      BY DEF sec_microdog34_answer
    <3> HIDE DEF answer, data
    <3>6. [answer EXCEPT !.dog_data = answer.dog_data] = answer
      BY <3>5
    <3>7. Meant(req) = [answer EXCEPT !.dog_data = XorAll(data, MaskOf(k))]
      BY <3>2, <3>4, <3>6
    <3> QED BY <3>1, <3>7 DEF answer, data
  <2> QED BY <2>1, ConversionAsTaught, Zenon DEF DogAnswersAsTaught
<1> QED BY <1>1, DogInitial, DogStep, PTL DEF DogsSpec
=============================================================================
