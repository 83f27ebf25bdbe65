------------------------------ MODULE UsbStack ------------------------------
(***************************************************************************)
(* The usb handlers that a game hook stacks on usbhook.c, for the calls    *)
(* that enumerate, open, reset and close a device:                         *)
(*                                                                         *)
(*   usb-init-fix.c  swallows repeated usb_init and usb_find_busses        *)
(*   piuio-khack.c, piuio-exit.c  latch the handle of the open PIUIO       *)
(*   usb-emu.c       injects fake devices and answers for virtual handles  *)
(*   patch/piuio.c, patch/piubtn.c  the virtual devices, over ptapi        *)
(*                                                                         *)
(* A call runs the handlers of the chain one after the other, so it is one *)
(* step here; HookChain models the dispatch itself.  libusb-0.1 below the  *)
(* chain is external: whether its rescans keep the busses and the devices  *)
(* that usb-emu.c linked into its list is left open.                       *)
(*                                                                         *)
(* The game is assumed to call usb_find_busses before usb_find_devices, to *)
(* repeat usb_init only after it has scanned once, and to close a handle   *)
(* whose reset failed.  A real board may be plugged in or pulled between   *)
(* any two calls.                                                          *)
(***************************************************************************)
EXTENDS Naturals

CONSTANTS
  Devices,   \* the device kinds a hook can emulate
  PIUIO,     \* the one that khack and exit look for
  Boards,    \* the devices of which there is a real board to plug in
  NULL,
  Drivers,   \* the values conf.driver can have, see ImplOpens
  MaxScans   \* bound: how often the game enumerates

ASSUME PiuioIsDevice == PIUIO \in Devices
ASSUME BoardsAreDevices == Boards \subseteq Devices
ASSUME NullIsNoHandle == NULL \notin [dev : Devices, kind : {"virtual", "real"}]
ASSUME DriversAreBoolean == Drivers \subseteq BOOLEAN
ASSUME MaxScansIsNat == MaxScans \in Nat

VARIABLES
  attached,    \* the devices whose board is plugged in
  moved,       \* history: those whose board came or went after a first scan
  conf,        \* the handlers pushed, and how libusb treats foreign entries
  init_count,  \* _cnh_usb_init_fix_init_count
  real_inits,  \* how often libusb's own usb_init ran
  busses,      \* usb_busses: the devices of each bus on the list, see Own
  phase,       \* how far the game's current enumeration has got
  scans,       \* how many it has begun
  avail,       \* the virtual devices with real_dev_avail
  enumerated,  \* those with enumerated
  api,         \* the devices whose ptapi implementation is ready for use
  dev_handle,  \* those with a piuio_drv_device_handle (piubtn_...) not NULL
  real,        \* the devices with an open libusb handle
  khack,       \* _patch_piuio_khack_usb_handle
  exit,        \* _patch_piuio_exit_usb_handle
  held,        \* the handle the game holds for each device
  broken       \* the handles the last reset failed on

boardVars == <<attached, moved>>
enumVars == <<init_count, real_inits, busses, phase, scans, avail, enumerated>>
devVars == <<api, dev_handle, real>>
handleVars == <<khack, exit, held, broken>>
vars == <<boardVars, conf, enumVars, devVars, handleVars>>

Handles == [dev : Devices, kind : {"virtual", "real"}]
Confs == [khack : BOOLEAN, exit : BOOLEAN, emulated : SUBSET Devices,
          keep_busses : BOOLEAN, keep_devs : BOOLEAN, driver : Drivers]

\* A bus is known by what linked it into the list: Own is the one of libusb, any
\* other is the one that usb-emu.c added in that scan of the game.
Own == 0

\* The part of the state that the handles depend on ...
HandleTypes ==
  /\ conf \in Confs
  /\ phase \in {"none", "busses", "devices"}
  /\ enumerated \subseteq Devices
  /\ api \subseteq Devices /\ dev_handle \subseteq Devices
  /\ real \subseteq Devices
  /\ khack \in Handles \cup {NULL} /\ exit \in Handles \cup {NULL}
  /\ held \in [Devices -> Handles \cup {NULL}]
  /\ broken \subseteq Devices

\* ... and the rest: the counter stays within an int, however often the game
\* calls usb_init, and every bus on the list was added by a scan there was.
TypeOK ==
  /\ HandleTypes
  /\ init_count \in 0 .. 2 /\ real_inits \in 0 .. 2
  /\ scans \in 0 .. MaxScans
  /\ busses \in [DOMAIN busses -> SUBSET Devices] /\ DOMAIN busses \subseteq 0 .. scans
  /\ avail \subseteq Devices
  /\ attached \subseteq Boards /\ moved \subseteq Boards

Init ==
  /\ conf \in Confs
  /\ attached \in SUBSET Boards /\ moved = {}
  /\ init_count = 0 /\ real_inits = 0
  /\ busses = [b \in {} |-> {}] /\ phase = "none" /\ scans = 0
  /\ avail = {} /\ enumerated = {}
  /\ api = {} /\ dev_handle = {} /\ real = {}
  /\ khack = NULL /\ exit = NULL
  /\ held = [d \in Devices |-> NULL]
  /\ broken = {}

\* Somebody plugs a board in, or pulls it.  What the list says of it, and what
\* is open of it, stays as it is.
MoveBoard(d) ==
  /\ attached' = (attached \ {d}) \cup ({d} \ attached)
  /\ moved' = IF scans > 0 THEN moved \cup {d} ELSE moved
  /\ UNCHANGED <<conf, enumVars, devVars, handleVars>>

-----------------------------------------------------------------------------
(* Enumeration                                                             *)

\* A second usb_init breaks the native side of libusb-0.1.
NativeWorks == real_inits = 1

\* Mutation: every usb_init reaches libusb.
ForwardsInit_Always == TRUE

ForwardsInit == init_count = 0

Counted == IF init_count < 2 THEN init_count + 1 ELSE 2

UsbInit ==
  /\ init_count = 0 \/ scans > 0
  /\ init_count' = Counted
  /\ real_inits' = IF ForwardsInit /\ real_inits < 2 THEN real_inits + 1
                                                     ELSE real_inits
  /\ UNCHANGED <<boardVars, conf, busses, phase, scans, avail, enumerated,
                 devVars, handleVars>>

\* What libusb's usb_find_busses leaves in the list: its own bus, and of the
\* others the ones it does not remove.
NativeBusses ==
  LET own == IF NativeWorks THEN {Own} ELSE {}
      foreign == IF conf.keep_busses THEN DOMAIN busses \ {Own} ELSE {}
  IN [b \in own \cup foreign |-> IF b \in DOMAIN busses THEN busses[b] ELSE {}]

ForwardsFindBusses == init_count <= 1

UsbFindBusses ==
  /\ init_count > 0
  /\ phase # "busses"
  /\ scans < MaxScans
  /\ busses' = IF ForwardsFindBusses THEN NativeBusses ELSE busses
  /\ phase' = "busses"
  /\ scans' = scans + 1
  /\ UNCHANGED <<boardVars, conf, init_count, real_inits, avail, enumerated,
                 devVars, handleVars>>

\* libusb's usb_find_devices rescans each bus of the list.
Rescanned ==
  [b \in DOMAIN busses |->
     IF b = Own THEN (IF NativeWorks THEN attached ELSE {})
     ELSE IF conf.keep_devs THEN busses[b] ELSE {}]

OnBusses(list) == UNION {list[b] : b \in DOMAIN list}

\* Mutation: a fake device is injected whether the device is there or not.
Injected_Always(there) == conf.emulated

\* A fake device is created for each virtual device not already on a bus.
Injected(there) == conf.emulated \ there

\* Mutation: a device that is really there is not enumerated as virtual.
Enumerates_AbsentOnly(there) == conf.emulated \ there

\* The enumerate callbacks of both virtual devices return TRUE, whatever
\* real_exists says.
Enumerates(there) == conf.emulated

\* The devices of virtual kinds that this scan comes across, on any bus and the
\* ones injected before included, or that an earlier one has: real_dev_avail is
\* never cleared.
Seen == avail \cup (OnBusses(Rescanned) \cap conf.emulated)

\* usb_find_devices: scan every bus, then append one with the fake devices.
UsbFindDevices ==
  /\ phase = "busses"
  /\ avail' = Seen
  /\ enumerated' = Enumerates(Seen)
  /\ busses' = [b \in DOMAIN busses \cup {scans} |->
                   IF b = scans THEN Injected(Seen) ELSE Rescanned[b]]
  /\ phase' = "devices"
  /\ UNCHANGED <<boardVars, conf, init_count, real_inits, scans, devVars,
                 handleVars>>

-----------------------------------------------------------------------------
(* Handles                                                                 *)

\* ptapi's open.  conf.driver: the implementation is real/piuio.c over
\* device.c, which needs the board, but takes any handle it has ever had for an
\* open device.
ImplOpens(d) ==
  /\ conf.driver => d \in attached \cup dev_handle
  /\ api' = IF conf.driver /\ d \in dev_handle THEN api ELSE api \cup {d}
  /\ dev_handle' = IF conf.driver THEN dev_handle \cup {d} ELSE dev_handle

\* usb-emu.c's open handler: the virtual device if it is enumerated, else on
\* to libusb.  Either may fail.
IsVirtual(d) == d \in conf.emulated /\ d \in enumerated

OpensDevice(d, h) ==
  IF IsVirtual(d)
  THEN /\ h = [dev |-> d, kind |-> "virtual"]
       /\ ImplOpens(d)
       /\ UNCHANGED real
  ELSE /\ d \in attached
       /\ h = [dev |-> d, kind |-> "real"]
       /\ real' = real \cup {d}
       /\ UNCHANGED <<api, dev_handle>>

\* The handle that khack, else exit, answers an open of the PIUIO with.
Latched == IF khack # NULL THEN khack ELSE exit

Latches(d, h) ==
  /\ khack' = IF d = PIUIO /\ conf.khack THEN h ELSE khack
  /\ exit' = IF d = PIUIO /\ conf.exit THEN h ELSE exit

\* The game has found the device in a scan.  It opens again what it has open
\* only if it is the PIUIO and a handler knows how to answer that.
FindsForOpen(d) ==
  /\ phase = "devices"
  /\ d \in OnBusses(busses)
  /\ d \notin broken
  /\ held[d] # NULL => d = PIUIO /\ Latched # NULL

UsbOpen(d) ==
  /\ FindsForOpen(d)
  /\ ~(d = PIUIO /\ Latched # NULL)
  /\ \E h \in Handles : /\ OpensDevice(d, h)
                        /\ Latches(d, h)
                        /\ held' = [held EXCEPT ![d] = h]
  /\ UNCHANGED <<boardVars, conf, enumVars, broken>>

\* A failed open changes nothing, so only the handler that opens a second
\* time needs a step: it is answered with the latched handle.
UsbOpenLatched ==
  /\ FindsForOpen(PIUIO)
  /\ Latched # NULL
  /\ Latches(PIUIO, Latched)
  /\ held' = [held EXCEPT ![PIUIO] = Latched]
  /\ UNCHANGED <<boardVars, conf, enumVars, devVars, broken>>

\* Mutation: closing leaves the latches as they are.
Unlatches_Never(h) == UNCHANGED <<khack, exit>>

Unlatches(h) ==
  /\ khack' = IF khack = h THEN NULL ELSE khack
  /\ exit' = IF exit = h THEN NULL ELSE exit

ClosesDevice(d) ==
  /\ api' = IF held[d].kind = "virtual" THEN api \ {d} ELSE api
  /\ real' = IF held[d].kind = "virtual" THEN real ELSE real \ {d}
  /\ UNCHANGED dev_handle

UsbClose(d) ==
  /\ held[d] # NULL
  /\ Unlatches(held[d])
  /\ ClosesDevice(d)
  /\ held' = [held EXCEPT ![d] = NULL]
  /\ broken' = broken \ {d}
  /\ UNCHANGED <<boardVars, conf, enumVars>>

\* ep.reset closes the ptapi implementation and opens it again; device.c
\* frees the handle on close but does not forget it.
ResetDevice(d) ==
  /\ api' = IF conf.driver /\ held[d].kind = "virtual" THEN api \ {d} ELSE api
  /\ UNCHANGED dev_handle

\* Mutation: the reset of a virtual device reports success come what may.
ResetFailed_Ignored(d) == broken

\* The reset fails: the game learns that the handle is no longer of use.
ResetFailed(d) == broken \cup {d}

\* libusb resets what is still plugged in.
UsbReset(d) ==
  /\ held[d] # NULL /\ d \notin broken
  /\ held[d].kind = "real" => d \in attached
  /\ ResetDevice(d)
  /\ UNCHANGED <<boardVars, conf, enumVars, real, handleVars>>

\* The implementation's open, or libusb's own reset, fails.  With device.c it
\* cannot: the handle is not NULL.
UsbResetFails(d) ==
  /\ held[d] # NULL /\ d \notin broken
  /\ held[d].kind = "virtual" => ~conf.driver
  /\ api' = IF held[d].kind = "virtual" THEN api \ {d} ELSE api
  /\ broken' = ResetFailed(d)
  /\ UNCHANGED <<boardVars, conf, enumVars, dev_handle, real, khack, exit, held>>

Next ==
  \/ \E d \in Boards : MoveBoard(d)
  \/ UsbInit \/ UsbFindBusses \/ UsbFindDevices
  \/ UsbOpenLatched
  \/ \E d \in Devices : \/ UsbOpen(d) \/ UsbClose(d)
                         \/ UsbReset(d) \/ UsbResetFails(d)

Spec == Init /\ [][Next]_vars

-----------------------------------------------------------------------------
(* Properties                                                              *)

Copies(d) == {b \in DOMAIN busses : d \in busses[b]}

\* The game finds exactly one device of each kind that is emulated, whatever
\* libusb does with the busses and devices that usb-emu.c linked into its list
\* before.  Not claimed for a device whose board came or went in between: one
\* that was seen and is pulled is lost, no fake is injected, and one that is
\* plugged in next to a fake the list has kept is there twice.
EmulatedIsFound ==
  \A d \in conf.emulated \ moved : \E b \in Copies(d) : Copies(d) = {b}

\* The boards that are plugged in are on the list, the emulated ones and those
\* plugged in late too: repeated usb_init calls never make them disappear, what
\* usb-init-fix.c is for.
NativeIsFound == attached \subseteq OnBusses(busses)

\* However often the game enumerates, and whatever is plugged in or pulled, each
\* of its scans finds both.
DevicesAreFound ==
  [][phase = "busses" /\ phase' = "devices" => (EmulatedIsFound /\ NativeIsFound)']_vars

\* A handle the game holds, and that no reset failed on, leads to an open
\* device, and no device stays open that the game does not hold a handle of:
\* across latching, re-detection, reset and close.
HeldIsOpen ==
  \A d \in Devices :
    /\ (held[d] # NULL /\ d \notin broken) =>
          d \in (IF held[d].kind = "virtual" THEN api ELSE real)
    /\ d \in api => held[d] = [dev |-> d, kind |-> "virtual"]
    /\ d \in real => held[d] = [dev |-> d, kind |-> "real"]

\* khack and exit recognise the PIUIO's calls by its handle, so each latch is
\* exactly the handle the game holds, also after a close, a failed reset and
\* a re-detection.
LatchIsHeld ==
  /\ khack = IF conf.khack THEN held[PIUIO] ELSE NULL
  /\ exit = IF conf.exit THEN held[PIUIO] ELSE NULL

\* An emulated device is never opened for real, plugged in or not.
RealIsSuppressed == real \cap conf.emulated = {}
=============================================================================
