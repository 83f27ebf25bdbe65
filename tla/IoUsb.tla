--------------------------------- MODULE IoUsb ---------------------------------
(***************************************************************************)
(* The driver of a real board: io/util/usb.c over libusb-1.0, and the one  *)
(* handle that io/piuio/device.c, io/piubtn/device.c and io/lxio/device.c  *)
(* (the same code three times) keep of it.  Opening takes five calls of    *)
(* libusb, each of which may fail, and the board may be unplugged between  *)
(* them.  A plugged board is known by the number of the plug.              *)
(***************************************************************************)
EXTENDS Naturals, FiniteSets

CONSTANTS NoBoard, MaxPlugs      \* bound: how often a board is plugged in

VARIABLES
  board,          \* the board that is plugged in, or NoBoard
  plugs,          \* how many were
  kernel_driver,  \* the kernel's driver is attached to it
  usb_pc,         \* where io_usb_open is
  contexts,       \* libusb contexts that are initialised
  libusb_handles, \* boards that are open
  claimed,        \* boards whose interface is claimed
  device_handle   \* the static handle: "NULL", "open", or "freed"

usb_world == <<board, plugs, kernel_driver>>
usb_ours == <<contexts, libusb_handles, claimed>>
vars_usb == <<usb_world, usb_pc, usb_ours, device_handle>>

DriverInit == /\ board = NoBoard /\ plugs = 0 /\ kernel_driver = FALSE
           /\ usb_pc = "idle" /\ contexts = 0 /\ libusb_handles = {} /\ claimed = {}
           /\ device_handle = "NULL"

Opening(pc) == usb_pc = pc /\ UNCHANGED usb_world

\* A handle that was ever given is taken for an open device: close keeps it.
drv_device_open ==
  /\ Opening("idle") /\ UNCHANGED <<usb_ours, device_handle>>
  /\ usb_pc' = IF device_handle # "NULL" THEN "idle" ELSE "init"

\* Mutation: the context is not left.
LeavesDevice_Only == libusb_handles' = {} /\ claimed' = {} /\ UNCHANGED contexts
\* libusb_close and libusb_exit.
LeavesDevice == libusb_handles' = {} /\ claimed' = {} /\ contexts' = contexts - 1
OpenFails == usb_pc' = "idle" /\ LeavesDevice /\ UNCHANGED device_handle
GoesOn(pc) == usb_pc' = pc /\ UNCHANGED <<claimed, device_handle>>

libusb_init ==
  /\ Opening("init")
  /\ \/ GoesOn("find") /\ contexts' = contexts + 1 /\ UNCHANGED libusb_handles
     \/ usb_pc' = "idle" /\ UNCHANGED <<usb_ours, device_handle>>

\* The first device of the ids is opened.
io_usb_get_device_handle ==
  /\ Opening("find")
  /\ \/ /\ board # NoBoard
        /\ GoesOn("detach") /\ libusb_handles' = {board} /\ UNCHANGED contexts
     \/ /\ usb_pc' = "idle" /\ contexts' = contexts - 1
        /\ UNCHANGED <<libusb_handles, claimed, device_handle>>

\* A call on the open board: it fails if the board is gone.
OnBoard(pc) == usb_pc = pc /\ UNCHANGED <<board, plugs>>
Alive == board # NoBoard /\ board \in libusb_handles

DetachKernelDriver ==
  /\ OnBoard("detach")
  /\ \/ /\ ~Alive \/ ~kernel_driver
        /\ GoesOn("configure") /\ UNCHANGED <<kernel_driver, contexts, libusb_handles>>
     \/ /\ Alive /\ kernel_driver
        /\ kernel_driver' = FALSE
        /\ GoesOn("configure") /\ UNCHANGED <<contexts, libusb_handles>>
     \/ Alive /\ kernel_driver /\ OpenFails /\ UNCHANGED kernel_driver
SetConfiguration ==
  /\ OnBoard("configure") /\ UNCHANGED kernel_driver
  /\ \/ Alive /\ GoesOn("claim") /\ UNCHANGED <<contexts, libusb_handles>>
     \/ OpenFails
\* The interface can only be claimed from no driver.
ClaimInterface ==
  /\ OnBoard("claim") /\ UNCHANGED kernel_driver
  /\ \/ /\ Alive /\ ~kernel_driver
        /\ usb_pc' = "idle" /\ claimed' = {board} /\ device_handle' = "open"
        /\ UNCHANGED <<contexts, libusb_handles>>
     \/ OpenFails
io_usb_open == libusb_init \/ DetachKernelDriver \/ SetConfiguration \/ ClaimInterface

\* A close of a handle that was freed, or never given, is undefined; the game
\* is taken not to come to it.  (UsbStack has what follows from the handle that
\* is kept, when a board is reset.)
drv_device_close ==
  /\ Opening("idle") /\ device_handle = "open"
  /\ usb_pc' = "idle" /\ LeavesDevice /\ device_handle' = "freed"

PlugInBoard ==
  /\ board = NoBoard /\ plugs < MaxPlugs
  /\ plugs' = plugs + 1 /\ board' = plugs' /\ kernel_driver' = TRUE
  /\ UNCHANGED <<usb_pc, usb_ours, device_handle>>
UnplugBoard ==
  /\ board # NoBoard
  /\ board' = NoBoard /\ kernel_driver' = FALSE
  /\ UNCHANGED <<plugs, usb_pc, usb_ours, device_handle>>

DriverNext ==
  \/ drv_device_open \/ io_usb_open \/ io_usb_get_device_handle \/ drv_device_close
  \/ PlugInBoard \/ UnplugBoard
DriverSpec == DriverInit /\ [][DriverNext]_vars_usb
-----------------------------------------------------------------------------
\* Whichever of the five calls fails, and whenever the board is pulled, opening
\* leaves either nothing behind, neither a context of libusb nor an open board,
\* or one of each with the interface claimed: a driver that could not be opened
\* does not keep the board from the next attempt.
OpenIsAllOrNothing ==
  usb_pc = "idle" =>
    /\ contexts = (IF device_handle = "open" THEN 1 ELSE 0)
    /\ Cardinality(libusb_handles) = contexts
    /\ claimed = libusb_handles
=============================================================================
