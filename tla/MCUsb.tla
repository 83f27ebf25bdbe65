-------------------------------- MODULE MCUsb --------------------------------
(* What a game has on its usb ports, each on its own: the hook of libusb in its *)
(* two parts (three threads that make the first call, two threads and two       *)
(* handlers), the handlers of the PIUIO and the PIUBTN (as in MCUsbStack), the  *)
(* driver of a real board, the layouts of the boards, the drives of Pump Pro,   *)
(* and the dongles.  The suite says which one moves.                            *)
EXTENDS HookInit, HookChain, MCUsbStack, IoUsb, IoBoards, UsbFix, Dogs
LOCAL INSTANCE Bitwise

CONSTANT Suites
VARIABLE suite

(* Each bit of the layouts is on in one block, and off in another. *)
MCLightBlocks ==
  [piuio |-> {{<<0, 0>>, <<0, 2>>, <<0, 4>>, <<0, 6>>, <<2, 3>>, <<2, 5>>, <<1, 2>>, <<2, 7>>,
               <<3, 1>>},
              {<<0, 3>>, <<0, 5>>, <<2, 1>>, <<2, 2>>, <<2, 4>>, <<2, 6>>, <<3, 0>>, <<3, 2>>}},
   piubtn |-> {{<<0, 0>>, <<0, 2>>, <<0, 7>>}, {<<0, 1>>, <<0, 3>>, <<0, 4>>, <<0, 5>>, <<0, 6>>}}]
MCPresses ==
  {{<<0, "lu", 0>>, <<0, "cn", 1>>, <<1, "rd", 3>>, <<1, "ru", 0>>, <<1, "rd", 1>>, <<0, "start">>,
    <<1, "back">>, <<"test">>, <<"clear">>},
   {<<0, "ru", 1>>, <<1, "cn", 1>>, <<0, "ld", 2>>, <<0, "rd", 0>>, <<1, "lu", 2>>, <<0, "left">>,
    <<1, "right">>, <<"coin">>, <<"service">>, <<"coin2">>}}

MCBoardsInit ==
  /\ impl \in IF suite \in {"boards", "lights"} THEN {"real", "lxio"} ELSE {"real"}
  /\ clients \in IF suite \notin {"boards", "lights"} THEN {{}}
                 ELSE IF impl = "real" THEN {{"piuio"}, {"piubtn"}} ELSE {{"piuio"}, BothBoards}
  /\ pressed = (CHOOSE p \in Presses : TRUE)
  /\ BoardsInit
(* The inputs and the lights are varied one at a time. *)
Shown(c) == IF suite = "lights" THEN LightBlocks[c] ELSE {{}}
MCBoardsNext ==
  \/ \E block \in Shown("piuio"), g \in IF clients = BothBoards THEN {0} ELSE Groups,
        failing \in IF suite = "lights" THEN {2, 4} ELSE {0, 2, 4} :
       PiuioOut(block, g, failing)
  \/ PiuioIn
  \/ \E block \in Shown("piubtn"), fails \in BOOLEAN : PiubtnOut(block, fails)
  \/ \E fails \in BOOLEAN : PiubtnIn(fails)
  \/ \E c \in clients : LxioStep(c)
  \/ suite = "boards" /\ MovePlayer
  \/ suite = "boards" /\ clients # BothBoards /\ UnplugBoards

(* Words of four bits. *)
MCXor(a, b) == a ^^ b
Request(opcode, addr, count, data, password) ==
  [opcode |-> opcode, dog_addr |-> addr, dog_bytes |-> count, dog_data |-> data,
   dog_password |-> password]
MCDogRequests ==
  {Request("READ_DOG", 0, 2, <<0, 0>>, p) : p \in {1, 2}}
  \cup {Request("WRITE_DOG", a, 1, <<w, 0>>, p) : a \in {0, 1}, w \in {1, 2}, p \in {1, 2}}
  \cup {Request("WRITE_DOG", 0, 2, <<2, 1>>, 1)}
  \cup {Request("SET_PASS", 0, 1, <<w, 0>>, p) : w \in {1, 2}, p \in {1, 2}}
  \cup {Request(opcode, 0, n, <<1, 2>>, p) : opcode \in {"CONVERT", "RAINBOW_TABLE_ADD"},
                                             n \in {1, 2}, p \in {1, 2}}
  \cup {Request(opcode, 0, 1, <<1, 2>>, 1) :
          opcode \in {"DOG_CHECK", "SET_SHARE", "GET_LOCK_NO", "LOGIN", "DOG_CASCADE", "DOG_SERIAL",
                      "SET_MFG_SERIAL", "SET_VID", "RELOAD_RAINBOW_TABLE", "unknown"}}
MCDogKeyFile == <<[response |-> 3, algorithm |-> 0, request |-> <<1>>],
                  [response |-> 1, algorithm |-> 0, request |-> <<1>>],
                  [response |-> 2, algorithm |-> 1, request |-> <<1, 2>>]>>
MCDog40Requests ==
  [magic : {13}, req_type : {0, 1, 2, 4, 5, 6, 7, 8, 11}, payload_size : {1, 2},
   payload : {<<1, 2>>}]
MCDogTimestamps == {[year |-> 2009, month |-> m] : m \in {1, 12}}
Socket(at, bridge, hub) == [at |-> at, bridge |-> bridge, hub |-> hub, other |-> FALSE]
MCSockets ==
  {Socket("2-1", b, h) : b \in {0, 1}, h \in {0, 1}} \cup {Socket("1-1", 0, 1), Socket("2-2", 1, 0)}
  \cup {[at |-> "none", bridge |-> 0, hub |-> 0, other |-> TRUE]}
MCDisks == <<"sda", "sdb">>
MCFixOptions ==
  [dev_nodes : {NoDrive, {"sda", "sdb"}, {"sdb", "sdc"}, {"sdb"}}, p1 : {"2-1", NoDrive},
   p2 : {"2-2", "left", "2-1"}]

hook_vars == <<init_vars, dispatch_vars>>
(* The calls of the hook are bounded, and an assertion may end the process.     *)
MCHookNext ==
  \/ suite = "lazy_init" /\ LazyNext /\ UNCHANGED dispatch_vars
  \/ suite = "dispatch" /\ DispatchNext /\ UNCHANGED init_vars
  \/ suite \in {"lazy_init", "dispatch"} /\ UNCHANGED hook_vars
otherUsbVars == <<vars, vars_usb, vars_boards, vars_usbfix, vars_dogs>>

UsbSuiteInit ==
  /\ suite \in Suites
  /\ LazyInit /\ DispatchInit
  /\ Init /\ DriverInit /\ MCBoardsInit /\ UsbFixInit /\ DogsInit
  /\ suite = "stack" \/ (conf = (CHOOSE c \in Confs : TRUE) /\ attached = {})
  /\ suite = "usb_fix" \/ fix_options = [dev_nodes |-> NoDrive, p1 |-> NoDrive, p2 |-> "left"]
  /\ (suite = "dogs") = (dog # "none")
UsbSuiteNext ==
  /\ UNCHANGED suite
  /\ \/ /\ UNCHANGED <<vars_boards, vars_usbfix, vars_dogs, hook_vars>>
        /\ \/ suite = "stack" /\ Next /\ UNCHANGED vars_usb
           \/ suite = "driver" /\ DriverNext /\ UNCHANGED vars
     \/ /\ UNCHANGED <<vars, vars_usb, vars_dogs, hook_vars>>
        /\ \/ suite \in {"boards", "lights"} /\ MCBoardsNext /\ UNCHANGED vars_usbfix
           \/ suite = "usb_fix" /\ UsbFixNext /\ UNCHANGED vars_boards
     \/ /\ UNCHANGED <<vars, vars_usb, vars_boards, vars_usbfix, hook_vars>>
        /\ suite = "dogs" /\ DogsNext
     \/ MCHookNext /\ UNCHANGED otherUsbVars
UsbSpec == UsbSuiteInit /\ [][UsbSuiteNext]_<<suite, hook_vars, otherUsbVars>>
=============================================================================
