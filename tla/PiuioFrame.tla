----------------------------- MODULE PiuioFrame -----------------------------
(***************************************************************************)
(* One frame of I/O with the PIUIO, for each sensor group a message that   *)
(* sends the lights and selects the group, and a message that reads the    *)
(* inputs, along the handlers of an open handle:                           *)
(*                                                                         *)
(*   piuio-khack.c  splits Pump Pro's one call per frame into the eight    *)
(*   piuio-exit.c   quits the game when test and service are pressed       *)
(*   patch/piuio.c  answers the messages from the ptapi implementation:    *)
(*     real/piuio.c      over the board, one cycle of all groups per frame *)
(*     keyboard.c        from a key buffer another thread writes           *)
(*   libusb         without emulation: the board itself                    *)
(*                                                                         *)
(* The player and the board run at any time, transfers to the board fail   *)
(* at any time.  A group's inputs are one bit, the lights one value.       *)
(***************************************************************************)
EXTENDS Naturals, FiniteSets

CONSTANTS
  LastSensor,  \* PTAPI_IO_PIUIO_SENSOR_GROUP_NUM - 1, 3 in the code
  Lights,      \* what the lights can show
  Paths,       \* the paths checked, of "native", "board", "keyboard"
  MaxMoves     \* bound: how often the player moves

ASSUME LastSensorIsNat == LastSensor \in Nat
ASSUME PathsAreKnown == Paths \subseteq {"native", "board", "keyboard"}
ASSUME MaxMovesIsNat == MaxMoves \in Nat

Sensors == 0 .. LastSensor
Buttons == {"test", "service"}

VARIABLES
  conf,          \* khack and exit: is the handler pushed; path: see above
  world,         \* what the player presses: panels per group, buttons
  moves,         \* how often that has changed
  board,         \* the board: its lights and the group it has selected
  lib,           \* ptapi's buffers: pad_in, sys, pad_out
  sensor_group,  \* _patch_piuio_sensor_group
  pc,            \* where the frame is
  sensor,        \* the group of the current message
  cycle,         \* the group of recv's current transfer
  lights,        \* the lights of the frame
  buffer,        \* irp.ctrl_buffer
  in_buffer,     \* the inputs gathered for the game
  seen           \* history: what the player has pressed during the frame

playerVars == <<world, moves, seen>>
piuio_vars == <<conf, world, moves, board, lib, sensor_group, pc, sensor, cycle,
          lights, buffer, in_buffer, seen>>

\* A buffer holds an output block, whose bits at the places of the buttons
\* are 0 (they are no lights), or an input block, where 0 means pressed.
OutBlock(s, l) == [kind |-> "out", group |-> s, lights |-> l]
InBlock(p, b) == [kind |-> "in", pressed |-> p, buttons |-> b]
Blocks == {OutBlock(s, l) : s \in Sensors, l \in Lights}
            \cup {InBlock(p, b) : p \in BOOLEAN, b \in SUBSET Buttons}

Worlds == [pads : [Sensors -> BOOLEAN], buttons : SUBSET Buttons]

PiuioTypeOK ==
  /\ conf \in [khack : BOOLEAN, exit : BOOLEAN, path : Paths]
  /\ world \in Worlds /\ moves \in 0 .. MaxMoves
  /\ board \in [lights : Lights, group : Sensors]
  /\ lib \in [pads : [Sensors -> BOOLEAN], buttons : SUBSET Buttons,
              lights : Lights]
  /\ sensor_group \in Sensors /\ sensor \in Sensors /\ cycle \in Sensors
  /\ pc \in {"idle", "out", "write", "read", "in", "done", "failed", "exited"}
  /\ lights \in Lights
  /\ buffer \in Blocks
  /\ in_buffer \in [Sensors -> BOOLEAN]
  /\ seen \in [pads : [Sensors -> SUBSET BOOLEAN],
               buttons : SUBSET SUBSET Buttons]

\* What the world can change to: one group's panel, or the buttons.  The
\* keyboard has no groups, a key presses a panel as a whole.
Moves ==
  {[world EXCEPT !.pads = [s \in Sensors |->
                             IF s \in group THEN ~world.pads[s]
                                            ELSE world.pads[s]]] :
     group \in IF conf.path = "keyboard" THEN {Sensors}
                                        ELSE {{s} : s \in Sensors}}
    \cup {[world EXCEPT !.buttons = b] : b \in SUBSET Buttons \ {world.buttons}}

Sees(w) == [pads |-> [s \in Sensors |-> {w.pads[s]}], buttons |-> {w.buttons}]

PiuioInit ==
  /\ conf \in [khack : BOOLEAN, exit : BOOLEAN, path : Paths]
  /\ world = [pads |-> [s \in Sensors |-> FALSE], buttons |-> {}]
  /\ moves = 0
  /\ \E l \in Lights :
       /\ board = [lights |-> l, group |-> 0]
       /\ lib = [pads |-> [s \in Sensors |-> FALSE], buttons |-> {},
                 lights |-> l]
       /\ lights = l
       /\ buffer = OutBlock(0, l)
  /\ sensor_group = 0 /\ sensor = 0 /\ cycle = 0
  /\ pc = "idle"
  /\ in_buffer = [s \in Sensors |-> FALSE]
  /\ seen = Sees(world)

-----------------------------------------------------------------------------
(* The player                                                              *)

\* The player's moves reach the keyboard's buffer and the board's switches,
\* whatever the game is doing.
Move ==
  /\ pc # "exited"
  /\ moves < MaxMoves /\ moves' = moves + 1
  /\ world' \in Moves
  /\ seen' = [pads |-> [s \in Sensors |->
                          seen.pads[s] \cup {world'.pads[s]}],
              buttons |-> seen.buttons \cup {world'.buttons}]
  /\ UNCHANGED <<conf, board, lib, sensor_group, pc, sensor, cycle, lights,
                 buffer, in_buffer>>

-----------------------------------------------------------------------------
(* The game                                                                *)

\* A frame begins: the lights are chosen once, every output message of the
\* frame carries them.
BeginFrame ==
  /\ pc \in {"idle", "done", "failed"}
  /\ lights' \in Lights
  /\ sensor' = 0
  /\ pc' = "out"
  /\ seen' = Sees(world)
  /\ UNCHANGED <<conf, world, moves, board, lib, sensor_group, cycle, buffer,
                 in_buffer>>

\* A message fails.  khack returns at once; without khack the game gives the
\* frame up.
Fail ==
  /\ pc' = "failed"
  /\ UNCHANGED <<board, lib, sensor_group, sensor, cycle, in_buffer>>

-----------------------------------------------------------------------------
(* Output messages                                                         *)

OutNative ==
  /\ pc = "out" /\ conf.path = "native"
  /\ board' = [lights |-> lights, group |-> sensor]
  /\ buffer' = OutBlock(sensor, lights)
  /\ pc' = "in"
  /\ UNCHANGED <<conf, playerVars, lib, sensor_group, sensor, cycle, lights,
                 in_buffer>>

OutNativeFails ==
  /\ pc = "out" /\ conf.path = "native"
  /\ buffer' = OutBlock(sensor, lights)
  /\ Fail
  /\ UNCHANGED <<conf, playerVars, lights>>

\* The group whose message triggers send and recv.
UpdatesOn(s) == s = 0

\* Mutation: the group is taken before the buffer's is stored.
SelectedGroup_Stale(s) == sensor_group

SelectedGroup(s) == s

\* Mutation: the lights stay those of the first frame.
StoredLights_Kept == lib.lights

StoredLights == lights

\* patch/piuio.c: buffer the outputs, note the group, and for the first group
\* have ptapi send and receive, which the keyboard does not need to.
OutEmulated ==
  /\ pc = "out" /\ conf.path # "native"
  /\ buffer' = OutBlock(sensor, lights)
  /\ lib' = [lib EXCEPT !.lights = StoredLights]
  /\ sensor_group' = SelectedGroup(sensor)
  /\ pc' = IF UpdatesOn(sensor) /\ conf.path = "board" THEN "write" ELSE "in"
  /\ cycle' = 0
  /\ UNCHANGED <<conf, playerVars, board, sensor, lights, in_buffer>>

\* real/piuio.c's recv cycles the groups: write the lights with the group ...
RecvWrite ==
  /\ pc = "write"
  /\ board' = [lights |-> lib.lights, group |-> cycle]
  /\ pc' = "read"
  /\ UNCHANGED <<conf, playerVars, lib, sensor_group, sensor, cycle, lights,
                 buffer, in_buffer>>

\* ... and read the inputs of the group the board has selected.
RecvRead ==
  /\ pc = "read"
  /\ lib' = [lib EXCEPT !.pads[cycle] = world.pads[board.group],
                        !.buttons = world.buttons]
  /\ IF cycle < LastSensor THEN cycle' = cycle + 1 /\ pc' = "write"
                           ELSE UNCHANGED cycle /\ pc' = "in"
  /\ UNCHANGED <<conf, playerVars, board, sensor_group, sensor, lights,
                 buffer, in_buffer>>

RecvFails ==
  /\ pc \in {"write", "read"}
  /\ Fail
  /\ UNCHANGED <<conf, playerVars, lights, buffer>>

-----------------------------------------------------------------------------
(* Input messages                                                          *)

\* What patch/piuio.c answers with.
Buffered ==
  IF conf.path = "keyboard" THEN InBlock(world.pads[0], world.buttons)
                            ELSE InBlock(lib.pads[sensor_group], lib.buttons)

\* Inputs are active low: an output block reads as everything pressed.
ReadsAsPressed(b) == IF b.kind = "in" THEN b.buttons ELSE Buttons

\* Mutation: exit is stacked above khack, and never sees Pro's messages.
ExitsOn_AboveKhack(b) ==
  conf.exit /\ ~conf.khack /\ ReadsAsPressed(b) = Buttons

\* Mutation: either button exits.
ExitsOn_Either(b) == conf.exit /\ ReadsAsPressed(b) # {}

\* The exit handler, after the message was passed on, successfully or not.
ExitsOn(b) == conf.exit /\ ReadsAsPressed(b) = Buttons

\* Mutation: khack's loop runs once too often.
IsLast_OneMore(s) == s > LastSensor

IsLast(s) == s = LastSensor

InSucceeds ==
  /\ pc = "in"
  /\ buffer' = IF conf.path = "native"
               THEN InBlock(world.pads[board.group], world.buttons)
               ELSE Buffered
  /\ IF ExitsOn(buffer')
     THEN pc' = "exited" /\ UNCHANGED <<sensor, in_buffer>>
     ELSE /\ in_buffer' = [in_buffer EXCEPT ![sensor] = buffer'.pressed]
          /\ IF IsLast(sensor) THEN UNCHANGED sensor /\ pc' = "done"
                               ELSE sensor' = sensor + 1 /\ pc' = "out"
  /\ UNCHANGED <<conf, playerVars, board, lib, sensor_group, cycle, lights>>

\* The buffer of a message that fails is as khack left it; without khack it
\* is the game's own, and of unknown content.
InFails ==
  /\ pc = "in" /\ conf.path = "native"
  /\ buffer' \in (IF conf.khack THEN {buffer} ELSE Blocks)
  /\ IF ExitsOn(buffer')
     THEN /\ pc' = "exited"
          /\ UNCHANGED <<board, lib, sensor_group, sensor, cycle, in_buffer>>
     ELSE Fail
  /\ UNCHANGED <<conf, playerVars, lights>>

PiuioNext ==
  \/ Move \/ BeginFrame
  \/ OutNative \/ OutNativeFails \/ OutEmulated
  \/ RecvWrite \/ RecvRead \/ RecvFails
  \/ InSucceeds \/ InFails

PiuioSpec == PiuioInit /\ [][PiuioNext]_piuio_vars

-----------------------------------------------------------------------------
(* Properties                                                              *)

\* The inputs a frame ends with are those of this frame: for each group, its
\* own sensors' state at some moment since the frame began, never that of
\* another group or of an earlier frame.
FrameIsFresh ==
  pc = "done" => \A s \in Sensors : in_buffer[s] \in seen.pads[s]

\* After a frame the board shows the lights of this frame.
LightsReachBoard == (pc = "done" /\ conf.path # "keyboard") =>
                      board.lights = lights

\* Whoever holds test and service during a whole frame quits the game with
\* that frame, wherever its inputs come from.
HoldingExits == (pc = "done" /\ conf.exit) => seen.buttons # {Buttons}

\* An emulated PIUIO quits the game only if test and service were pressed
\* together in this frame.
EmulatedExitIsAsked ==
  (pc = "exited" /\ conf.path # "native") => Buttons \in seen.buttons

\* Pump Pro quits only if test and service were pressed together in this
\* frame, as the option "Enable game exit on Test + Service" says, also with
\* the real PIUIO and its failures.
ExitOnlyOnButtons ==
  (pc = "exited" /\ conf.khack) => Buttons \in seen.buttons
=============================================================================
