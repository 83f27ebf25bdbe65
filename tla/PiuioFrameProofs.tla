-------------------------- MODULE PiuioFrameProofs --------------------------
(***************************************************************************)
(* The properties of a frame, for every number of sensor groups, every set *)
(* of lights and every number of moves.                                    *)
(*                                                                         *)
(* None of them is inductive.  FrameInv says in addition what the buffers  *)
(* between board and game hold while the frame is under way: with what has *)
(* been read from the board in this frame, up to the group of the current  *)
(* transfer or message.                                                    *)
(***************************************************************************)
EXTENDS PiuioFrame, TLAPS

\* The history includes the present.
SeenInv ==
  /\ \A s \in Sensors : world.pads[s] \in seen.pads[s]
  /\ world.buttons \in seen.buttons
  /\ conf.path = "keyboard" =>
       \A s \in Sensors : world.pads[s] = world.pads[0]

\* recv's cycle runs under the message of the first group.
CycleInv ==
  /\ pc \in {"write", "read"} =>
       /\ conf.path = "board" /\ sensor = 0 /\ sensor_group = 0
       /\ lib.lights = lights
       /\ \A s \in Sensors : s < cycle => lib.pads[s] \in seen.pads[s]
  /\ pc = "read" => board.group = cycle /\ board.lights = lights
  /\ (pc = "read" \/ pc = "write") /\ cycle > 0 =>
       board.lights = lights /\ lib.buttons \in seen.buttons

\* Once the first output message is through, what the inputs are taken from
\* is of this frame, and selects the group of the message.
SourceInv ==
  LET after == pc \in {"in", "done"} \/ (pc = "out" /\ sensor > 0)
  IN /\ after /\ conf.path = "board" =>
          /\ \A s \in Sensors : lib.pads[s] \in seen.pads[s]
          /\ lib.buttons \in seen.buttons
     /\ after /\ conf.path # "keyboard" => board.lights = lights
     /\ pc = "in" /\ conf.path = "native" => board.group = sensor
     /\ pc = "in" /\ conf.path # "native" => sensor_group = sensor

\* What the messages so far have gathered for the game.
GatheredInv ==
  /\ pc \in {"out", "write", "read", "in"} =>
       \A s \in Sensors : s < sensor => in_buffer[s] \in seen.pads[s]
  /\ pc = "done" => \A s \in Sensors : in_buffer[s] \in seen.pads[s]
  /\ conf.exit /\ (pc = "done" \/ (pc \in {"out", "in"} /\ sensor > 0)) =>
       \E b \in seen.buttons : b # Buttons
  /\ pc = "exited" /\ conf.path # "native" => Buttons \in seen.buttons

FrameInv == PiuioTypeOK /\ SeenInv /\ CycleInv /\ SourceInv /\ GatheredInv

-----------------------------------------------------------------------------
(* Types                                                                   *)

LEMMA FirstSensor == 0 \in Sensors /\ LastSensor \in Sensors
BY LastSensorIsNat DEF Sensors

\* The world stays within its type, the keyboard's groups stay alike, and the
\* history takes in what the world has become.
LEMMA MoveTypes ==
  ASSUME PiuioTypeOK, Move
  PROVE  /\ world' \in Worlds
         /\ seen' \in [pads : [Sensors -> SUBSET BOOLEAN],
                       buttons : SUBSET SUBSET Buttons]
<1>1. world' \in Worlds
  <2>1. world' \in Moves
    BY DEF Move
  <2>2. CASE \E b \in SUBSET Buttons \ {world.buttons} :
                world' = [world EXCEPT !.buttons = b]
    BY <2>2 DEF PiuioTypeOK, Worlds
  <2>3. CASE \E group \in SUBSET Sensors :
                world' = [world EXCEPT !.pads =
                            [s \in Sensors |-> IF s \in group
                                               THEN ~world.pads[s]
                                               ELSE world.pads[s]]]
    <3>1. PICK group \in SUBSET Sensors :
                world' = [world EXCEPT !.pads =
                            [s \in Sensors |-> IF s \in group
                                               THEN ~world.pads[s]
                                               ELSE world.pads[s]]]
      BY <2>3
    <3>2. [s \in Sensors |-> IF s \in group THEN ~world.pads[s]
                                            ELSE world.pads[s]]
            \in [Sensors -> BOOLEAN]
      BY DEF PiuioTypeOK, Worlds
    <3> QED
      BY <3>1, <3>2 DEF PiuioTypeOK, Worlds
  <2> QED
    BY <2>1, <2>2, <2>3 DEF Moves
<1>2. [s \in Sensors |-> seen.pads[s] \cup {world'.pads[s]}]
        \in [Sensors -> SUBSET BOOLEAN]
  <2> SUFFICES ASSUME NEW s \in Sensors
               PROVE  seen.pads[s] \cup {world'.pads[s]} \in SUBSET BOOLEAN
    OBVIOUS
  <2> QED
    BY <1>1 DEF PiuioTypeOK, Worlds
<1>3. seen.buttons \cup {world'.buttons} \in SUBSET SUBSET Buttons
  BY <1>1 DEF PiuioTypeOK, Worlds
<1> QED
  BY <1>1, <1>2, <1>3 DEF Move

LEMMA TypeStep ==
  ASSUME PiuioTypeOK, [PiuioNext]_piuio_vars
  PROVE  PiuioTypeOK'
<1> USE FirstSensor
<1>1. CASE Move
  <2>1. moves' \in 0 .. MaxMoves
    BY <1>1, MaxMovesIsNat DEF Move, PiuioTypeOK
  <2>2. /\ world' \in Worlds
        /\ seen' \in [pads : [Sensors -> SUBSET BOOLEAN],
                      buttons : SUBSET SUBSET Buttons]
    BY <1>1, MoveTypes
  <2> QED
    BY <1>1, <2>1, <2>2 DEF Move, PiuioTypeOK
<1>2. CASE BeginFrame
  <2>1. seen' \in [pads : [Sensors -> SUBSET BOOLEAN],
                   buttons : SUBSET SUBSET Buttons]
    BY <1>2 DEF BeginFrame, Sees, PiuioTypeOK, Worlds
  <2> QED
    BY <1>2, <2>1 DEF BeginFrame, PiuioTypeOK
<1>3. CASE OutNative
  BY <1>3 DEF OutNative, PiuioTypeOK, Blocks, playerVars
<1>4. CASE OutNativeFails
  BY <1>4 DEF OutNativeFails, Fail, PiuioTypeOK, Blocks, playerVars
<1>5. CASE OutEmulated
  BY <1>5 DEF OutEmulated, StoredLights, SelectedGroup, PiuioTypeOK, Blocks,
              playerVars
<1>6. CASE RecvWrite
  BY <1>6 DEF RecvWrite, PiuioTypeOK, playerVars
<1>7. CASE RecvRead
  <2>1. lib' \in [pads : [Sensors -> BOOLEAN], buttons : SUBSET Buttons,
                  lights : Lights]
    BY <1>7 DEF RecvRead, PiuioTypeOK, Worlds
  <2>2. cycle' \in Sensors
    BY <1>7, LastSensorIsNat DEF RecvRead, PiuioTypeOK, Sensors
  <2> QED
    BY <1>7, <2>1, <2>2 DEF RecvRead, PiuioTypeOK, playerVars
<1>8. CASE RecvFails
  BY <1>8 DEF RecvFails, Fail, PiuioTypeOK, playerVars
<1>9. CASE InSucceeds
  <2>1. buffer' \in Blocks /\ buffer'.pressed \in BOOLEAN
    <3>1. PICK p \in BOOLEAN, b \in SUBSET Buttons : buffer' = InBlock(p, b)
      BY <1>9 DEF InSucceeds, Buffered, PiuioTypeOK, Worlds
    <3>2. InBlock(p, b) \in Blocks
      BY DEF Blocks
    <3>3. InBlock(p, b).pressed = p
      BY DEF InBlock
    <3> QED
      BY <3>1, <3>2, <3>3
  <2>2. sensor' \in Sensors
    BY <1>9, LastSensorIsNat DEF InSucceeds, IsLast, PiuioTypeOK, Sensors
  <2>3. in_buffer' \in [Sensors -> BOOLEAN]
    BY <1>9, <2>1 DEF InSucceeds, PiuioTypeOK
  <2>4. pc' \in {"out", "done", "exited"}
    BY <1>9 DEF InSucceeds
  <2> QED
    BY <1>9, <2>1, <2>2, <2>3, <2>4 DEF InSucceeds, PiuioTypeOK, playerVars
<1>10. CASE InFails
  BY <1>10 DEF InFails, Fail, PiuioTypeOK, playerVars
<1>11. CASE UNCHANGED piuio_vars
  BY <1>11 DEF piuio_vars, PiuioTypeOK
<1> QED
  BY <1>1, <1>2, <1>3, <1>4, <1>5, <1>6, <1>7, <1>8, <1>9, <1>10, <1>11
     DEF PiuioNext

-----------------------------------------------------------------------------
(* The history                                                             *)

LEMMA SeenStep ==
  ASSUME PiuioTypeOK, SeenInv, [PiuioNext]_piuio_vars
  PROVE  SeenInv'
<1> USE FirstSensor
<1>1. CASE Move
  <2>1. /\ seen'.pads = [s \in Sensors |-> seen.pads[s] \cup {world'.pads[s]}]
        /\ seen'.buttons = seen.buttons \cup {world'.buttons}
        /\ conf' = conf
    BY <1>1 DEF Move
  <2>2. world'.buttons \in seen'.buttons
        /\ \A s \in Sensors : world'.pads[s] \in seen'.pads[s]
    BY <2>1
  <2>3. ASSUME conf.path = "keyboard"
        PROVE  \A s \in Sensors : world'.pads[s] = world'.pads[0]
    <3>1. world' \in Moves
      BY <1>1 DEF Move
    <3>2. \/ \E b \in SUBSET Buttons : world' = [world EXCEPT !.buttons = b]
          \/ world' = [world EXCEPT !.pads = [s \in Sensors |->
                                                ~world.pads[s]]]
      BY <3>1, <2>3 DEF Moves
    <3> QED
      BY <3>2, <2>3 DEF SeenInv, PiuioTypeOK, Worlds
  <2> QED
    BY <2>1, <2>2, <2>3 DEF SeenInv
<1>2. CASE BeginFrame
  BY <1>2 DEF BeginFrame, Sees, SeenInv
<1>3. CASE UNCHANGED <<conf, world, seen>>
  BY <1>3 DEF SeenInv
<1> QED
  BY <1>1, <1>2, <1>3 DEF PiuioNext, piuio_vars, playerVars, OutNative, OutNativeFails,
     OutEmulated, RecvWrite, RecvRead, RecvFails, InSucceeds, InFails

\* The history only grows within a frame: what was seen stays seen.
LEMMA MoveGrows ==
  ASSUME PiuioTypeOK, Move
  PROVE  /\ \A s \in Sensors : seen.pads[s] \subseteq seen'.pads[s]
         /\ seen.buttons \subseteq seen'.buttons
BY DEF Move

-----------------------------------------------------------------------------
(* The frame                                                               *)

LEMMA CycleStep ==
  ASSUME PiuioTypeOK, SeenInv, CycleInv, [PiuioNext]_piuio_vars
  PROVE  CycleInv'
<1> USE FirstSensor
<1>1. CASE Move
  BY <1>1, MoveGrows DEF Move, CycleInv
<1>2. CASE OutEmulated
  BY <1>2 DEF OutEmulated, StoredLights, SelectedGroup, UpdatesOn, CycleInv,
              PiuioTypeOK, Sensors, playerVars
<1>3. CASE RecvWrite
  BY <1>3 DEF RecvWrite, CycleInv, playerVars
<1>4. CASE RecvRead
  <2>1. /\ lib'.pads = [lib.pads EXCEPT ![cycle] = world.pads[board.group]]
        /\ lib'.buttons = world.buttons
        /\ lib'.lights = lib.lights
    BY <1>4 DEF RecvRead, PiuioTypeOK
  <2>2. /\ board.group = cycle /\ board.lights = lights
        /\ \A s \in Sensors : s < cycle => lib.pads[s] \in seen.pads[s]
        /\ conf.path = "board" /\ sensor = 0 /\ sensor_group = 0
        /\ lib.lights = lights
    BY <1>4 DEF RecvRead, CycleInv
  <2>3. UNCHANGED <<conf, world, seen, board, sensor, sensor_group, lights>>
    BY <1>4 DEF RecvRead, playerVars
  <2>4. \A s \in Sensors : s < cycle + 1 => lib'.pads[s] \in seen'.pads[s]
    BY <2>1, <2>2, <2>3 DEF SeenInv, PiuioTypeOK, Sensors
  <2>5. (pc' = "write" /\ cycle' = cycle + 1) \/ pc' = "in"
    BY <1>4 DEF RecvRead
  <2>6. lib'.buttons \in seen'.buttons
    BY <2>1, <2>3 DEF SeenInv
  <2>7. CASE pc' = "in"
    BY <2>7 DEF CycleInv
  <2>8. CASE pc' = "write" /\ cycle' = cycle + 1
    BY <2>1, <2>2, <2>3, <2>4, <2>6, <2>8 DEF CycleInv
  <2> QED
    BY <2>5, <2>7, <2>8
<1>5. CASE BeginFrame \/ OutNative \/ OutNativeFails \/ RecvFails
             \/ InSucceeds \/ InFails
  <2>1. pc' \notin {"write", "read"}
    BY <1>5 DEF BeginFrame, OutNative, OutNativeFails, RecvFails, InSucceeds,
                InFails, Fail
  <2> QED
    BY <2>1 DEF CycleInv
<1>6. CASE UNCHANGED piuio_vars
  BY <1>6 DEF piuio_vars, CycleInv
<1> QED
  BY <1>1, <1>2, <1>3, <1>4, <1>5, <1>6 DEF PiuioNext

\* The last transfer of the cycle completes what the input messages read.
LEMMA CycleCompletes ==
  ASSUME PiuioTypeOK, SeenInv, CycleInv, RecvRead, pc' = "in"
  PROVE  /\ \A s \in Sensors : lib'.pads[s] \in seen'.pads[s]
         /\ lib'.buttons \in seen'.buttons
         /\ board'.lights = lights'
         /\ conf'.path = "board" /\ sensor_group' = sensor'
<1>1. cycle = LastSensor
  BY LastSensorIsNat DEF RecvRead, PiuioTypeOK, Sensors
<1>2. /\ board.group = cycle /\ board.lights = lights
      /\ \A s \in Sensors : s < cycle => lib.pads[s] \in seen.pads[s]
      /\ conf.path = "board" /\ sensor = 0 /\ sensor_group = 0
  BY DEF RecvRead, CycleInv
<1>3. /\ lib'.pads = [lib.pads EXCEPT ![cycle] = world.pads[board.group]]
      /\ lib'.buttons = world.buttons
  BY DEF RecvRead, PiuioTypeOK
<1>4. UNCHANGED <<conf, seen, board, sensor, sensor_group, lights>>
  BY DEF RecvRead, playerVars
<1>5. \A s \in Sensors : s < cycle \/ s = cycle
  BY <1>1, LastSensorIsNat DEF Sensors
<1>6. \A s \in Sensors : lib'.pads[s] \in seen'.pads[s]
  BY <1>2, <1>3, <1>4, <1>5 DEF SeenInv, PiuioTypeOK
<1> QED
  BY <1>2, <1>3, <1>4, <1>6 DEF SeenInv

LEMMA SourceStep ==
  ASSUME PiuioTypeOK, SeenInv, CycleInv, SourceInv, [PiuioNext]_piuio_vars
  PROVE  SourceInv'
<1> USE FirstSensor
<1>1. CASE Move
  BY <1>1, MoveGrows DEF Move, SourceInv
<1>2. CASE BeginFrame
  BY <1>2 DEF BeginFrame, SourceInv
<1>3. CASE OutNative
  BY <1>3 DEF OutNative, SourceInv, PiuioTypeOK
<1>4. CASE OutEmulated
  <2>1. /\ sensor_group' = sensor' /\ sensor' = sensor
        /\ lib'.pads = lib.pads /\ lib'.buttons = lib.buttons
        /\ UNCHANGED <<conf, seen, board, lights>>
        /\ pc = "out" /\ pc' \in {"write", "in"}
    BY <1>4 DEF OutEmulated, SelectedGroup, playerVars, PiuioTypeOK
  <2>2. pc' = "in" => sensor > 0 \/ conf.path # "board"
    BY <1>4 DEF OutEmulated, UpdatesOn, PiuioTypeOK, Sensors
  <2>3. conf.path \in {"board", "keyboard"}
    BY <1>4, PathsAreKnown DEF OutEmulated, PiuioTypeOK
  <2> QED
    BY <2>1, <2>2, <2>3 DEF SourceInv
<1>5. CASE RecvWrite
  BY <1>5 DEF RecvWrite, SourceInv
<1>6. CASE RecvRead
  <2>1. pc' \in {"write", "in"}
    BY <1>6 DEF RecvRead
  <2>2. CASE pc' = "write"
    BY <2>2 DEF SourceInv
  <2>3. CASE pc' = "in"
    BY <1>6, <2>3, CycleCompletes DEF SourceInv
  <2> QED
    BY <2>1, <2>2, <2>3
<1>7. CASE InSucceeds
  <2>1. UNCHANGED <<conf, seen, lib, board, lights>> /\ pc = "in"
    BY <1>7 DEF InSucceeds, playerVars
  <2>2. pc' \in {"out", "done", "exited"}
    BY <1>7 DEF InSucceeds
  <2> QED
    BY <2>1, <2>2 DEF SourceInv
<1>8. CASE OutNativeFails \/ RecvFails \/ InFails
  <2>1. pc' \in {"failed", "exited"}
    BY <1>8 DEF OutNativeFails, RecvFails, InFails, Fail
  <2> QED
    BY <2>1 DEF SourceInv
<1>9. CASE UNCHANGED piuio_vars
  BY <1>9 DEF piuio_vars, SourceInv
<1> QED
  BY <1>1, <1>2, <1>3, <1>4, <1>5, <1>6, <1>7, <1>8, <1>9 DEF PiuioNext

\* An input message that succeeds answers with the state of its own group, and
\* of the buttons, at some moment of the frame.
LEMMA AnswerIsSeen ==
  ASSUME PiuioTypeOK, SeenInv, SourceInv, InSucceeds
  PROVE  /\ buffer'.pressed \in seen.pads[sensor]
         /\ buffer'.buttons \in seen.buttons
         /\ buffer'.kind = "in"
<1> USE FirstSensor
<1>1. pc = "in" /\ sensor \in Sensors
  BY DEF InSucceeds, PiuioTypeOK
<1>2. CASE conf.path = "native"
  <2>1. buffer' = InBlock(world.pads[sensor], world.buttons)
    BY <1>1, <1>2 DEF InSucceeds, SourceInv
  <2> QED
    BY <1>1, <2>1 DEF InBlock, SeenInv
<1>3. CASE conf.path = "keyboard"
  <2>1. buffer' = InBlock(world.pads[0], world.buttons)
    BY <1>3 DEF InSucceeds, Buffered
  <2> QED
    BY <1>1, <1>3, <2>1 DEF InBlock, SeenInv
<1>4. CASE conf.path = "board"
  <2>1. buffer' = InBlock(lib.pads[sensor], lib.buttons)
    BY <1>1, <1>4 DEF InSucceeds, Buffered, SourceInv
  <2>2. lib.pads[sensor] \in seen.pads[sensor] /\ lib.buttons \in seen.buttons
    BY <1>1, <1>4 DEF SourceInv
  <2> QED
    BY <2>1, <2>2 DEF InBlock
<1> QED
  BY <1>2, <1>3, <1>4, PathsAreKnown DEF PiuioTypeOK

LEMMA GatheredStep ==
  ASSUME PiuioTypeOK, SeenInv, CycleInv, SourceInv, GatheredInv, [PiuioNext]_piuio_vars
  PROVE  GatheredInv'
<1> USE FirstSensor
<1>1. CASE Move
  BY <1>1, MoveGrows DEF Move, GatheredInv
<1>2. CASE BeginFrame
  BY <1>2 DEF BeginFrame, GatheredInv, Sensors
<1>3. CASE OutNative \/ OutEmulated \/ RecvWrite \/ RecvRead
  <2>1. /\ UNCHANGED <<conf, seen, sensor, in_buffer>>
        /\ pc \in {"out", "write", "read"} /\ pc' \in {"write", "read", "in"}
    BY <1>3 DEF OutNative, OutEmulated, RecvWrite, RecvRead, playerVars
  <2>2. pc' = "in" /\ sensor > 0 => pc = "out"
    BY <1>3 DEF OutNative, OutEmulated, RecvWrite, RecvRead, CycleInv
  <2> QED
    BY <2>1, <2>2 DEF GatheredInv
<1>4. CASE InSucceeds
  <2>1. UNCHANGED <<conf, seen>> /\ pc = "in"
    BY <1>4 DEF InSucceeds, playerVars
  <2>2. CASE ExitsOn(buffer')
    <3>1. pc' = "exited" /\ Buttons \in seen.buttons
      BY <1>4, <2>2, AnswerIsSeen DEF InSucceeds, ExitsOn, ReadsAsPressed
    <3> QED
      BY <2>1, <3>1 DEF GatheredInv
  <2>3. CASE ~ExitsOn(buffer')
    <3>1. in_buffer' = [in_buffer EXCEPT ![sensor] = buffer'.pressed]
      BY <1>4, <2>3 DEF InSucceeds
    <3>2. \A s \in Sensors : s < sensor + 1 =>
                               in_buffer'[s] \in seen'.pads[s]
      BY <1>4, <2>1, <3>1, AnswerIsSeen DEF GatheredInv, PiuioTypeOK, Sensors
    <3>3. conf.exit => \E b \in seen.buttons : b # Buttons
      BY <1>4, <2>3, AnswerIsSeen DEF ExitsOn, ReadsAsPressed
    <3>4. \/ pc' = "done" /\ sensor = LastSensor
          \/ pc' = "out" /\ sensor' = sensor + 1
      BY <1>4, <2>3 DEF InSucceeds, IsLast
    <3>5. CASE pc' = "done" /\ sensor = LastSensor
      <4>1. \A s \in Sensors : s < sensor + 1
        BY <3>5, LastSensorIsNat DEF Sensors
      <4> QED
        BY <2>1, <3>2, <3>3, <3>5, <4>1 DEF GatheredInv
    <3>6. CASE pc' = "out" /\ sensor' = sensor + 1
      BY <2>1, <3>2, <3>3, <3>6 DEF GatheredInv
    <3> QED
      BY <3>4, <3>5, <3>6
  <2> QED
    BY <2>2, <2>3
<1>5. CASE OutNativeFails \/ RecvFails
  <2>1. pc' = "failed"
    BY <1>5 DEF OutNativeFails, RecvFails, Fail
  <2> QED
    BY <2>1 DEF GatheredInv
<1>6. CASE InFails
  <2>1. pc' \in {"failed", "exited"} /\ conf' = conf /\ conf.path = "native"
    BY <1>6 DEF InFails, Fail
  <2> QED
    BY <2>1 DEF GatheredInv
<1>7. CASE UNCHANGED piuio_vars
  BY <1>7 DEF piuio_vars, GatheredInv
<1> QED
  BY <1>1, <1>2, <1>3, <1>4, <1>5, <1>6, <1>7 DEF PiuioNext

-----------------------------------------------------------------------------
(* Theorems                                                                *)

LEMMA FrameInit == PiuioInit => FrameInv
<1> SUFFICES ASSUME PiuioInit
             PROVE  FrameInv
  OBVIOUS
<1> USE FirstSensor DEF PiuioInit
<1>1. seen.pads = [s \in Sensors |-> {FALSE}] /\ seen.buttons = {{}}
  BY DEF Sees
<1>2. seen \in [pads : [Sensors -> SUBSET BOOLEAN],
                buttons : SUBSET SUBSET Buttons]
  BY DEF Sees
<1>3. buffer \in Blocks
  BY DEF Blocks
<1>4. world \in Worlds
  BY DEF Worlds
<1>5. PiuioTypeOK
  <2>1. PICK l \in Lights :
               /\ board = [lights |-> l, group |-> 0]
               /\ lib = [pads |-> [s \in Sensors |-> FALSE], buttons |-> {},
                         lights |-> l]
               /\ lights = l
    OBVIOUS
  <2>2. /\ board \in [lights : Lights, group : Sensors]
        /\ lib \in [pads : [Sensors -> BOOLEAN], buttons : SUBSET Buttons,
                    lights : Lights]
        /\ lights \in Lights
    BY <2>1
  <2>3. moves \in 0 .. MaxMoves
    BY MaxMovesIsNat
  <2> QED
    BY <1>2, <1>3, <1>4, <2>2, <2>3 DEF PiuioTypeOK
<1>6. SeenInv
  BY <1>1 DEF SeenInv
<1>7. CycleInv /\ SourceInv /\ GatheredInv
  BY DEF CycleInv, SourceInv, GatheredInv
<1> QED
  BY <1>5, <1>6, <1>7 DEF FrameInv

LEMMA FrameAlways == PiuioSpec => []FrameInv
<1>1. FrameInv /\ [PiuioNext]_piuio_vars => FrameInv'
  BY TypeStep, SeenStep, CycleStep, SourceStep, GatheredStep DEF FrameInv
<1> QED
  BY FrameInit, <1>1, PTL DEF PiuioSpec

\* The types of the frame are invariant.
THEOREM FrameTypes == PiuioSpec => []PiuioTypeOK
<1>1. FrameInv => PiuioTypeOK
  BY DEF FrameInv
<1> QED
  BY <1>1, FrameAlways, PTL

\* Every completed frame is made of inputs of its own, each of the group it is
\* reported for, whether they come from khack's split call or from single
\* messages, and over the real board, real/piuio.c or the keyboard.
THEOREM CompletedFramesAreFresh == PiuioSpec => []FrameIsFresh
<1>1. FrameInv => FrameIsFresh
  BY DEF FrameInv, GatheredInv, FrameIsFresh
<1> QED
  BY <1>1, FrameAlways, PTL

\* A completed frame has brought its lights to the board.
THEOREM FramesShowTheirLights == PiuioSpec => []LightsReachBoard
<1>1. FrameInv => LightsReachBoard
  BY DEF FrameInv, SourceInv, LightsReachBoard
<1> QED
  BY <1>1, FrameAlways, PTL

\* No frame completes while test and service are held throughout and the exit
\* handler is on.
THEOREM HoldingAlwaysExits == PiuioSpec => []HoldingExits
<1>1. FrameInv => HoldingExits
  BY DEF FrameInv, GatheredInv, HoldingExits
<1> QED
  BY <1>1, FrameAlways, PTL

\* An emulated PIUIO does not quit the game unasked.
THEOREM EmulatedExitsAreAsked == PiuioSpec => []EmulatedExitIsAsked
<1>1. FrameInv => EmulatedExitIsAsked
  BY DEF FrameInv, GatheredInv, EmulatedExitIsAsked
<1> QED
  BY <1>1, FrameAlways, PTL
=============================================================================
