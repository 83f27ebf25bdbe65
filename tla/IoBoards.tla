------------------------------- MODULE IoBoards -------------------------------
(***************************************************************************)
(* The emulated PIUIO and PIUBTN over real boards, bit by bit: the game    *)
(* exchanges blocks with patch/piuio.c and patch/piubtn.c, these exchange  *)
(* lights and inputs with a library, and the library exchanges blocks with *)
(* its board: the PIUIO and the PIUBTN (real), or the LXIO, which is both, *)
(* whose library two threads of the game may poll (lxio).                  *)
(*                                                                         *)
(* A block is the set of its bits that are active, <<byte, bit>>: all the  *)
(* inputs are inverted on the wire, and the blocks read by the game are    *)
(* given as it takes them, inverted again.                                 *)
(***************************************************************************)
EXTENDS Integers

CONSTANTS
  Failed,         \* no block, after an error
  LightBlocks,    \* [board -> the blocks that the game sends to it]
  Presses         \* what the player may hold down at a time, sets of inputs

VARIABLES
  impl,           \* the library
  clients,        \* the boards that the game polls, each in a thread
  pressed,        \* the inputs that are held down
  unplugged,      \* the boards are gone
  sensor_group,   \* of patch/piuio.c
  out,            \* the lights that are set, by board
  inputs,         \* the inputs that the library has read
  lxio_light_state_buffer,  \* and the game's blocks it was made from
  lxio_btn_state_buffer,
  step,           \* where each thread is in a call of the lxio library
  overlap,        \* the threads whose call another one overlaps
  lit,            \* the lights that each board had last, and the game's block
  game_out,       \* the block of lights that the game sent last
  game_in,        \* the block of inputs it was given last, or Failed
  seen,           \* what was held when the board was read last, or Failed
  given_for       \* what was seen for the block of inputs in game_in

wire == <<impl, clients, pressed, unplugged>>
lxio_buffers == <<lxio_light_state_buffer, lxio_btn_state_buffer>>
lxio == <<lxio_buffers, step, overlap>>
vars_boards == <<wire, sensor_group, out, inputs, lxio, lit, game_out, game_in, seen,
                 given_for>>

BothBoards == {"piuio", "piubtn"}
Players == {0, 1}
Groups == 0 .. 3
Singles(S) == {<<s>> : s \in S}

(************************** the layouts of the code ************************)
panel == [lu |-> 0, ru |-> 1, cn |-> 2, ld |-> 3, rd |-> 4]
cab == [bass |-> <<1, 2>>, halo_r2 |-> <<2, 7>>, halo_r1 |-> <<3, 0>>,
        halo_l2 |-> <<3, 1>>, halo_l1 |-> <<3, 2>>]
sys == [test |-> <<1, 1>>, coin |-> <<1, 2>>, service |-> <<1, 6>>, clear |-> <<1, 7>>,
        coin2 |-> <<3, 2>>]
btn_in == [back |-> 0, left |-> 1, right |-> 2, start |-> 3]
btn_out == [start |-> 0, right |-> 1, left |-> 2, back |-> 3]
lxio_btn == [start |-> {2}, left |-> {3}, right |-> {4}, back |-> {0, 1}]

PadLights == Players \X (DOMAIN panel)
Sensors == Players \X (DOMAIN panel) \X Groups
Btns == Players \X (DOMAIN btn_in)

(********************* patch/piuio.c, patch/piubtn.c ***********************)
_patch_piuio_read_outputs_from_buffer(block) ==
  {n \in PadLights : <<2 * n[1], 2 + panel[n[2]]>> \in block} \cup
  {<<c>> : c \in {d \in DOMAIN cab : cab[d] \in block}}
_patch_piuio_read_inputs_to_buffer(names, g) ==
  {<<2 * n[1], panel[n[2]]>> : n \in {m \in names \cap Sensors : m[3] = g}} \cup
  {sys[s[1]] : s \in names \cap Singles(DOMAIN sys)}
_patch_piubtn_process_outputs(block) ==
  {n \in Btns : <<0, 4 * (1 - n[1]) + btn_out[n[2]]>> \in block}
_patch_piubtn_process_inputs(names) ==
  {<<0, 4 * n[1] + btn_in[n[2]]>> : n \in names \cap Btns}

(********************** the libraries' side of the boards ******************)
\* The PIUIO is told which of its sensors to read next.
Select(g) == {b \in {<<0, 0>>, <<2, 0>>} : g % 2 = 1} \cup {b \in {<<0, 1>>, <<2, 1>>} : g > 1}
piuio_lights(names) ==
  {<<2 * n[1], 2 + panel[n[2]]>> : n \in names \cap PadLights} \cup
  {cab[c[1]] : c \in names \cap Singles(DOMAIN cab)}
piuio_drv_piuio_copy_outputs(names, g) == Select(g) \cup piuio_lights(names)
\* The second coin is not taken from the block.
piuio_drv_piuio_copy_inputs(block, g) ==
  {n \in Sensors : n[3] = g /\ <<2 * n[1], panel[n[2]]>> \in block} \cup
  {s \in Singles(DOMAIN sys \ {"coin2"}) : sys[s[1]] \in block}
piubtn_drv_piubtn_copy_outputs(names) ==
  {<<0, 4 * n[1] + btn_out[n[2]]>> : n \in names \cap Btns}
piubtn_drv_piubtn_copy_inputs(block) == {n \in Btns : <<0, 4 * n[1] + btn_in[n[2]]>> \in block}

\* One halogen is not passed on.
convert_output_to_lxio ==
  piuio_lights(out["piuio"] \ {<<"halo_r2">>}) \cup
  UNION {{<<4 + n[1], b>> : b \in lxio_btn[n[2]]} : n \in out["piubtn"]}
\* Mutation: the bytes are those of the PIUIO.
lxio_sensor_Piuio(i, j) == 2 * i + j
lxio_sensor(i, j) == 4 * i + j
convert_input_to_piuio(block) ==
  {n \in Sensors : <<lxio_sensor(n[1], n[3]), panel[n[2]]>> \in block} \cup
  {s \in Singles({"test", "coin", "service", "clear"}) : <<8, sys[s[1]][2]>> \in block} \cup
  {s \in Singles({"coin2"}) : <<9, sys[s[1]][2]>> \in block}
lxio_get_input(block) ==
  {n \in Btns : \E b \in lxio_btn[n[2]] : <<10 + n[1], b>> \in block}

(******************************** the boards *******************************)
\* The boards' own layouts of what is pressed, which a game that talks to one
\* itself would read.
hw_panel == <<"lu", "ru", "cn", "ld", "rd">>
hw_btn == <<"back", "left", "right", "start">>
hw_sys == [test |-> <<1, 1>>, coin |-> <<1, 2>>, service |-> <<1, 6>>, clear |-> <<1, 7>>,
           coin2 |-> <<3, 2>>]
PiuioBlock(now, g) ==
  {b \in {0, 2} \X (0 .. 4) : <<b[1] \div 2, hw_panel[b[2] + 1], g>> \in now} \cup
  {hw_sys[s[1]] : s \in now \cap Singles(DOMAIN hw_sys)}
PiubtnBlock(now) ==
  {<<0, b>> : b \in {c \in 0 .. 7 : <<c \div 4, hw_btn[(c % 4) + 1]>> \in now}}
hw_lxio == [start |-> {2}, left |-> {3}, right |-> {4}, back |-> {0, 1}]
LxioBits == (0 .. 15) \X (0 .. 7)
LxioBlock(now) ==
  {b \in (0 .. 7) \X (0 .. 4) : <<b[1] \div 4, hw_panel[b[2] + 1], b[1] % 4>> \in now} \cup
  {<<IF s = <<"coin2">> THEN 9 ELSE 8, hw_sys[s[1]][2]>> :
     s \in now \cap Singles(DOMAIN hw_sys)} \cup
  UNION {{<<10 + n[1], b>> : b \in hw_lxio[n[2]]} : n \in now \cap Btns}
Inverted(block) == LxioBits \ block

(**************************** the real libraries ***************************)
game_boards == <<game_out, game_in, given_for>>
Lit(c, lights) == lit' = [lit EXCEPT ![c] = [block |-> lights, sent |-> game_out'[c]]]
Given(c, block) ==
  /\ game_in' = [game_in EXCEPT ![c] = block]
  /\ given_for' = [given_for EXCEPT ![c] = [held |-> IF block = Failed THEN Failed ELSE seen'[c],
                                            group |-> sensor_group']]

\* All the groups are cycled; a transfer that fails (of group failing) ends the
\* cycle, and what was read before it is kept.
PiuioUpdate(failing, lights) ==
  LET known(n) == n \in Singles(DOMAIN sys) \/ (n \in Sensors /\ n[3] < failing) IN
  /\ IF failing = 0
     THEN UNCHANGED <<lit, inputs>>
     ELSE /\ Lit("piuio", piuio_drv_piuio_copy_outputs(lights, failing - 1))
          /\ inputs' = {n \in inputs : ~known(n)} \cup
               UNION {piuio_drv_piuio_copy_inputs(PiuioBlock(pressed, g), g) :
                        g \in 0 .. failing - 1}
  /\ seen' = [seen EXCEPT !.piuio = IF failing < 4 THEN Failed ELSE pressed]

\* A board that is gone answers no control transfer; a transfer may fail otherwise.
io_usb_control_transfer(fails) == fails \/ ~unplugged
piuio_drv_device_write(failing) == io_usb_control_transfer(failing < 4)
piubtn_drv_device_read(fails) == io_usb_control_transfer(fails)
piubtn_drv_device_write(fails) == io_usb_control_transfer(fails)

ptapi_io_piubtn_send(lights, fails) ==
  IF fails THEN UNCHANGED lit ELSE Lit("piubtn", piubtn_drv_piubtn_copy_outputs(lights))

ptapi_io_piubtn_recv(fails) ==
  /\ seen' = [seen EXCEPT !.piubtn = IF fails THEN Failed ELSE pressed]
  /\ IF fails THEN UNCHANGED inputs
     ELSE inputs' = (inputs \ Btns) \cup piubtn_drv_piubtn_copy_inputs(PiubtnBlock(pressed))

(********************************* the game ********************************)
Ready(c) == c \in clients /\ step[c] = "idle"
Start(c) ==
  /\ step' = [step EXCEPT ![c] = "convert"]
  /\ overlap' = IF \E d \in BothBoards \ {c} : step[d] # "idle" THEN BothBoards ELSE overlap \ {c}

\* A message with lights to the PIUIO: the first group updates the library.
PiuioOut(block, g, failing) ==
  LET lights == _patch_piuio_read_outputs_from_buffer(block) IN
  /\ Ready("piuio")
  /\ piuio_drv_device_write(failing)
  /\ out' = [out EXCEPT !.piuio = lights]
  /\ sensor_group' = g
  /\ game_out' = [game_out EXCEPT !.piuio = block]
  /\ UNCHANGED <<wire, lxio_buffers>>
  /\ IF g > 0 THEN UNCHANGED <<step, overlap, inputs, lit, game_in, given_for, seen>>
     ELSE IF impl = "real"
     THEN /\ PiuioUpdate(failing, lights)
          /\ IF failing < 4 THEN Given("piuio", Failed) ELSE UNCHANGED <<game_in, given_for>>
          /\ UNCHANGED <<step, overlap>>
     ELSE /\ Start("piuio")
          /\ UNCHANGED <<inputs, lit, game_in, given_for, seen>>

PiuioIn ==
  /\ Ready("piuio")
  /\ UNCHANGED <<wire, lxio, sensor_group, out, inputs, lit, game_out, seen>>
  /\ Given("piuio", _patch_piuio_read_inputs_to_buffer(inputs, sensor_group))

\* A message with lights to the PIUBTN.  The LXIO has them with the next update.
PiubtnOut(block, fails) ==
  LET lights == _patch_piubtn_process_outputs(block) IN
  /\ Ready("piubtn")
  /\ piubtn_drv_device_write(fails)
  /\ out' = [out EXCEPT !.piubtn = lights]
  /\ game_out' = [game_out EXCEPT !.piubtn = block]
  /\ IF impl = "lxio" THEN UNCHANGED lit ELSE ptapi_io_piubtn_send(lights, fails)
  /\ UNCHANGED <<wire, lxio, sensor_group, inputs, game_in, given_for, seen>>

PiubtnIn(fails) ==
  /\ Ready("piubtn")
  /\ piubtn_drv_device_read(fails)
  /\ UNCHANGED <<wire, sensor_group, out, lit, game_out, lxio_buffers>>
  /\ IF impl = "lxio"
     THEN /\ Start("piubtn")
          /\ UNCHANGED <<inputs, game_in, given_for, seen>>
     ELSE /\ UNCHANGED <<step, overlap>>
          /\ ptapi_io_piubtn_recv(fails)
          /\ Given("piubtn", IF fails THEN Failed ELSE _patch_piubtn_process_inputs(inputs'))

(**************************** the lxio library *****************************)
\* ptapi_io_piuio_recv, which ptapi_io_piubtn_recv calls too: both threads go
\* through it on the same buffers.
Step(c, from, to) ==
  /\ step[c] = from
  /\ step' = [step EXCEPT ![c] = to]
  /\ UNCHANGED <<wire, sensor_group, out, game_out, overlap>>
Of(c, what) == IF c \in overlap THEN Failed ELSE what

Convert(c) ==
  /\ Step(c, "convert", "write")
  /\ lxio_light_state_buffer' = [block |-> convert_output_to_lxio, sent |-> game_out]
  /\ UNCHANGED <<lxio_btn_state_buffer, inputs, lit, game_in, given_for, seen>>

\* The result of recv: an error is passed on by the PIUIO's handler, while the
\* PIUBTN's recv has none, and its inputs are taken from the buffer as it is.
Returns(c, ok) ==
  IF c = "piubtn"
  THEN Given(c, _patch_piubtn_process_inputs(lxio_get_input(lxio_btn_state_buffer)))
  ELSE IF ok THEN UNCHANGED <<game_in, given_for>> ELSE Given(c, Failed)

Fails(c, from) ==
  /\ Step(c, from, "idle")
  /\ seen' = [seen EXCEPT ![c] = Failed]
  /\ Returns(c, FALSE)
  /\ UNCHANGED <<lxio_buffers, inputs, lit>>

\* A transfer to a board that is gone sets no length: what is returned is what
\* the stack held, possibly the length that was asked for.  Only this tells.
io_usb_interrupt_transfer == ~unplugged
lxio_drv_device_write(c) ==
  \/ /\ Step(c, "write", "read")
     /\ IF ~io_usb_interrupt_transfer THEN UNCHANGED lit
        ELSE LET lights == lxio_light_state_buffer IN
             lit' = [d \in BothBoards |-> Of(c, [block |-> lights.block, sent |-> lights.sent[d]])]
     /\ UNCHANGED <<lxio_buffers, inputs, game_in, given_for, seen>>
  \/ Fails(c, "write")
lxio_drv_device_read(c) ==
  \/ /\ Step(c, "read", "invert")
     /\ lxio_btn_state_buffer' = IF io_usb_interrupt_transfer THEN Inverted(LxioBlock(pressed))
                                  ELSE lxio_btn_state_buffer
     /\ seen' = [seen EXCEPT ![c] = IF io_usb_interrupt_transfer THEN pressed ELSE Failed]
     /\ UNCHANGED <<lxio_light_state_buffer, inputs, lit, game_in, given_for>>
  \/ Fails(c, "read")

Invert(c) ==
  /\ Step(c, "invert", "inputs")
  /\ lxio_btn_state_buffer' = Inverted(lxio_btn_state_buffer)
  /\ UNCHANGED <<lxio_light_state_buffer, inputs, lit, game_in, given_for, seen>>

ConvertInput(c) ==
  /\ Step(c, "inputs", "idle")
  /\ UNCHANGED <<lxio_buffers, lit>>
  /\ seen' = [d \in BothBoards |-> IF d \in {c, "piuio"} THEN Of(c, seen[c]) ELSE seen[d]]
  /\ inputs' = convert_input_to_piuio(lxio_btn_state_buffer)
  /\ Returns(c, TRUE)

(******************************** the player *******************************)
MovePlayer ==
  /\ ~unplugged
  /\ pressed' \in Presses \ {pressed}
  /\ UNCHANGED <<impl, clients, unplugged, sensor_group, out, inputs, lxio, lit, game_boards, seen>>
UnplugBoards ==
  /\ ~unplugged /\ unplugged' = TRUE
  /\ UNCHANGED <<impl, clients, pressed, sensor_group, out, inputs, lxio, lit, game_boards, seen>>

BoardsInit ==
  /\ impl \in {"real", "lxio"} /\ clients \in SUBSET BothBoards
  /\ pressed \in Presses /\ unplugged = FALSE /\ sensor_group = 0
  /\ out = [c \in BothBoards |-> {}] /\ game_out = out /\ inputs = {}
  /\ lxio_light_state_buffer = [block |-> {}, sent |-> game_out]
  /\ lxio_btn_state_buffer = {} /\ overlap = {}
  /\ step = [c \in BothBoards |-> "idle"]
  /\ lit = [c \in BothBoards |-> Failed]
  /\ game_in = [c \in BothBoards |-> Failed] /\ seen = [c \in BothBoards |-> Failed]
  /\ given_for = [c \in BothBoards |-> [held |-> Failed, group |-> 0]]
LxioStep(c) ==
  \/ Convert(c) \/ lxio_drv_device_write(c) \/ lxio_drv_device_read(c)
  \/ Invert(c) \/ ConvertInput(c)
BoardsNext ==
  \/ \E block \in LightBlocks["piuio"], g \in Groups, failing \in 0 .. 4 : PiuioOut(block, g, failing)
  \/ PiuioIn
  \/ \E block \in LightBlocks["piubtn"], fails \in BOOLEAN : PiubtnOut(block, fails)
  \/ \E fails \in BOOLEAN : PiubtnIn(fails)
  \/ \E c \in clients : LxioStep(c)
  \/ MovePlayer \/ UnplugBoards
BoardsSpec == BoardsInit /\ [][BoardsNext]_vars_boards

(******************************** properties *******************************)
\* What the boards' own bits are for the lights the game sent: the bits that
\* select a sensor are the library's, and the LXIO has one halogen less.
PiuioLightBits(block) ==
  {b \in block : b \in {0, 2} \X (2 .. 6) \/ b \in {<<1, 2>>} \cup ({3} \X (0 .. 2))} \cup
  {b \in block : impl = "real" /\ b = <<2, 7>>}
LxioPlayers(block) ==
  UNION {{<<4 + n[1], b>> : b \in hw_lxio[n[2]]} :
    n \in {m \in Btns : <<0, 4 * (1 - m[1]) + btn_out[m[2]]>> \in block}}

\* Whatever the library, a game that is given inputs after a round that succeeded
\* has, bit by bit, what the board it asked for would have told it when it was
\* read, except the second coin of the PIUIO, and the lights of a round are those
\* that the game sent before it.  Of an LXIO that two threads poll, it is claimed
\* of the rounds that do not overlap; of the lights of the PIUBTN, if it is an LXIO.
BoardsAgree ==
  /\ \A c \in clients : LET for == given_for[c] IN for.held # Failed =>
       IF c = "piubtn" THEN game_in[c] = PiubtnBlock(for.held)
       ELSE game_in[c] = PiuioBlock({s \in for.held : impl = "real" => s # <<"coin2">>}, for.group)
  /\ "piuio" \in clients /\ lit.piuio # Failed =>
       PiuioLightBits(lit.piuio.block) = PiuioLightBits(lit.piuio.sent)
  /\ "piubtn" \in clients /\ impl = "lxio" /\ lit.piubtn # Failed =>
       lit.piubtn.block \cap ({4, 5} \X (0 .. 7)) = LxioPlayers(lit.piubtn.sent)
=============================================================================
