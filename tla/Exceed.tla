-------------------------------- MODULE Exceed --------------------------------
(***************************************************************************)
(* The hook of Exceed, a game whose board and eeprom are functions of the  *)
(* game that are patched in memory: the functions that poll a library of   *)
(* the PIUIO api instead of the board (hook/exc/io.c), and the eeprom that *)
(* is kept in a file (hook/exc/eeprom.c), rewritten in place with every    *)
(* write of the game.                                                      *)
(***************************************************************************)
EXTENDS Integers, Sequences, SequencesExt

CONSTANTS
  Absent,          \* no file
  ExcPresses,      \* what the player may hold down at a time, sets of inputs
  EEPROM_SIZE,     \* sizeof(exchook_eeprom_buffer)
  EepromBytes,     \* the bytes that the game writes
  OtherFiles       \* eeprom files from elsewhere, of any length

ASSUME SizeIsNat == EEPROM_SIZE \in Nat
ASSUME FilesAreBytes == OtherFiles \subseteq Seq(EepromBytes)

VARIABLES
  exc_held,        \* the inputs that are held down
  exc_lib,         \* the inputs as the library has read them last
  exchook_io_sensores,
  stat, stat_down, stat_up,              \* the words of the game
  stat_prev,       \* exchook_io_game_input_stat_prev
  out_pad, out_cab,                      \* the lights the game has set
  lib_pad, lib_cab,                      \* the lights the library has
  exc_exit,        \* exchook_io_exit_on_service_test
  exc_pc,          \* where the game is in a frame
  sensed, sensed_before,                 \* what the last two frames were given
  eeprom_file,     \* the file, Absent before the first start
  eeprom_buffer,   \* exchook_eeprom_buffer
  eeprom_pc,       \* where the process is
  written,         \* what the eeprom was last told to hold
  torn             \* the last save or load was cut short

exc_words == <<stat, stat_down, stat_up, stat_prev>>
exc_lights == <<out_pad, out_cab, lib_pad, lib_cab>>
exc_io == <<exc_held, exc_lib, exchook_io_sensores, exc_words, exc_lights, exc_exit, exc_pc,
            sensed, sensed_before>>
eeprom == <<eeprom_file, eeprom_buffer, eeprom_pc, written, torn>>
vars_exceed == <<exc_io, eeprom>>

ExcPanels == {0, 1} \X {"lu", "ru", "cn", "ld", "rd"}
ExcSensors == {0, 1} \X {"lu", "ru", "cn", "ld", "rd"} \X (0 .. 3)
ExcSystem == {<<"test">>, <<"service">>, <<"clear">>, <<"coin">>, <<"coin2">>}
ExcCab == {"bass", "halo_r2", "halo_r1", "halo_l2", "halo_l1"}

(******************************** exc/io.c *********************************)
exchook_io_sensor_mappings == <<1, 2, 3, 0>>

\* The pads' inputs are cleared once, before the four groups are asked for: of a
\* library that sets only what is pressed (sparse), a group adds to those before it.
exchook_io_check(fails, sparse) ==
  /\ exc_pc = "check"
  /\ exc_lib' = IF fails THEN exc_lib ELSE exc_held
  /\ exchook_io_sensores' =
       {<<m[1][1], m[1][2], exchook_io_sensor_mappings[m[2] + 1]>> :
          m \in {i \in (exc_lib' \cap ExcSensors) \X (0 .. 3) :
                   i[1][3] = i[2] \/ (sparse /\ i[1][3] < i[2])}}
  /\ exc_pc' = "input"
  /\ UNCHANGED <<exc_held, exc_words, exc_lights, exc_exit, sensed, sensed_before, eeprom>>

PanelsDown == {<<n[1], n[2]>> : n \in exchook_io_sensores}
\* Mutation: the word is taken before it is added to.
stat_prev_next_Early(words) == stat
\* The game's words are added to, the word of the releases is replaced.
stat_prev_next(words) == words
exchook_io_input ==
  LET now == PanelsDown \cup (exc_lib \cap ExcSystem) IN
  /\ exc_pc = "input"
  /\ IF exc_exit /\ {<<"test">>, <<"service">>} \subseteq exc_lib
     THEN /\ exc_pc' = "exited"
          /\ UNCHANGED <<exc_words, exc_lights, sensed, sensed_before>>
     ELSE /\ stat' = stat \cup now
          /\ stat_down' = stat_down \cup (now \ stat_prev)
          /\ stat_up' = stat_prev \ now
          /\ stat_prev' = stat_prev_next(stat')
          /\ lib_pad' = out_pad \cup PanelsDown
          /\ sensed' = now /\ sensed_before' = sensed
          /\ exc_pc' = "game"
          /\ UNCHANGED <<out_pad, out_cab, lib_cab>>
  /\ UNCHANGED <<exc_held, exc_lib, exchook_io_sensores, exc_exit, eeprom>>

\* The game clears the words it adds to before the next frame.
GameTakes ==
  /\ exc_pc = "game" /\ exc_pc' = "check"
  /\ stat' = {} /\ stat_down' = {}
  /\ UNCHANGED <<exc_held, exc_lib, exchook_io_sensores, stat_up, stat_prev, exc_lights,
                 exc_exit, sensed, sensed_before, eeprom>>

Light == exc_pc = "game" /\ UNCHANGED <<exc_held, exc_lib, exchook_io_sensores, exc_words,
                                        exc_exit, exc_pc, sensed, sensed_before, eeprom>>
Switched(lights, on, these) == IF on THEN lights \cup these ELSE lights \ these
exchook_io_light_all(on) ==
  /\ Light
  /\ out_pad' = Switched({}, on, ExcPanels) /\ lib_pad' = out_pad'
  /\ out_cab' = Switched({}, on, ExcCab) /\ lib_cab' = out_cab'
\* The neon, or the halogens of the mask.
exchook_io_light_cab(on, these) ==
  /\ Light
  /\ out_cab' = Switched(out_cab, on, these) /\ lib_cab' = out_cab'
  /\ UNCHANGED <<out_pad, lib_pad>>
\* The panels of a player: the library is told with the next inputs.
exchook_io_light_ccfl(on, these) ==
  /\ Light
  /\ out_pad' = Switched(out_pad, on, these)
  /\ UNCHANGED <<out_cab, lib_pad, lib_cab>>

ExcMove ==
  /\ exc_held' \in ExcPresses \ {exc_held}
  /\ UNCHANGED <<exc_lib, exchook_io_sensores, exc_words, exc_lights, exc_exit, exc_pc,
                 sensed, sensed_before, eeprom>>

(****************************** exc/eeprom.c *******************************)
Filled(byte, n) == [i \in 1 .. n |-> byte]
Over(buffer, bytes) == bytes \o SubSeq(buffer, Len(bytes) + 1, Len(buffer))
Partial(bytes) == {SubSeq(bytes, 1, n) : n \in 0 .. Len(bytes) - 1}

\* A file that cannot be created ends the process; one that is too large leaves
\* the game without the hook; one that cannot be loaded leaves the buffer clear.
exchook_eeprom_init(loads) ==
  LET new == Filled("FF", EEPROM_SIZE) IN
  /\ eeprom_pc = "stopped"
  /\ UNCHANGED exc_io
  /\ \/ /\ eeprom_file = Absent
        /\ written' = new /\ eeprom_buffer' = new
        /\ \/ eeprom_pc' = "hooked" /\ eeprom_file' = new /\ torn' = FALSE
           \/ eeprom_pc' = "hooked" /\ eeprom_file' \in Partial(new) /\ torn' = TRUE
           \/ eeprom_pc' = "stopped" /\ eeprom_file' \in Partial(new) /\ torn' = TRUE
     \/ /\ eeprom_file # Absent /\ loads
        /\ IF Len(eeprom_file) > EEPROM_SIZE
           THEN eeprom_pc' = "unhooked" /\ UNCHANGED eeprom_buffer
           ELSE /\ eeprom_pc' = "hooked"
                /\ eeprom_buffer' = Over(Filled("00", EEPROM_SIZE), eeprom_file)
        /\ UNCHANGED <<eeprom_file, written, torn>>
     \/ /\ eeprom_file # Absent /\ ~loads
        /\ eeprom_buffer' = Filled("00", EEPROM_SIZE)
        /\ eeprom_pc' = "hooked" /\ torn' = TRUE
        /\ UNCHANGED <<eeprom_file, written>>

exchook_eeprom_read(len) == IF len > EEPROM_SIZE THEN <<>> ELSE SubSeq(eeprom_buffer, 1, len)

\* Mutation: the file is written before the buffer.
saved_bytes_Before(bytes) == SubSeq(eeprom_buffer, 1, Len(bytes))
\* The bytes are in the buffer before the file is truncated; the game is told
\* that they are stored whether or not they are.
saved_bytes(bytes) == bytes
exchook_eeprom_write(bytes) ==
  /\ eeprom_pc = "hooked"
  /\ UNCHANGED <<exc_io, eeprom_pc>>
  /\ IF Len(bytes) > EEPROM_SIZE THEN UNCHANGED <<eeprom_file, eeprom_buffer, written, torn>> ELSE
     /\ eeprom_buffer' = Over(eeprom_buffer, bytes)
     /\ \/ eeprom_file' = saved_bytes(bytes) /\ written' = bytes /\ torn' = FALSE
        \/ UNCHANGED <<eeprom_file, written>> /\ torn' = TRUE
        \/ eeprom_file' \in Partial(saved_bytes(bytes)) /\ written' = bytes /\ torn' = TRUE

\* The power goes while the file is written: it holds what was written so far.
PowerLost(bytes) ==
  /\ eeprom_pc = "hooked" /\ Len(bytes) \in 0 .. EEPROM_SIZE
  /\ eeprom_pc' = "stopped" /\ torn' = TRUE
  /\ eeprom_file' \in Partial(saved_bytes(bytes)) /\ written' = bytes
  /\ UNCHANGED <<exc_io, eeprom_buffer>>
GameStops ==
  /\ eeprom_pc \in {"hooked", "unhooked"}
  /\ eeprom_pc' = "stopped"
  /\ UNCHANGED <<exc_io, eeprom_file, eeprom_buffer, written, torn>>

\* The eeprom is written in words of any length; those that are too long are all
\* treated as the shortest of them.
Words == UNION {[1 .. n -> EepromBytes] : n \in 0 .. EEPROM_SIZE + 1}

ExceedInit ==
  /\ exc_held = {} /\ exc_lib = {} /\ exchook_io_sensores = {}
  /\ stat = {} /\ stat_down = {} /\ stat_up = {} /\ stat_prev = {}
  /\ out_pad = {} /\ out_cab = {} /\ lib_pad = {} /\ lib_cab = {}
  /\ exc_exit \in BOOLEAN /\ exc_pc = "check"
  /\ sensed = {} /\ sensed_before = {}
  /\ eeprom_file \in {Absent} \cup OtherFiles
  /\ eeprom_buffer = <<>> /\ eeprom_pc = "stopped" /\ torn = FALSE
  /\ written = IF eeprom_file = Absent THEN <<>> ELSE eeprom_file

IoNext ==
  \/ \E fails, sparse \in BOOLEAN : exchook_io_check(fails, sparse)
  \/ exchook_io_input
  \/ GameTakes
  \/ \E on \in BOOLEAN : \/ exchook_io_light_all(on)
                         \/ exchook_io_light_cab(on, {"halo_l1"})
                         \/ exchook_io_light_ccfl(on, {<<0, "cn">>})
  \/ ExcMove
EepromNext ==
  \/ \E loads \in BOOLEAN : exchook_eeprom_init(loads)
  \/ \E word \in Words : exchook_eeprom_write(word) \/ PowerLost(word)
  \/ GameStops
ExceedSpec == ExceedInit /\ [][IoNext \/ EepromNext]_vars_exceed
-----------------------------------------------------------------------------
\* A game that clears its words in every frame is told of each press and of each
\* release once, in the frame in which the library has read it, and of what is
\* held meanwhile in every frame.
PressesAreCounted ==
  exc_pc = "game" =>
    /\ stat = sensed
    /\ stat_down = sensed \ sensed_before
    /\ stat_up = sensed_before \ sensed

\* What the game stored last is what it finds after a restart, however long the
\* writes before it were; a save or a power cut that ends early leaves the start
\* of it, and never a mixture with what was there before.
EepromSurvives ==
  /\ eeprom_file # Absent => IsPrefix(eeprom_file, written)
  /\ eeprom_pc = "hooked" /\ ~torn =>
       exchook_eeprom_read(EEPROM_SIZE) = Over(exchook_eeprom_read(EEPROM_SIZE), written)
=============================================================================
