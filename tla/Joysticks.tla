------------------------------ MODULE Joysticks ------------------------------
(***************************************************************************)
(* The joystick libraries of the PIUIO and of the PIUBTN api (the same     *)
(* code twice, over io/util/joystick*.c), and the tools that write their   *)
(* configuration.  The game opens the library, polls it and reads its      *)
(* inputs; a player plugs sticks in and out and presses their buttons;     *)
(* the tool is run in the folder of the library or in that of the game.    *)
(*                                                                         *)
(* The kernel keeps a buffer of events for every open stick.  It announces *)
(* the state of every button when the stick is opened, and again when the  *)
(* buffer has overflowed; an unplugged stick stays open and fails.         *)
(***************************************************************************)
EXTENDS Integers, Sequences, SequencesExt, FiniteSets

CONSTANTS
  None,           \* nothing there
  Pads,           \* the sticks a player has
  Name,           \* [Pads -> the names they report]
  NumButtons,     \* [Pads -> Nat]
  MaxJoysticks,   \* the places /dev/input/js<n> that are looked at
  KernelBuffer,   \* the events the kernel keeps for an open stick
  Inputs,         \* the inputs of the board, in the order the tool asks for them
  JoystickFiles   \* configurations that there may be to begin with

VARIABLES
  js,             \* which stick is at each place
  held,           \* the buttons a player holds down on each stick
  files,          \* the configuration file of each folder
  conf,           \* the configuration the library has loaded
  opened,         \* the game has the library open
  with_conf,      \* the entries of conf that are in use, in the order of the sticks
  sticks,         \* the open sticks, in the order of with_conf
  tool            \* the configuration tool

game == <<conf, opened, with_conf, sticks>>
vars_joysticks == <<js, held, files, game, tool>>

SKIP_INPUT == 65535                      \* no stick has a button of that number
Places == 0 .. MaxJoysticks - 1
Folders == {"lib", "executable"}
ButtonsOf(p) == 0 .. NumButtons[p] - 1
Buttons == UNION {ButtonsOf(p) : p \in Pads}
Entries == [name : STRING, dev_path : Nat, button_map : [Range(Inputs) -> Nat]]
SameKey(a, b) == a.name = b.name /\ a.dev_path = b.dev_path

\* A configuration has one entry for a stick, as the tool leaves it.
ASSUME JoystickAssumption ==
  /\ None \notin Pads /\ Inputs \in Seq(STRING) /\ MaxJoysticks \in Nat /\ KernelBuffer \in Nat
  /\ Name \in [Pads -> STRING] /\ NumButtons \in [Pads -> Nat]
  /\ \A c \in JoystickFiles :
       c \in Seq(Entries) /\ \A j, l \in DOMAIN c : SameKey(c[j], c[l]) => j = l

\* A set in the order of a relation: each element after those that come before it.
Ordered(S, before) ==
  [k \in 1 .. Cardinality(S) |->
     CHOOSE i \in S : Cardinality({l \in S : <<l, i>> \in before}) = k - 1]

Closed == [pad |-> None]
Plugged == {i \in Places : js[i] # None}

(*************************** io/util/joystick*.c ***************************)
\* The places with a stick that could be opened, in order.
io_util_joystick_util_scan(refused) ==
  Ordered(Plugged \ refused, {r \in Places \X Places : r[1] < r[2]})

\* The states of the buttons are allocated and not cleared.
io_util_joystick_open(i, garbage) ==
  LET p == js[i] IN
  [pad |-> p, gone |-> FALSE, announced |-> FALSE, queue |-> <<>>,
   button_state |-> [b \in ButtonsOf(p) |-> b \in garbage]]

Announced(s) ==
  IF s.announced THEN <<>>
  ELSE [k \in 1 .. NumButtons[s.pad] |-> <<k - 1, k - 1 \in held[s.pad]>>]
Events(s) == Announced(s) \o s.queue
\* The last event of a button decides.
Applied(state, events) ==
  [b \in DOMAIN state |->
     LET on == {k \in DOMAIN events : events[k][1] = b}
     IN IF on = {} THEN state[b] ELSE events[CHOOSE k \in on : \A l \in on : l <= k][2]]

\* Mutation: the events that announce the state are skipped.
io_util_joystick_update_NoInit(s) ==
  IF s.pad = None \/ s.gone THEN s
  ELSE [s EXCEPT !.announced = TRUE, !.queue = <<>>,
          !.button_state = Applied(@, s.queue)]
\* One read takes all the events there are; none of them is an error (EAGAIN).
io_util_joystick_update(s) ==
  IF s.pad = None \/ s.gone THEN s
  ELSE [s EXCEPT !.announced = TRUE, !.queue = <<>>,
          !.button_state = Applied(@, Events(s))]

io_util_joystick_is_button_pressed(s, b) == b < NumButtons[s.pad] /\ s.button_state[b]

(**************************** the configuration ****************************)
conf_new == <<>>
conf_entries(c, key) == {j \in DOMAIN c : SameKey(c[j], key)}
First(S) == CHOOSE j \in S : \A k \in S : j <= k
\* Mutation: an entry of the stick is not looked for.
conf_set_or_append_Append(c, entry) == Append(c, entry)
\* conf_set_entry replaces the first entry of the stick; without one, the tool
\* appends the new entry.
conf_set_or_append(c, entry) ==
  IF conf_entries(c, entry) = {} THEN Append(c, entry)
  ELSE [c EXCEPT ![First(conf_entries(c, entry))] = entry]
conf_find_entry(c, key) ==
  IF conf_entries(c, key) = {}
  THEN [name |-> key.name, dev_path |-> key.dev_path,
        button_map |-> [i \in Range(Inputs) |-> 0]]
  ELSE c[First(conf_entries(c, key))]

(******************************* the library *******************************)
conf_read_from_file == IF files["lib"] # None THEN files["lib"] ELSE files["executable"]

\* The entries that match a stick which is there, stick by stick.
Matches(c, places) ==
  {j \in DOMAIN c : c[j].dev_path \in Range(places) /\ c[j].name = Name[js[c[j].dev_path]]}
Matching(c, places) ==
  LET matches == Matches(c, places)
  IN Ordered(matches, {r \in matches \X matches :
                         \/ c[r[1]].dev_path < c[r[2]].dev_path
                         \/ c[r[1]].dev_path = c[r[2]].dev_path /\ r[1] < r[2]})

\* A stick that was scanned may be out of reach when it is opened: it is ignored.
ptapi_io_open(refused, failing, garbage) ==
  /\ ~opened
  /\ conf_read_from_file # None
  /\ conf' = conf_read_from_file
  /\ with_conf' = Matching(conf', io_util_joystick_util_scan(refused))
  /\ sticks' = [k \in DOMAIN with_conf' |->
       LET i == conf'[with_conf'[k]].dev_path IN
       IF i \in failing THEN Closed ELSE io_util_joystick_open(i, garbage)]
  /\ opened' = TRUE
  /\ UNCHANGED <<js, held, files, tool>>

\* The configuration is freed; the sticks in use are still counted.
ptapi_io_close ==
  /\ opened
  /\ opened' = FALSE
  /\ conf' = None
  /\ sticks' = [k \in DOMAIN sticks |-> Closed]
  /\ UNCHANGED <<js, held, files, with_conf, tool>>

Open == {k \in DOMAIN sticks : sticks[k].pad # None}
\* The result is that of the last open stick alone.
recv_result == Open = {} \/ ~sticks[CHOOSE k \in Open : \A l \in Open : l <= k].gone

ptapi_io_recv ==
  /\ opened
  /\ sticks' = [k \in DOMAIN sticks |-> io_util_joystick_update(sticks[k])]
  /\ UNCHANGED <<js, held, files, conf, opened, with_conf, tool>>

merge_inputs(input) ==
  \E k \in Open :
    io_util_joystick_is_button_pressed(sticks[k], conf[with_conf[k]].button_map[input])
ptapi_io_get_input(inputs) == [i \in inputs |-> merge_inputs(i)]

(********************************* the tool ********************************)
Idle == [pc |-> "menu", stick |-> Closed]
Menu == tool' = Idle /\ UNCHANGED <<js, held, files, game>>

menu_conf(folder) == IF files[folder] = None THEN conf_new ELSE files[folder]
\* Both menus let the number after the last stick pass: its path is empty, and
\* opening it fails.  The configuration is read before the stick is opened.
menu_joystick(pc, folder, k, refused, failing, garbage) ==
  LET places == io_util_joystick_util_scan(refused) IN
  /\ tool.pc = "menu"
  /\ k \in DOMAIN places
  /\ IF places[k] \in failing THEN Menu ELSE
     /\ tool' = [pc |-> pc, folder |-> folder, conf |-> menu_conf(folder),
                 entry |-> conf_find_entry(menu_conf(folder),
                             [name |-> Name[js[places[k]]], dev_path |-> places[k]]),
                 asked |-> 1, button |-> None,
                 stick |-> io_util_joystick_open(places[k], garbage)]
     /\ UNCHANGED <<js, held, files, game>>

\* An answer to the question: the next one, or the file is saved.
Answer(stick, b) ==
  LET entry == [tool.entry EXCEPT !.button_map[Inputs[tool.asked]] = b] IN
  IF tool.pc = "test"
  THEN tool' = [tool EXCEPT !.stick = stick, !.button = None] /\ UNCHANGED files
  ELSE IF tool.asked < Len(Inputs)
  THEN /\ tool' = [tool EXCEPT !.stick = stick, !.button = None, !.entry = entry, !.asked = @ + 1]
       /\ UNCHANGED files
  ELSE /\ files' = [files EXCEPT ![tool.folder] = conf_set_or_append(tool.conf, entry)]
       /\ tool' = Idle

\* A round of the loop: an error ends the tool, Return skips the input, the
\* first button down is the answer once it has been released.
joystick_get_next_input(enter) ==
  LET stick == io_util_joystick_update(tool.stick)
      down == {b \in ButtonsOf(stick.pad) : stick.button_state[b]} IN
  /\ tool.pc # "menu"
  /\ UNCHANGED <<js, held, game>>
  /\ \/ stick.gone /\ tool' = Idle /\ UNCHANGED files
     \/ ~stick.gone /\ enter /\ Answer(stick, SKIP_INPUT)
     \/ /\ ~stick.gone /\ ~enter /\ tool.button = None
        /\ tool' = [tool EXCEPT !.stick = stick, !.button = IF down = {} THEN None ELSE First(down)]
        /\ UNCHANGED files
     \/ /\ ~stick.gone /\ ~enter /\ tool.button # None
        /\ IF tool.button \in down THEN tool' = [tool EXCEPT !.stick = stick] /\ UNCHANGED files
           ELSE Answer(stick, tool.button)

(************************** the player, the kernel *************************)
\* An event that fills the buffer empties it, and everything is announced again.
Queued(s, p, e) ==
  IF s.pad # p \/ s.gone \/ ~s.announced THEN s
  ELSE IF Len(s.queue) + 1 < KernelBuffer THEN [s EXCEPT !.queue = Append(@, e)]
  ELSE [s EXCEPT !.queue = <<>>, !.announced = FALSE]

PressOrRelease(p, b) ==
  LET e == <<b, b \notin held[p]>> IN
  /\ p \in Range(js)
  /\ held' = [held EXCEPT ![p] = IF b \in @ THEN @ \ {b} ELSE @ \cup {b}]
  /\ sticks' = [k \in DOMAIN sticks |-> Queued(sticks[k], p, e)]
  /\ tool' = [tool EXCEPT !.stick = Queued(@, p, e)]
  /\ UNCHANGED <<js, files, conf, opened, with_conf>>

PlugIn(p, i) ==
  /\ p \notin Range(js) /\ js[i] = None
  /\ js' = [js EXCEPT ![i] = p]
  /\ UNCHANGED <<held, files, game, tool>>

Unplugged(s, p) == IF s.pad = p THEN [s EXCEPT !.gone = TRUE, !.queue = <<>>] ELSE s
Unplug(i) ==
  /\ js[i] # None
  /\ js' = [js EXCEPT ![i] = None]
  /\ held' = [held EXCEPT ![js[i]] = {}]
  /\ sticks' = [k \in DOMAIN sticks |-> Unplugged(sticks[k], js[i])]
  /\ tool' = [tool EXCEPT !.stick = Unplugged(@, js[i])]
  /\ UNCHANGED <<files, conf, opened, with_conf>>

(****************************** all together *******************************)
\* The tool and the game run at any time, each with a stick open or none.
JoysticksInit ==
  /\ js \in [Places -> Pads \cup {None}]
  /\ \A i, j \in Places : js[i] = js[j] => i = j \/ js[i] = None
  /\ held = [p \in Pads |-> {}]
  /\ files \in [Folders -> JoystickFiles \cup {None}]
  /\ conf = None /\ opened = FALSE /\ with_conf = <<>> /\ sticks = <<>> /\ tool = Idle

JoysticksNext ==
  \/ \E refused, failing \in SUBSET Places, garbage \in SUBSET Buttons :
       \/ ptapi_io_open(refused, failing, garbage)
       \/ \E pc \in {"test", "map"}, folder \in Folders, k \in 1 .. MaxJoysticks :
            menu_joystick(pc, folder, k, refused, failing, garbage)
  \/ ptapi_io_close
  \/ ptapi_io_recv
  \/ \E enter \in BOOLEAN : joystick_get_next_input(enter)
  \/ \E p \in Pads : \E b \in ButtonsOf(p) : PressOrRelease(p, b)
  \/ \E p \in Pads, i \in Places : PlugIn(p, i)
  \/ \E i \in Places : Unplug(i)
JoysticksSpec == JoysticksInit /\ [][JoysticksNext]_vars_joysticks
-----------------------------------------------------------------------------
\* An input that the game is given is down exactly when one of the configured
\* sticks holds its button, as soon as the events of the stick have been taken:
\* whatever the states held when they were allocated, however often the buffer of
\* the kernel has overflowed, and whichever sticks have come and gone.
PressedIsHeld ==
  opened /\ (\A k \in Open : ~sticks[k].gone /\ sticks[k].announced /\ sticks[k].queue = <<>>) =>
    \A i \in Range(Inputs) :
      merge_inputs(i) <=> \E k \in Open : conf[with_conf[k]].button_map[i] \in held[sticks[k].pad]

\* The tool, run again for a stick, replaces what it has saved for it, so that
\* the sticks in use fit the arrays of the library, which have one element for
\* each place a stick can be at and are filled without a check.
ActiveFits == Len(with_conf) <= MaxJoysticks
=============================================================================
