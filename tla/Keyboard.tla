------------------------------- MODULE Keyboard -------------------------------
(***************************************************************************)
(* The keyboard libraries of the PIUIO and of the PIUBTN api (the same     *)
(* code twice), the two patches that feed them with the key events of X11, *)
(* and the tools that write their configuration.  Most games read events   *)
(* themselves, through the hooks of patch/main-loop.c; for Pump Pro the    *)
(* thread of patch/x11-event-loop.c reads them between the creation and    *)
(* the destruction of a window.                                            *)
(***************************************************************************)
EXTENDS Integers, Sequences, Functions

CONSTANTS
  NULL,
  Boards,          \* the libraries: each has a buffer and a configuration
  Keys,            \* keys of the keyboard
  Sym,             \* [Keys -> the number X11 has for the key]
  KEY_MAP_SIZE,
  BuiltIn,         \* keys that the game knows and that are hidden from it
  KeyFiles,        \* the configurations that the files may hold
  KeyInputs,       \* the inputs of a board, in the order the tool asks for them
  Windows,         \* windows that the game may have
  MaxQueue         \* bound: key events that wait in the queue of the display

\* A key that has a symbol is known by it.
ASSUME KeysHaveSymbols ==
  /\ Sym \in [Keys -> Nat] /\ KEY_MAP_SIZE \in Nat
  /\ \A j, k \in Keys : Sym[j] = Sym[k] /\ Sym[j] > 0 => j = k
ASSUME NULLIsNothing == NULL \notin KeyFiles /\ NULL \notin [run : BOOLEAN, window : Windows]

VARIABLES
  patch,           \* which of the two patches the game's hook has
  down,            \* keys that are held
  queue,           \* the events the display has for the program
  missed,          \* keys whose state a library that is open may not know
  key_buffer,      \* the keys each library takes for pressed
  keyboard_conf,   \* its configuration, while it is open
  key_files,       \* the configuration file of each folder
  key_tool,        \* the tool that writes it
  loop,            \* the thread of the event loop
  ctx,             \* its context: whether it should run
  windows,         \* windows of the game
  destroying,      \* the window XDestroyWindow waits for the thread with
  game_reads,      \* the game takes events of the display on its own, too
  selected         \* windows whose key events the display has for the program

program == <<key_buffer, keyboard_conf>>
threads == <<loop, ctx, windows, selected, destroying>>
constant == <<patch, game_reads>>
tools == <<key_files, key_tool>>
vars_keyboard == <<constant, down, queue, missed, program, tools, threads>>

(******************************* the libraries *****************************)
\* Mutation: the last symbol is left out.
dispatches_TooFew(key) == Sym[key] > 0 /\ Sym[key] < KEY_MAP_SIZE - 1
\* Symbol 0 is none, and the last ones do not fit in the buffer.
dispatches(key) == Sym[key] > 0 /\ Sym[key] < KEY_MAP_SIZE
Dispatched(key) == {k \in {key} : dispatches(k)}
Caught(key, is_down) ==
  missed' = missed \ {k \in {key} : /\ (k \in down) = is_down
                                    /\ \A n \in DOMAIN queue' : queue'[n].key # k}
dispatch_key_press(key) ==
  key_buffer' = [b \in Boards |-> key_buffer[b] \cup Dispatched(key)] /\ Caught(key, TRUE)
dispatch_key_release(key) ==
  key_buffer' = [b \in Boards |-> key_buffer[b] \ Dispatched(key)] /\ Caught(key, FALSE)

Waiting ==
  {queue[n].key : n \in DOMAIN queue} \cup (IF "key" \in DOMAIN loop THEN {loop.key} ELSE {})
\* The file beside the library, or else the one beside the game.
keyboard_conf_read == IF key_files["lib"] # NULL THEN key_files["lib"] ELSE key_files["executable"]
ptapi_io_keyboard_open(b) ==
  /\ keyboard_conf[b] = NULL /\ keyboard_conf_read # NULL
  /\ keyboard_conf' = [keyboard_conf EXCEPT ![b] = keyboard_conf_read]
  /\ key_buffer' = [key_buffer EXCEPT ![b] = {}]
  /\ missed' = missed \cup down \cup Waiting
  /\ UNCHANGED <<constant, down, queue, tools, threads>>

ptapi_io_keyboard_close(b) ==
  /\ keyboard_conf[b] # NULL
  /\ keyboard_conf' = [keyboard_conf EXCEPT ![b] = NULL]
  /\ UNCHANGED <<constant, down, queue, missed, key_buffer, tools, threads>>

\* What a read of the buffer may give: a symbol past its end, anything.
buffer_at(b, sym) ==
  IF sym < KEY_MAP_SIZE THEN {\E k \in key_buffer[b] : Sym[k] = sym} ELSE BOOLEAN
ptapi_io_keyboard_get_input(b, input) == buffer_at(b, keyboard_conf[b][input])

(******************************** the patches ******************************)
\* Mutation: any press looks like a repeat.
is_key_repeated_AnyKey(key, next) == next.type = "press" /\ next.soon
\* A held key repeats: a release with the press of the same key right behind it.
is_key_repeated(key, next) == next.type = "press" /\ next.key = key /\ next.soon

\* What the game is given: the events of some keys are hidden from it.
GivenType(e) == IF e.key \in BuiltIn THEN "GenericEvent" ELSE e.type

\* patch/main-loop.c: the game's call of XNextEvent.  A repeated press is taken
\* out of the queue; the libraries are told of all the others, hidden or not.
XNextEvent ==
  LET e == Head(queue)
      repeated == e.type = "release" /\ Len(queue) > 1 /\ is_key_repeated(e.key, queue[2]) IN
  /\ patch = "main_loop" /\ queue # <<>>
  /\ queue' = IF repeated THEN Tail(Tail(queue)) ELSE Tail(queue)
  /\ IF e.type = "press" THEN dispatch_key_press(e.key)
     ELSE IF repeated THEN UNCHANGED <<key_buffer, missed>> ELSE dispatch_key_release(e.key)
  /\ UNCHANGED <<constant, down, keyboard_conf, tools, threads>>

\* patch/x11-event-loop.c: the first window starts the thread.
XCreateWindow(w) ==
  /\ patch = "event_loop" /\ destroying = NULL /\ w \notin windows
  /\ windows' = windows \cup {w}
  /\ IF ctx = NULL
     THEN ctx' = [run |-> TRUE, window |-> w] /\ loop' = [pc |-> "select"]
     ELSE UNCHANGED <<ctx, loop>>
  /\ UNCHANGED <<constant, down, queue, missed, program, tools, selected, destroying>>

\* Whichever window is destroyed, the thread is stopped and joined first.
XDestroyWindow(w) ==
  /\ patch = "event_loop" /\ destroying = NULL /\ w \in windows
  /\ ctx' = IF ctx = NULL THEN NULL ELSE [ctx EXCEPT !.run = FALSE]
  /\ destroying' = w
  /\ UNCHANGED <<constant, down, queue, missed, program, tools, loop, windows, selected>>

Joined ==
  /\ destroying # NULL
  /\ loop.pc = "none"
  /\ ctx' = NULL /\ destroying' = NULL
  /\ windows' = windows \ {destroying} /\ selected' = selected \ {destroying}
  /\ UNCHANGED <<constant, down, queue, missed, program, tools, loop>>

Goto(pc) == loop' = [pc |-> pc]
Loop(pc) == patch = "event_loop" /\ loop.pc = pc /\
            UNCHANGED <<constant, down, keyboard_conf, tools, ctx, windows, destroying>>

libraries == <<key_buffer, missed>>
\* XSelectInput and XGrabKeyboard: from here on the display has events.
patch_x11_event_loop_run ==
  /\ Loop("select") /\ Goto("run")
  /\ selected' = selected \cup {ctx.window}
  /\ UNCHANGED <<queue, libraries>>

\* Mutation: the flag is not looked at.
running_Always == TRUE
running == ctx.run
Outer ==
  /\ Loop("run")
  /\ Goto(IF ~running THEN "none" ELSE IF queue = <<>> THEN "run" ELSE "next")
  /\ UNCHANGED <<queue, libraries, selected>>

\* XNextEvent: it waits when another has taken the event that was pending.
Take ==
  LET e == Head(queue) IN
  /\ Loop("next") /\ queue # <<>>
  /\ queue' = Tail(queue)
  /\ IF e.type = "press"
     THEN dispatch_key_press(e.key) /\ Goto("run")
     ELSE loop' = [pc |-> "released", key |-> e.key] /\ UNCHANGED libraries
  /\ UNCHANGED selected

Release == dispatch_key_release(loop.key) /\ Goto("run")
Released ==
  /\ Loop("released") /\ UNCHANGED <<queue, selected>>
  /\ IF queue = <<>> THEN Release ELSE loop' = [loop EXCEPT !.pc = "peek"] /\ UNCHANGED libraries

\* XPeekEvent waits, too, and so does the XNextEvent that drops the repeated press.
Peek ==
  /\ Loop("peek") /\ queue # <<>> /\ UNCHANGED <<queue, selected>>
  /\ IF is_key_repeated(loop.key, Head(queue))
     THEN loop' = [loop EXCEPT !.pc = "drop"] /\ UNCHANGED libraries
     ELSE Release
Drop ==
  /\ Loop("drop") /\ queue # <<>>
  /\ queue' = Tail(queue)
  /\ Goto("run") /\ UNCHANGED <<libraries, selected>>

Thread == patch_x11_event_loop_run \/ Outer \/ Take \/ Released \/ Peek \/ Drop

(**************************** the player, the game *************************)
\* A press may come so soon after the event before it that it looks like a repeat.
KeyEvent(k, soon) ==
  LET delivered == patch = "main_loop" \/ selected # {} IN
  /\ k \in down => ~soon
  /\ delivered => Len(queue) < MaxQueue
  /\ down' = IF k \in down THEN down \ {k} ELSE down \cup {k}
  /\ queue' = IF delivered
              THEN Append(queue, [type |-> IF k \in down THEN "release" ELSE "press",
                                  key |-> k, soon |-> soon])
              ELSE queue
  /\ missed' = IF delivered THEN missed ELSE missed \cup {k}
  /\ UNCHANGED <<constant, program, tools, threads>>

\* A game with an event loop of its own takes events of the same display.
GameReads ==
  /\ patch = "event_loop" /\ game_reads /\ queue # <<>>
  /\ queue' = Tail(queue)
  /\ UNCHANGED <<constant, down, missed, program, tools, threads>>

KeyboardInit ==
  /\ patch \in {"main_loop", "event_loop"}
  /\ game_reads \in BOOLEAN
  /\ key_files \in [{"lib", "executable"} -> KeyFiles \cup {NULL}]
  /\ key_tool = NULL
  /\ down = {} /\ queue = <<>> /\ missed = {}
  /\ key_buffer = [b \in Boards |-> {}] /\ keyboard_conf = [b \in Boards |-> NULL]
  /\ loop = [pc |-> "none"] /\ ctx = NULL /\ windows = {} /\ destroying = NULL
  /\ selected = {}
KeyboardNext ==
  \/ \E b \in Boards : ptapi_io_keyboard_open(b) \/ ptapi_io_keyboard_close(b)
  \/ XNextEvent
  \/ \E w \in Windows : XCreateWindow(w) \/ XDestroyWindow(w)
  \/ Joined
  \/ Thread
  \/ \E k \in Keys, soon \in BOOLEAN : KeyEvent(k, soon)
  \/ GameReads
KeyboardSpec == KeyboardInit /\ [][KeyboardNext]_vars_keyboard

(********************************* the tools *******************************)
\* The tool starts from the file of its folder, or from a configuration of
\* zeros.  A release answers the question with the last key pressed since the
\* question was asked, or with no key.  The PIUIO tool takes Return for no key.
keyboard_conf_new == [i \in Range(KeyInputs) |-> 0]
menu_keyboard_conf(folder) ==
  IF key_files[folder] = NULL THEN keyboard_conf_new ELSE key_files[folder]
menu_keyboard_map(folder, return) ==
  /\ key_tool = NULL
  /\ key_tool' = [folder |-> folder, return |-> return, asked |-> 1, key |-> 0,
                  conf |-> menu_keyboard_conf(folder)]
  /\ UNCHANGED <<constant, down, queue, missed, program, key_files, threads>>

keyboard_get_next_input(k, type) ==
  LET answer == IF key_tool.key = key_tool.return THEN 0 ELSE key_tool.key
      answered == [key_tool.conf EXCEPT ![KeyInputs[key_tool.asked]] = answer] IN
  /\ key_tool # NULL
  /\ \/ /\ type = "press"
        /\ key_tool' = [key_tool EXCEPT !.key = Sym[k]] /\ UNCHANGED key_files
     \/ /\ type = "release" /\ key_tool.asked < Len(KeyInputs)
        /\ key_tool' = [key_tool EXCEPT !.asked = @ + 1, !.key = 0, !.conf = answered]
        /\ UNCHANGED key_files
     \/ /\ type = "release" /\ key_tool.asked = Len(KeyInputs)
        /\ key_tool' = NULL
        /\ key_files' = [key_files EXCEPT ![key_tool.folder] = answered]
  /\ UNCHANGED <<constant, down, queue, missed, program, threads>>
-----------------------------------------------------------------------------
\* Once no event waits, an input of the game is down exactly when its key is: a
\* key pressed right after another one is released, a held key that repeats and
\* a change of windows leave no input stuck and lose none.  It is claimed of keys
\* that fit in the buffer, unless they were down or had events waiting when a library
\* was opened or changed while no window was selected, up to their next event, and
\* if the game takes no events itself.
InputsFollowKeys ==
  ~game_reads /\ queue = <<>> /\ loop.pc \in {"none", "select", "run"} =>
    \A b \in Boards, i \in Range(KeyInputs) : keyboard_conf[b] # NULL =>
      \A k \in Keys \ missed :
        Sym[k] \in 1 .. KEY_MAP_SIZE - 1 /\ keyboard_conf[b][i] = Sym[k] =>
          ptapi_io_keyboard_get_input(b, i) = {(k \in down)}

\* XDestroyWindow returns: the thread it joins does not go on taking events, however
\* many come, nor wait for one.  A game that takes events itself may leave the
\* thread in a call that waits for the next one.
DestroyReturns ==
  destroying # NULL /\ ~game_reads ~> destroying = NULL
=============================================================================
