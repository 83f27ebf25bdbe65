------------------------------ MODULE GameStart ------------------------------
(* How a hook library takes over a game.  The library traps main: before the  *)
(* game's main runs, trap_before_main reads the options and attaches what the *)
(* game needs, stage by stage, and any stage may end the process.  What is    *)
(* pushed first on a chain is called first, so that the order of the stages   *)
(* of a game is the order in which its handlers see a call.                   *)
(*                                                                            *)
(* A stage stands here only if it pushes a handler, loads a library, starts a *)
(* thread or can end the process: symbols that are overridden when the        *)
(* library is loaded (sound, graphics, signals, mount, network addresses),    *)
(* patched memory and the entries of the redirection table are left out.      *)
EXTENDS Options, FiniteSets

CONSTANTS Hooks,   \* the hook libraries that are started
          Argvs,   \* the command lines they are started with
          Confs    \* the options files that a user may write, and NoFile

VARIABLES game,      \* the hook library of the process, or "none"
          argv,      \* its command line
          conf,      \* the options file, in the folder of the game
          fields,    \* the options structure on the stack of trap_before_main
          todo,      \* the stages of trap_before_main that are left
          where,     \* how far the process is, or how it ended
          chains,    \* the handlers on each chain, the first is called first
          devices,   \* the virtual devices added to the usb emulation
          apis       \* the libraries whose functions were found

optionVars == <<argv, conf, fields>>
startVars == <<game, argv, conf, fields, todo, where, chains, devices, apis>>

-----------------------------------------------------------------------------
(* The stages of each game, up to the redirections and after them.            *)

Opening == <<"log", "bootstrapping", "data_path">>
Monitoring == <<"mon_open", "mon_io", "mon_file", "mon_fs", "mon_usb">>
Layers == <<"exit", "usb_init_fix", "usb_emu", "piuio">>

x2hook_fs == Opening \o Monitoring \o <<"redir", "settings">>
x2hook_patches == <<"unlock", "x11_input", "microdog34">> \o Layers

zerohook_fs == Opening \o Monitoring \o <<"redir", "settings">>
zerohook_patches == <<"unlock", "x11_input", "microdog34", "hdd_check">> \o Layers

nxhook_fs == Opening \o Monitoring \o <<"redir", "settings">>
nxhook_patches == <<"unlock", "x11_input", "microdog34", "hdd_check">> \o Layers

nx2hook_fs == Opening \o Monitoring \o <<"redir", "settings", "mounts">>
nx2hook_patches == <<"x11_input", "microdog40", "hdd_check">> \o Layers
                     \o <<"net_profile", "profile_gen">>

nxahook_fs == Opening \o Monitoring \o <<"redir", "settings", "mounts">>
\* Mutation: the generator of profiles is attached with the other patches.
nxahook_patches_GenFirst ==
  <<"x11_input", "microdog40", "hdd_check">> \o Layers
    \o <<"profile_gen", "net_profile">>
nxahook_patches == <<"x11_input", "microdog40", "hdd_check">> \o Layers
                     \o <<"net_profile", "profile_gen">>

fsthook_fs == Opening \o Monitoring \o <<"redir", "settings", "mounts">>
fsthook_patches == <<"x11_input", "microdog40", "hdd_check">> \o Layers

fexhook_fs == Opening \o Monitoring \o <<"redir", "settings", "mounts">>
fexhook_patches == <<"x11_input", "microdog40", "hdd_check">> \o Layers

\* Mutation: monitoring starts before the options are looked at.
f2hook_fs_RedirFirst ==
  <<"log">> \o Monitoring \o <<"redir", "bootstrapping", "data_path", "settings", "mounts">>
f2hook_fs == Opening \o Monitoring \o <<"redir", "settings", "mounts">>
f2hook_patches == <<"x11_input", "hdd_check">> \o Layers

prihook_fs == Opening \o Monitoring \o <<"redir", "settings", "mounts">>
prihook_patches == <<"x11_input", "hdd_check", "ram_wipe">> \o Layers
                     \o <<"usb_updates">>

exchook_fs == Opening \o <<"version">> \o Monitoring \o <<"redir", "settings">>
exchook_patches == <<"x11_input", "sound", "eeprom", "exc_piuio">>

mk3hook_fs == <<"bootstrapping", "log", "data_path">> \o Monitoring \o <<"redir">>
mk3hook_patches == <<"x11_input">> \o Layers

\* The games with the patched kernel take its calls back to the plain ones
\* before anything else looks at them.
prohook_fs == <<"log", "bootstrapping">> \o Monitoring \o <<"redir", "settings", "data">>
\* Mutation: the exit handler is attached after the emulation, like the device.
prohook_patches_ExitLast ==
  <<"x11_input", "x11_input2", "usb_init_fix", "khack", "usb_emu", "exit", "piuio",
    "piubtn">>
prohook_patches == <<"x11_input", "x11_input2", "usb_init_fix", "khack", "exit",
                     "usb_emu", "piuio", "piubtn">>

pro2hook_fs == <<"log", "bootstrapping">> \o Monitoring \o <<"redir", "data">>
pro2hook_patches == <<"x11_input", "x11_input2", "usb_init_fix", "khack", "exit",
                      "usb_emu", "piuio", "piubtn">>

trap_before_main ==
  [x2hook |-> x2hook_fs \o x2hook_patches, zerohook |-> zerohook_fs \o zerohook_patches,
   nxhook |-> nxhook_fs \o nxhook_patches, nx2hook |-> nx2hook_fs \o nx2hook_patches,
   nxahook |-> nxahook_fs \o nxahook_patches, fsthook |-> fsthook_fs \o fsthook_patches,
   fexhook |-> fexhook_fs \o fexhook_patches, f2hook |-> f2hook_fs \o f2hook_patches,
   prihook |-> prihook_fs \o prihook_patches, exchook |-> exchook_fs \o exchook_patches,
   mk3hook |-> mk3hook_fs \o mk3hook_patches, prohook |-> prohook_fs \o prohook_patches,
   pro2hook |-> pro2hook_fs \o pro2hook_patches]

ASSUME HooksAreGames == Hooks \subseteq DOMAIN trap_before_main

-----------------------------------------------------------------------------
(* The stages that only push a handler, with the chains they push it to.      *)

Chains == {"io", "file", "fs", "usb"}

patch_hook_mon_init ==
  [mon_open |-> {"io", "file", "fs"}, mon_io |-> {"io"}, mon_file |-> {"file"},
   mon_fs |-> {"fs"}, mon_usb |-> {"usb"}]
patch_redir_init == {"fs", "file", "io"}
patch_mounts_init == {"file"}
patch_microdog34_init == {"io"}
patch_hdd_check_init == {"io", "file"}
patch_ram_wipe_init == {"file"}
patch_net_profile_init == {"file"}
profile_gen_init == {"file"}
unlock_init == {"file"}
prihook_usb_updates_init == {"file"}
patch_piuio_exit_init == {"usb"}
patch_piuio_khack_init == {"usb"}
patch_usb_init_fix_init == {"usb"}
patch_usb_emu_init == {"usb"}

PushedTo ==
  [mon_open |-> patch_hook_mon_init.mon_open, mon_io |-> patch_hook_mon_init.mon_io,
   mon_file |-> patch_hook_mon_init.mon_file, mon_fs |-> patch_hook_mon_init.mon_fs,
   mon_usb |-> patch_hook_mon_init.mon_usb, redir |-> patch_redir_init,
   mounts |-> patch_mounts_init, microdog34 |-> patch_microdog34_init,
   hdd_check |-> patch_hdd_check_init, ram_wipe |-> patch_ram_wipe_init,
   net_profile |-> patch_net_profile_init, profile_gen |-> profile_gen_init,
   unlock |-> unlock_init, usb_updates |-> prihook_usb_updates_init,
   exit |-> patch_piuio_exit_init, khack |-> patch_piuio_khack_init,
   usb_init_fix |-> patch_usb_init_fix_init, usb_emu |-> patch_usb_emu_init]

\* A field of the structure, "NULL" for one that the library does not have.
Field(name) == IF name \in DOMAIN fields THEN fields[name] ELSE "NULL"
IsSet(name) == Field(name) # "NULL"
IsOn(name) == Field(name) = "true"

NetIsConfigured == IsSet("patch.net_profile.server")
                     /\ strtoull(Field("patch.net_profile.machine_id")) # "0"

\* Whether the options ask for a stage.
Asked(stage) ==
  CASE stage = "mon_open" -> IsOn("patch.hook_mon.open")
    [] stage = "mon_io" -> IsOn("patch.hook_mon.io")
    [] stage = "mon_file" -> IsOn("patch.hook_mon.file")
    [] stage = "mon_fs" -> IsOn("patch.hook_mon.fs")
    [] stage = "mon_usb" -> IsOn("patch.hook_mon.usb")
    [] stage = "unlock" -> IsOn("game.force_unlock")
    [] stage = "exit" -> IsOn("patch.piuio_exit.test_serv")
    [] stage = "net_profile" -> NetIsConfigured
    [] stage = "settings" -> IsSet("game.settings")
    [] stage = "data" -> IsSet("game.data")
    [] stage = "x11_input" -> IsSet("patch_hook_main_loop.x11_input_handler")
                                \/ IsSet("patch_x11_event_loop.input_handler_lib")
    [] stage = "x11_input2" -> IsSet("patch_x11_event_loop.input_handler_lib2")
    [] stage \in {"piuio", "exc_piuio"} -> IsSet("patch.piuio.emu_lib")
    [] stage = "piubtn" -> IsSet("patch.piubtn.emu_lib")
    [] OTHER -> TRUE

-----------------------------------------------------------------------------
NoFields == [name \in {} |-> "NULL"]
NoHandlers == [c \in Chains |-> <<>>]
Ending == {"refused", "died", "crashed", "exited"}

StartInit ==
  /\ game = "none"
  /\ argv = <<>>
  /\ conf = NoFile
  /\ fields = NoFields
  /\ todo = <<>>
  /\ where = "off"
  /\ chains = NoHandlers
  /\ devices = {}
  /\ apis = {}

\* The loader maps the library and trap_main calls trap_before_main.  The user
\* may have put an options file in place.
trap_main ==
  /\ where = "off"
  /\ game' \in Hooks
  /\ argv' \in Argvs
  /\ conf' \in IF ReadsFile(argv') THEN Confs \cup {conf} ELSE {conf}
  /\ todo' = trap_before_main[game']
  /\ where' = "boot"
  /\ UNCHANGED <<fields, chains, devices, apis>>

At(stage) == where = "boot" /\ todo # <<>> /\ Head(todo) = stage

GoOn == todo' = Tail(todo) /\ UNCHANGED <<game, where, optionVars>>
End(how) ==
  /\ where' = how
  /\ UNCHANGED <<game, optionVars, todo, chains, devices, apis>>

\* The process exits with code 0 in util_options_get.  A file that is named and
\* missing is written first, from the table of whoever reads it, if it can be.
exit_in_options(defs) ==
  /\ Exits(defs, argv, conf)
  /\ where' = "refused"
  /\ \/ /\ ReadsFile(argv) /\ FileIsNamed(argv) /\ conf = NoFile
        /\ conf' = util_options_write_default_options_file(defs.defs)
     \/ UNCHANGED conf
  /\ UNCHANGED <<game, argv, fields, todo, chains, devices, apis>>

\* The settings of the log are read first, from the same words and the same file.
hook_core_piu_log_init ==
  /\ At("log")
  /\ ~Exits(hook_core_options_defs, argv, conf)
  /\ GoOn /\ UNCHANGED <<chains, devices, apis>>
no_log_options == At("log") /\ exit_in_options(hook_core_options_defs)

GameDefs == Defs(util_options_defs[game], "h")

\* A field that is not taken over holds what was on the stack.
bootstrapping ==
  /\ At("bootstrapping")
  /\ ~Exits(GameDefs, argv, conf)
  /\ LET values == util_options_get2(GameDefs, argv, conf)
         taken == options_init[game]
     IN \E garbage \in {"0", "1"} :
          fields' = [name \in Names(GameDefs.defs) |->
                       IF name \in taken
                       THEN util_options_get(GameDefs.defs, values, name) ELSE garbage]
  /\ todo' = Tail(todo)
  /\ UNCHANGED <<game, argv, conf, where, chains, devices, apis>>
no_options == At("bootstrapping") /\ exit_in_options(GameDefs)

\* A data path that is missing, without its slash or without a folder refuses
\* the start.  The two games for the patched kernel have none.
verify_game_data_path == At("data_path") /\ GoOn /\ UNCHANGED <<chains, devices, apis>>
refuse == At("data_path") /\ End("refused")

\* Exceed patches addresses that depend on the version of the game: without a
\* version, or with one that has no table, log_die ends the process.
version_table ==
  /\ At("version")
  /\ IsSet("game.version")
  /\ GoOn /\ UNCHANGED <<chains, devices, apis>>
version_unknown == At("version") /\ End("died")

\* Exceed compares the name of its sound device without a look at the pointer.
exchook_patch_sound_init ==
  /\ At("sound")
  /\ IsSet("patch.sound.device")
  /\ GoOn /\ UNCHANGED <<chains, devices, apis>>
no_sound_device == At("sound") /\ ~IsSet("patch.sound.device") /\ End("crashed")

\* An option that is not set passes its stage over.
pass_over ==
  /\ where = "boot" /\ todo # <<>>
  /\ ~Asked(Head(todo))
  /\ GoOn /\ UNCHANGED <<chains, devices, apis>>

\* Mutation: a stage pushes its handler to every chain.
push_handler_Everywhere ==
  /\ where = "boot" /\ todo # <<>>
  /\ LET stage == Head(todo) IN
       /\ stage \in DOMAIN PushedTo
       /\ Asked(stage)
       /\ chains' = [c \in Chains |-> Append(chains[c], stage)]
  /\ GoOn /\ UNCHANGED <<devices, apis>>
push_handler ==
  /\ where = "boot" /\ todo # <<>>
  /\ LET stage == Head(todo) IN
       /\ stage \in DOMAIN PushedTo
       /\ Asked(stage)
       /\ chains' = [c \in Chains |-> IF c \in PushedTo[stage]
                                      THEN Append(chains[c], stage) ELSE chains[c]]
  /\ GoOn /\ UNCHANGED <<devices, apis>>

\* The path of an option is made absolute.  A folder that neither exists nor
\* can be created has no absolute path, and the redirection gets NULL.
redirect(stage) ==
  /\ At(stage) /\ Asked(stage)
  /\ GoOn /\ UNCHANGED <<chains, devices, apis>>
redirect_null(stage) == At(stage) /\ Asked(stage) /\ End("crashed")

\* The eeprom file of Exceed is read or created; a file that cannot be created
\* is only logged, and written to all the same.
eeprom ==
  /\ At("eeprom")
  /\ GoOn /\ UNCHANGED <<chains, devices, apis>>
eeprom_null == At("eeprom") /\ End("crashed")

\* A library with a handler of key events: a path without a file ends the
\* process, a file that is no such library is called through NULL, and a library
\* that answers no handler is passed over.
add_x11_input_handler(stage) ==
  /\ At(stage) /\ Asked(stage)
  /\ \/ apis' = apis \cup {stage}
     \/ UNCHANGED apis
  /\ GoOn /\ UNCHANGED <<chains, devices>>
no_x11_input_library(stage) ==
  At(stage) /\ Asked(stage) /\ (End("died") \/ End("crashed"))

\* A path without a file ends the process, a file that is no library is logged.
\* A library is not looked at any further: the device is added, whether its
\* functions were found or not.
patch_piuio_init ==
  /\ At("piuio") /\ Asked("piuio")
  /\ \/ apis' = apis \cup {"piuio"} /\ devices' = devices \cup {"piuio"}
     \/ UNCHANGED apis /\ devices' = devices \cup {"piuio"}
     \/ UNCHANGED <<apis, devices>>
  /\ GoOn /\ UNCHANGED chains
no_piuio_library == At("piuio") /\ Asked("piuio") /\ End("died")

\* The same for the button board, which is also added for a file that is no
\* library.
patch_piubtn_init ==
  /\ At("piubtn") /\ Asked("piubtn")
  /\ \/ apis' = apis \cup {"piubtn"}
     \/ UNCHANGED apis
  /\ devices' = devices \cup {"piubtn"}
  /\ GoOn /\ UNCHANGED chains
no_piubtn_library == At("piubtn") /\ Asked("piubtn") /\ End("died")

\* Exceed has its own functions for the board.  They are left alone if there is
\* no library; one without the function that opens the board is called all the
\* same.
exchook_io_init ==
  /\ At("exc_piuio") /\ Asked("exc_piuio")
  /\ \/ apis' = apis \cup {"piuio"}
     \/ UNCHANGED apis
  /\ GoOn /\ UNCHANGED <<chains, devices>>
incomplete_io == At("exc_piuio") /\ Asked("exc_piuio") /\ End("crashed")

\* Every stage is done: trap_main calls the game's main.
orig_main ==
  /\ where = "boot" /\ todo = <<>>
  /\ where' = "main"
  /\ UNCHANGED <<game, optionVars, todo, chains, devices, apis>>

\* The game's main returns, which runs trap_after_main, or it calls exit, or it
\* crashes.  Nothing that trap_after_main calls changes any of this.
trap_after_main == where = "main" /\ End("exited")

\* The process is gone, with all it had in memory.  A file that the user wrote
\* need not be kept here, as the user may write it again; one that was created
\* stays.
gone ==
  /\ where \in Ending
  /\ game' = "none" /\ argv' = <<>> /\ todo' = <<>> /\ where' = "off"
  /\ fields' = NoFields
  /\ conf' = IF conf \in Confs THEN NoFile ELSE conf
  /\ chains' = NoHandlers /\ devices' = {} /\ apis' = {}

Stage ==
  \/ hook_core_piu_log_init \/ no_log_options
  \/ bootstrapping \/ no_options \/ verify_game_data_path \/ refuse
  \/ version_table \/ version_unknown \/ exchook_patch_sound_init \/ no_sound_device
  \/ pass_over \/ push_handler
  \/ \E s \in {"settings", "data"} : redirect(s) \/ redirect_null(s)
  \/ eeprom \/ eeprom_null
  \/ \E s \in {"x11_input", "x11_input2"} :
       add_x11_input_handler(s) \/ no_x11_input_library(s)
  \/ patch_piuio_init \/ no_piuio_library
  \/ patch_piubtn_init \/ no_piubtn_library
  \/ exchook_io_init \/ incomplete_io

=============================================================================
