---------------------------- MODULE MCGameProcess ----------------------------
(* GameProcess for all the games, with options files that set or unset any of *)
(* the options that decide what is attached.                                  *)
EXTENDS GameProcess

MCHooks == {"x2hook", "zerohook", "nxhook", "nx2hook", "nxahook", "fsthook", "fexhook",
            "f2hook", "prihook", "exchook", "mk3hook", "prohook", "pro2hook"}
Start == <<Word("piu"), Word("./game/")>>
WithFile == Start \o <<OptionsFlag, Word("hook.conf")>>
MCArgvs == {Start \o <<Flag("z"), Word("1"), Flag("p"), Word("lib"), Flag("h")>>,
            Start \o <<OptionsFlag>>, WithFile,
            Start \o <<Flag("z"), Flag("e"), Flag("v")>>,
            WithFile \o <<Flag("p"), Word("lib"), Flag("s"), Word("")>>}
Texts ==
  [x \in {"patch_hook_main_loop.x11_input_handler", "patch_x11_event_loop.input_handler_lib",
          "patch.piuio.emu_lib"} |-> "other"]
MCSettable == {"patch_hook_main_loop.x11_input_handler", "patch.piuio.emu_lib",
               "patch.piuio_exit.test_serv", "game.data", "patch.net_profile.server",
               "patch.net_profile.machine_id", "patch.sound.device", "patch.piubtn.emu_lib"}
Text(name) == CASE name \in {"game.data", "patch.sound.device"} -> ""
                [] name \in DOMAIN Texts -> Texts[name]
                [] OTHER -> "1"
\* All of the options are set, all but one of those that push a handler or load a
\* library, or none.
MCConfs ==
  {NoFile} \cup
    {[name \in names |-> Text(name)] :
       names \in {{}, MCSettable}
         \cup {MCSettable \ {x} : x \in {"patch.piuio.emu_lib", "patch.piubtn.emu_lib",
                  "patch.piuio_exit.test_serv", "patch.net_profile.server"}}}
NoConfs == {NoFile}
=============================================================================
