------------------------------ MODULE Options ------------------------------
(* The options of the hook libraries: the table of each library, the options  *)
(* file and the command line they are read from (util/options.c), and the     *)
(* fields a library takes over from them.                                     *)
(*                                                                            *)
(* Values are strings, whatever their type; "NULL" is the null pointer.  A    *)
(* file is a function from the keys it holds to their texts.  A word of the   *)
(* command line has the character behind its dash, if it begins with one.  No *)
(* table has an option with binary data.                                      *)
EXTENDS Naturals, Sequences

Word(text) == [text |-> text, dash |-> ""]
Flag(param) == [text |-> "-", dash |-> param]
OptionsFlag == [text |-> "--options", dash |-> "-"]

-----------------------------------------------------------------------------
(* The tables.                                                                *)

Opt(name, param, type, default) ==
  <<[name |-> name, param |-> param, type |-> type, default_value |-> default]>>

Settings == Opt("game.settings", "s", "STR", "./save")
Data == Opt("game.data", "d", "STR", "./game")
Version == Opt("game.version", "v", "STR", "20040408")
ForceUnlock == Opt("game.force_unlock", "z", "BOOL", "false")
Scaling == Opt("patch.gfx.scaling_mode", "z", "INT", "0")
HookMon == Opt("patch.hook_mon.file", "f", "BOOL", "false")
           \o Opt("patch.hook_mon.fs", "g", "BOOL", "false")
           \o Opt("patch.hook_mon.io", "i", "BOOL", "false")
           \o Opt("patch.hook_mon.open", "j", "BOOL", "false")
           \o Opt("patch.hook_mon.usb", "u", "BOOL", "false")
MainLoop == Opt("patch.hook_main_loop.disable_built_in_inputs", "k", "BOOL", "false")
            \o Opt("patch_hook_main_loop.x11_input_handler", "q", "STR", "NULL")
NetServer == Opt("patch.net.server", "n", "STR", "NULL")
NetProfile == Opt("patch.net_profile.server", "n", "STR", "NULL")
              \o Opt("patch.net_profile.machine_id", "m", "STR", "0000000000000000")
NetProfileCert == Opt("patch.net_profile.verbose_log_output", "v", "BOOL", "false")
                  \o Opt("patch.net_profile.cert_dir_path", "c", "STR", "NULL")
Piuio == Opt("patch.piuio.emu_lib", "p", "STR", "NULL")
         \o Opt("patch.piuio_exit.test_serv", "e", "BOOL", "false")
Piubtn == Opt("patch.piubtn.emu_lib", "b", "STR", "NULL")
Sound(device) == Opt("patch.sound.device", "a", "STR", device)
Sigsegv == Opt("patch.sigsegv.halt_on_segv", "d", "BOOL", "false")
UsbProfile == Opt("patch.usb_profile.p1.bus_port", "a", "STR", "NULL")
              \o Opt("patch.usb_profile.p2.bus_port", "k", "STR", "NULL")
              \o Opt("patch.usb_profile.dev_nodes", "t", "STR", "NULL")
EventLoop == Opt("patch_x11_event_loop.input_handler_lib", "q", "STR", "NULL")
             \o Opt("patch_x11_event_loop.input_handler_lib2", "r", "STR", "NULL")
Mk3Game == Opt("game.sync_offset", "y", "INT", "115")
           \o Opt("game.sync_multiplier", "v", "DOUBLE", "4.1666666666666670")
           \o Opt("game.music_vol", "m", "DOUBLE", "1.0")
           \o Opt("game.sfx_vol", "c", "DOUBLE", "1.0")
           \o Opt("game.1st_2nd_fs", "x", "BOOL", "false")
Windowed == Opt("patch.gfx.windowed", "w", "BOOL", "false")
DebugOutput == Opt("patch.sound.debug_output", "r", "BOOL", "false")
Log == Opt("util.log.file", "o", "STR", "pumptools.log")
       \o Opt("util.log.level", "l", "INT", "4")

Front == HookMon \o MainLoop
Back == Piuio \o Sound("dmix") \o Sigsegv \o Log

x2hook_options_def == ForceUnlock \o Settings \o Scaling \o Front \o Back
zerohook_options_def == ForceUnlock \o Settings \o Scaling \o Front \o Back
nxhook_options_def == ForceUnlock \o Scaling \o Settings \o Front \o Back
nx2hook_options_def == Settings \o Scaling \o Front \o NetProfile \o NetProfileCert
                         \o Back
nxahook_options_def == Settings \o Scaling \o Front \o NetProfile \o NetProfileCert
                         \o Back
fsthook_options_def == Settings \o Scaling \o Front \o NetProfile \o Back
fexhook_options_def == Settings \o Scaling \o Front \o NetProfile \o Back
f2hook_options_def == Settings \o Scaling \o Front \o NetProfile \o Back
prihook_options_def == Settings \o Scaling \o Front \o NetServer \o Back
exchook_options_def == Settings \o Version \o Scaling \o Front \o Back
mk3hook_options_def == Settings \o Mk3Game \o Windowed \o Front \o Piuio \o Sound("NULL")
                         \o DebugOutput \o Sigsegv \o Log
prohook_options_def == Data \o Settings \o HookMon \o Piubtn \o Piuio \o UsbProfile
                         \o EventLoop \o Log
pro2hook_options_def == Data \o HookMon \o Piubtn \o Piuio \o UsbProfile \o EventLoop
                          \o Log
hook_core_options_def == Log

\* usage_param: for the log settings a character that no word has.
Defs(def, usage) == [defs |-> def, usage_param |-> usage]
hook_core_options_defs == Defs(hook_core_options_def, "CR")

util_options_defs ==
  [x2hook |-> x2hook_options_def, zerohook |-> zerohook_options_def,
   nxhook |-> nxhook_options_def, nx2hook |-> nx2hook_options_def,
   nxahook |-> nxahook_options_def, fsthook |-> fsthook_options_def,
   fexhook |-> fexhook_options_def, f2hook |-> f2hook_options_def,
   prihook |-> prihook_options_def, exchook |-> exchook_options_def,
   mk3hook |-> mk3hook_options_def, prohook |-> prohook_options_def,
   pro2hook |-> pro2hook_options_def]

-----------------------------------------------------------------------------
(* Reading and writing an options file.                                       *)

\* atoi and strtoull: what does not begin with a number is 0.
atoi(text) == IF text \in {"1", "2", "3", "4", "115"} THEN text ELSE "0"
strtoull(text) == IF text \in {"0000000000000000", "NULL"} THEN "0" ELSE atoi(text)

Str(text) == IF text = "" THEN "NULL" ELSE text

FileValue(type, text) == CASE type = "INT" -> atoi(text)
                           [] type = "DOUBLE" -> text
                           [] type = "STR" -> Str(text)
                           [] type = "BOOL" -> IF atoi(text) = "0" THEN "false" ELSE "true"

\* What memset leaves in values before anything is read.
Zero(type) == CASE type = "INT" -> "0" [] type = "DOUBLE" -> "0"
                [] type = "STR" -> "NULL" [] type = "BOOL" -> "false"

NoValues(def) == [j \in DOMAIN def |-> [avail |-> FALSE, value |-> Zero(def[j].type)]]

\* Keys that are in no table are passed over.
util_options_init_from_file(def, file) ==
  [j \in DOMAIN def |->
     IF def[j].name \in DOMAIN file
     THEN [avail |-> TRUE, value |-> FileValue(def[j].type, file[def[j].name])]
     ELSE NoValues(def)[j]]

\* Doubles are printed with six digits behind the point.
PrintedDouble(value) == CASE value = "4.1666666666666670" -> "4.166667"
                          [] value = "1.0" -> "1.000000"
                          [] OTHER -> value
Printed(d) == CASE d.type = "INT" -> d.default_value
                [] d.type = "DOUBLE" -> PrintedDouble(d.default_value)
                [] d.type = "STR" -> IF d.default_value = "NULL" THEN ""
                                     ELSE d.default_value
                [] d.type = "BOOL" -> IF d.default_value = "true" THEN "1" ELSE "0"
util_options_write_default_options_file(def) ==
  [key \in {def[j].name : j \in DOMAIN def} |->
     Printed(def[CHOOSE j \in DOMAIN def : def[j].name = key])]

-----------------------------------------------------------------------------
(* Reading the command line.                                                  *)

\* The entry that a word stands for: the first with its character.
EntryOf(def, word) ==
  LET fits == {j \in DOMAIN def : word.dash # "" /\ def[j].param = word.dash}
  IN IF fits = {} THEN 0 ELSE CHOOSE j \in fits : \A k \in fits : j <= k

TakesOperand(def, word) == EntryOf(def, word) # 0 /\ def[EntryOf(def, word)].type # "BOOL"

\* The words that are looked at as options: all but those that an option before
\* them took as its operand.
Looked(def, argv) ==
  LET looked[i \in 1 .. Len(argv)] ==
        i = 1 \/ ~(looked[i - 1] /\ TakesOperand(def, argv[i - 1]))
  IN {i \in 1 .. Len(argv) : looked[i]}

AsksForUsage(defs, argv) ==
  \E i \in Looked(defs.defs, argv) : argv[i].dash = defs.usage_param

ArgValue(type, text) == CASE type = "INT" -> atoi(text)
                          [] type = "DOUBLE" -> text
                          [] type = "STR" -> Str(text)

\* The last word of an option decides.  One whose operand is missing makes the
\* option available all the same, with the value it had.
util_options_init_from_args(def, argv, values) ==
  [j \in DOMAIN def |->
     LET found == {i \in Looked(def, argv) : EntryOf(def, argv[i]) = j}
         valued == IF def[j].type = "BOOL" THEN found ELSE found \ {Len(argv)}
         last == CHOOSE i \in valued : \A k \in valued : k <= i
     IN [avail |-> values[j].avail \/ found # {},
         value |-> IF valued = {} THEN values[j].value
                   ELSE IF def[j].type = "BOOL" THEN "true"
                   ELSE ArgValue(def[j].type, argv[last + 1].text)]]

-----------------------------------------------------------------------------
(* util_options_get2.                                                         *)

OptionsWords(argv) == {i \in 1 .. Len(argv) : argv[i].text = "--options"}
ReadsFile(argv) == OptionsWords(argv) # {}
FileIsNamed(argv) == \E i \in OptionsWords(argv) : i < Len(argv)
NoFile == [key \in {"-"} |-> ""]

\* Mutation: the command line is read before the file.
util_options_get2_ArgsFirst(defs, argv, file) ==
  LET fromArgs == util_options_init_from_args(defs.defs, argv, NoValues(defs.defs))
      fromFile == util_options_init_from_file(defs.defs, file)
  IN [j \in DOMAIN defs.defs |-> IF ReadsFile(argv) /\ fromFile[j].avail THEN fromFile[j]
                                 ELSE fromArgs[j]]
\* The values, when neither the file nor the words make the process exit.
util_options_get2(defs, argv, file) ==
  util_options_init_from_args(defs.defs, argv,
    IF ReadsFile(argv) THEN util_options_init_from_file(defs.defs, file)
    ELSE NoValues(defs.defs))

\* Whether the process exits: for want of the file or of its name, or to print
\* the usage.
Exits(defs, argv, file) ==
  \/ ReadsFile(argv) /\ (~FileIsNamed(argv) \/ file = NoFile)
  \/ AsksForUsage(defs, argv)

\* util_options_get_str and its kind: the value or the default of an option.
util_options_get(def, values, name) ==
  LET j == CHOOSE j \in DOMAIN def : def[j].name = name
  IN IF values[j].avail THEN values[j].value ELSE def[j].default_value

Names(def) == {def[j].name : j \in DOMAIN def}

-----------------------------------------------------------------------------
(* The fields that each library takes over.                                   *)

x2hook_options_init == Names(x2hook_options_def)
zerohook_options_init == Names(zerohook_options_def)
nxhook_options_init == Names(nxhook_options_def)
nx2hook_options_init == Names(nx2hook_options_def)
\* The scaling mode is in the table and in the struct, and is not taken over.
nxahook_options_init == Names(nxahook_options_def) \ {"patch.gfx.scaling_mode"}
fsthook_options_init == Names(fsthook_options_def)
fexhook_options_init == Names(fexhook_options_def)
f2hook_options_init == Names(f2hook_options_def)
prihook_options_init == Names(prihook_options_def)
exchook_options_init == Names(exchook_options_def)
mk3hook_options_init == Names(mk3hook_options_def)
prohook_options_init == Names(prohook_options_def)
pro2hook_options_init == Names(pro2hook_options_def)

options_init ==
  [x2hook |-> x2hook_options_init, zerohook |-> zerohook_options_init,
   nxhook |-> nxhook_options_init, nx2hook |-> nx2hook_options_init,
   nxahook |-> nxahook_options_init, fsthook |-> fsthook_options_init,
   fexhook |-> fexhook_options_init, f2hook |-> f2hook_options_init,
   prihook |-> prihook_options_init, exchook |-> exchook_options_init,
   mk3hook |-> mk3hook_options_init, prohook |-> prohook_options_init,
   pro2hook |-> pro2hook_options_init]
=============================================================================
