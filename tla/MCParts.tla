-------------------------------- MODULE MCParts --------------------------------
(* Six parts that share nothing, each on its own: the joystick and keyboard     *)
(* libraries with their players and tools, the hook of Exceed, the buffer of a  *)
(* profile file, the messages of the HASP server, and the profile tools.  The   *)
(* suite says which one moves.                                                  *)
EXTENDS Joysticks, Keyboard, Exceed, VirtualFile, HaspAsn1, ProfileTool

LOCAL INSTANCE Bitwise

CONSTANT Suites
VARIABLE suite

MCXorByte(a, b) == a ^^ b

(* Two sticks of one model, with one button. *)
MCPads == {"a", "b"}
MCName == [p \in MCPads |-> "stick"]
MCNumButtons == [p \in MCPads |-> 1]
MCInputs == <<"test", "coin">>
Entry(place, button) == [name |-> "stick", dev_path |-> place,
                         button_map |-> [test |-> button, coin |-> 0]]
MCFile == <<Entry(1, 0), Entry(0, 1)>>

MCJoystickFiles == {MCFile}
MCJoysticksInit ==
  /\ JoysticksInit
  /\ js = [i \in Places |-> IF i = 0 THEN "a" ELSE None]
  /\ files.lib = None /\ files.executable # None

(* The tool and the game share the files alone: one runs at a time.  The tool   *)
(* does not see what happens to sticks other than the one it has opened.  No    *)
(* input but the last is skipped.                                               *)
MCJoysticksNext ==
  /\ JoysticksNext
  /\ opened' => tool' = Idle
  /\ tool' # Idle => tool'.folder = "lib"
  /\ tool # Idle /\ tool' # Idle =>
       /\ \A p \in Pads \ {tool.stick.pad} : held'[p] = held[p]
       /\ \A i \in Places : js[i] \in {None} \cup (Pads \ {tool.stick.pad}) => js'[i] = js[i]
       /\ tool'.asked # tool.asked => tool'.entry.button_map[Inputs[tool.asked]] # SKIP_INPUT

MCKeys == {"a", "j"}
MCSym == [a |-> 1, j |-> 2]
MCBoards == {"piuio"}
MCKeyInputs == <<"lu", "cn">>
Conf(lu, cn) == [lu |-> lu, cn |-> cn]
MCKeyFiles == {Conf(1, 2), Conf(2, 2)}

MCKeyboardInit ==
  /\ KeyboardInit
  /\ suite = "keyboard" \/ patch = "main_loop"
  /\ patch = "main_loop" => ~game_reads
  /\ key_files = IF suite # "keyboard" THEN [lib |-> NULL, executable |-> NULL]
                 ELSE IF patch = "event_loop" THEN [lib |-> Conf(1, 2), executable |-> NULL]
                 ELSE [lib |-> NULL, executable |-> Conf(2, 2)]
(* The first window is called main, and a game that reads has no other one. *)
MCKeyboardNext ==
  /\ KeyboardNext
  /\ windows = {} \/ game_reads => "other" \notin windows'
  /\ game_reads => down' \subseteq {"a"}
KeyToolNext ==
  \/ \E folder \in Folders, return \in {2, -1} : menu_keyboard_map(folder, return)
  \/ \E k \in Keys, type \in {"press", "release"} : keyboard_get_next_input(k, type)

MCExcPresses ==
  {{}, {<<0, "lu", 0>>}, {<<0, "lu", 1>>, <<1, "rd", 3>>, <<"test">>}, {<<"test">>, <<"service">>}}
MCOtherFiles == {<<>>, <<"b", "c">>, <<"b", "b", "b", "b", "b">>}
FileInit ==
  /\ Init
  /\ suite = "file" \/ \A k \in Offsets : buffer[k] = CHOOSE d \in Data : TRUE

(* The numbers at the edges of what a byte more, or a sign, changes. *)
MCAsnInts == {<<0, 0, 0, 0>>, <<0, 0, 0, 127>>, <<0, 0, 0, 128>>, <<0, 0, 128, 0>>,
              <<127, 255, 255, 255>>, <<128, 0, 0, 0>>}
Text(n) == [i \in 1 .. n |-> 65]
MCAsnValues == [INT |-> MCAsnInts, TIME |-> {<<95, 0, 0, 1>>, <<128, 0, 0, 0>>},
                STR |-> {Text(0), Text(126), Text(128), Text(246), Text(247), Text(254), Text(255)},
                DATA |-> {Text(1), Text(248)}]
AsnObject(tag, type) == [tag |-> tag, type |-> type]
(* The two messages of the server, and one with strings and data. *)
MCAsnClasses ==
  {[oid |-> 32564, capacity |-> 4,
    objects |-> <<AsnObject(128, "INT"), AsnObject(129, "INT"), AsnObject(130, "INT"),
                  AsnObject(132, "TIME")>>],
   [oid |-> 32565, capacity |-> 4, objects |-> <<AsnObject(128, "INT"), AsnObject(129, "INT")>>],
   [oid |-> 97, capacity |-> 4,
    objects |-> <<AsnObject(128, "INT"), AsnObject(133, "STR"), AsnObject(134, "STR"),
                  AsnObject(135, "DATA")>>]}

(* One save of a command fails, and none when a file is cut off already. *)
EndOf(saved, whole, length) == [saved |-> saved, whole |-> whole, length |-> length]
SavedWell == EndOf(TRUE, TRUE, 0)
SaveFailures == {EndOf(FALSE, TRUE, -1), EndOf(FALSE, FALSE, 0), EndOf(TRUE, FALSE, 2)}
AllWhole ==
  {at \in FilesOf : profile[at] # NoFile /\ Len(profile[at]) # Size(at[1])} = {}
Ends == {ends \in [Kinds -> {SavedWell} \cup IF AllWhole THEN SaveFailures ELSE {}] :
           \E kind \in Kinds : ends[kind] = SavedWell}
MCToolNext ==
  \/ \E ends \in Ends :
       \/ \E r \in New("rank"), s \in New("save") : CommandNew([rank |-> r, save |-> s], ends)
       \/ \E after \in Leftovers : CommandDec(ends, after) \/ CommandEnc(ends, after)
  \/ \E after \in Leftovers : \/ \E suffix \in {"none", ".dec"} : CommandFails(suffix, after)
                              \/ CommandDump(after)
  \/ GameSaves([kind \in Kinds |-> Whole(kind, <<3, 60>>)])
  \/ profile_game # "fex" /\ (PlayerEdits("save", 3) \/ (AllWhole /\ PlayerPutsBack))
SettingsNext ==
  \/ \E end \in SaveEnds : SettingsNew(end) \/ SettingsUnlock(end)
  \/ \E part \in 0 .. 8, total \in {0, 1, 20001} : OperatorSets(part, total)

PartsInit ==
  /\ suite \in Suites
  /\ MCJoysticksInit /\ MCKeyboardInit /\ ExceedInit /\ FileInit /\ AsnInit /\ ToolInit
  /\ suite = "exceed" \/ ~exc_exit
  /\ suite = "eeprom" \/ eeprom_file = Absent
  /\ suite = "asn1" \/ asn_class = CHOOSE c \in AsnClasses : TRUE
  /\ suite = "tool" \/ profile_game = "nx2"
PartsNext ==
  /\ UNCHANGED suite
  /\ \/ /\ UNCHANGED <<vars_exceed, vars, vars_asn, vars_tool>>
        /\ \/ suite = "joysticks" /\ MCJoysticksNext /\ UNCHANGED vars_keyboard
           \/ suite = "keyboard" /\ MCKeyboardNext /\ UNCHANGED vars_joysticks
           \/ suite = "key_tool" /\ KeyToolNext /\ UNCHANGED vars_joysticks
     \/ /\ UNCHANGED <<vars_joysticks, vars_keyboard, vars_asn, vars_tool>>
        /\ \/ suite = "exceed" /\ IoNext /\ UNCHANGED vars
           \/ suite = "eeprom" /\ EepromNext /\ UNCHANGED vars
           \/ suite = "file" /\ Next /\ UNCHANGED vars_exceed
     \/ /\ UNCHANGED <<vars_joysticks, vars_keyboard, vars_exceed, vars>>
        /\ \/ suite = "asn1" /\ AsnNext /\ UNCHANGED vars_tool
           \/ suite = "tool" /\ MCToolNext /\ UNCHANGED vars_asn
           \/ suite = "settings" /\ SettingsNext /\ UNCHANGED vars_asn

PartsVars == <<suite, vars_joysticks, vars_keyboard, vars_exceed, vars, vars_asn, vars_tool>>
PartsSpec ==
  /\ PartsInit /\ [][PartsNext]_PartsVars
  /\ WF_vars_keyboard(suite = "keyboard" /\ Thread)
  /\ WF_vars_keyboard(suite = "keyboard" /\ Joined)
=============================================================================
