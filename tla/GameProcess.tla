---------------------------- MODULE GameProcess ----------------------------
(* A game that is started, ends in any way and is started again: the stages   *)
(* of its start (GameStart) with the dongle daemon that one of them starts    *)
(* (Microdog40d), and the child processes the game may run, which inherit the *)
(* hook library.                                                              *)
EXTENDS GameStart, Microdog40d

VARIABLE inherited   \* whether a child with the hooks has run since this start

vars == <<startVars, dogVars, inherited>>

Init == StartInit /\ DogInit /\ inherited = FALSE

-----------------------------------------------------------------------------
Boot ==
  /\ trap_main
  /\ inherited' = (daemon["child"] # "off")
  /\ UNCHANGED dogVars

Step == Stage /\ UNCHANGED <<dogVars, inherited>>

StartDongle ==
  /\ At("microdog40")
  /\ patch_microdog40_init("game")
  /\ GoOn
  /\ UNCHANGED <<chains, devices, apis, path, root, inherited>>

RunMain == orig_main /\ UNCHANGED <<dogVars, inherited>>

MainEnds == trap_after_main /\ UNCHANGED <<dogVars, inherited>>

\* The daemon runs on until its process is gone.
ProcessEnds ==
  /\ gone
  /\ Dies("game")
  /\ UNCHANGED <<root, inherited>>

\* A child of the game whose name is not that of a game: its options are never
\* read, but trap_before_main goes on with whatever the stack holds.  It crashes
\* before it gets to the dongle, or it attaches everything the game attached.
HasDongle(g) == \E i \in DOMAIN trap_before_main[g] :
                  trap_before_main[g][i] = "microdog40"
ChildAttaches ==
  /\ where = "main" /\ daemon["child"] = "off" /\ ~inherited
  /\ HasDongle(game)
  /\ patch_microdog40_init("child")
  /\ inherited' = TRUE
  /\ UNCHANGED <<startVars, path, root>>
ChildEnds ==
  /\ daemon["child"] # "off"
  /\ Dies("child")
  /\ UNCHANGED <<startVars, root, inherited>>

DaemonStep ==
  /\ \E p \in Proc : sec_microdog40d_run(p)
  /\ UNCHANGED <<startVars, inherited>>

Next ==
  \/ Boot \/ Step \/ StartDongle \/ RunMain \/ MainEnds \/ ProcessEnds
  \/ ChildAttaches \/ ChildEnds \/ DaemonStep

\* The scheduler runs the daemon, which waits for nothing until it receives.
DaemonRuns(p) ==
  sec_microdog40d_run(p) /\ daemon[p] # "receiving" /\ UNCHANGED <<startVars, inherited>>
Spec == Init /\ [][Next]_vars /\ \A p \in Proc : WF_vars(DaemonRuns(p))

-----------------------------------------------------------------------------
(* Properties.                                                                *)

TypeOK ==
  /\ where \in Ending \cup {"off", "boot", "main"}
  /\ argv \in Argvs \cup {<<>>}
  /\ \A key \in DOMAIN conf : conf[key] \in STRING
  /\ IF where = "off"
     THEN game = "none" /\ todo = <<>>
     ELSE /\ game \in Hooks
          /\ DOMAIN fields \in {{}, Names(util_options_defs[game])}
          /\ \E n \in 0..Len(trap_before_main[game]) :
               todo = SubSeq(trap_before_main[game], n + 1, Len(trap_before_main[game]))
  /\ \A c \in Chains : \A i \in DOMAIN chains[c] :
       chains[c][i] \in DOMAIN PushedTo /\ c \in PushedTo[chains[c][i]]
  /\ devices \subseteq {"piuio", "piubtn"}
  /\ apis \subseteq {"piuio", "piubtn", "x11_input", "x11_input2"}
  /\ daemon \in [Proc -> {"off", "started", "unlinked", "receiving", "unbound",
                          "ended", "deaf"}]
  /\ path \in Proc \cup {"none", "stale"}
  /\ root \in BOOLEAN /\ inherited \in BOOLEAN

CalledBefore(a, b, c) ==
  \A i, j \in DOMAIN chains[c] : chains[c][i] = a /\ chains[c][j] = b => i < j

\* In every game the handlers see a call in the order their work needs: the
\* calls of the patched kernel are translated before the exit handler reads a
\* message (hook/pro/main.c:170-190), and both see it before the emulation
\* answers it ("Hook before IO emulation", hook/nx2/main.c:255), as does the one
\* that repairs the initialisation; and a profile that is asked for is looked up
\* on the server before one is made up (hook/nx2/main.c:317-320).
HandlersInOrder ==
  where = "main" =>
    /\ CalledBefore("khack", "exit", "usb")
    /\ CalledBefore("exit", "usb_emu", "usb")
    /\ CalledBefore("usb_init_fix", "usb_emu", "usb")
    /\ CalledBefore("net_profile", "profile_gen", "file")

\* A start that is refused for its options or its data path has attached
\* nothing, loaded nothing and started no daemon.
RefusedIsUntouched ==
  where = "refused" =>
    chains = NoHandlers /\ apis = {} /\ devices = {} /\ daemon["game"] = "off"

Param(name) == LET def == util_options_defs[game]
               IN def[CHOOSE j \in DOMAIN def : def[j].name = name].param
TypeOf(name) == LET def == util_options_defs[game]
                IN def[CHOOSE j \in DOMAIN def : def[j].name = name].type
Default(name) == LET def == util_options_defs[game]
                 IN def[CHOOSE j \in DOMAIN def : def[j].name = name].default_value
Shared(name) == \E other \in Names(util_options_defs[game]) \ {name} :
                  Param(other) = Param(name)
Words(name) ==
  {i \in Looked(util_options_defs[game], argv) : argv[i].dash = Param(name)}

\* What a user asked for: by the last word of the option that has an operand,
\* else in the file that --options names, else nothing, which leaves the default.
Meant(name) ==
  LET words == IF TypeOf(name) = "BOOL" THEN Words(name) ELSE Words(name) \ {Len(argv)}
      last == CHOOSE i \in words : \A k \in words : k <= i
  IN CASE words # {} -> IF TypeOf(name) = "BOOL" THEN "true"
                        ELSE ArgValue(TypeOf(name), argv[last + 1].text)
       [] words = {} /\ ReadsFile(argv) /\ name \in DOMAIN conf ->
            FileValue(TypeOf(name), conf[name])
       [] OTHER -> Default(name)

\* Every option that a game takes over has the value the user gave it, where its
\* letter is its own and no operand is missing, although the file and the words
\* are read twice, by two tables.  Nothing changes the fields afterwards.
OptionsAsMeant ==
  fields # NoFields /\ todo = Tail(Tail(trap_before_main[game])) =>
    \A name \in options_init[game] :
      Shared(name) \/ Words(name) = {Len(argv)} \/ fields[name] = Meant(name)

\* "We want all config params of the inject lib" (util/options.c:524): a file that
\* the hook library creates holds all of its options.
CreatedFileIsComplete ==
  where = "refused" /\ conf # NoFile => Names(util_options_defs[game]) \subseteq DOMAIN conf

\* As long as no child with the hooks has run, the path leads to the daemon of
\* the game whenever that daemon waits for requests.
OwnDongle == daemon["game"] = "receiving" /\ ~inherited => path = "game"

\* What an earlier process left at the path, however it ended, never keeps the
\* next daemon from taking the path over.
RestartBinds == daemon["game"] = "unbound" => ~root \/ inherited

\* A game that reaches main with a dongle has it at some point, or its daemon
\* has given up, or the game has ended.
DongleComesUp ==
  where = "main" /\ HasDongle(game) ~>
    where # "main" \/ daemon["game"] \in {"receiving", "deaf", "ended", "unbound"}

=============================================================================
