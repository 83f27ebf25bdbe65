-------------------------- MODULE GameProcessProofs --------------------------
(***************************************************************************)
(* The start of a game and the daemon of its dongle, for every set of      *)
(* hook libraries, command lines and options files.                        *)
(***************************************************************************)
EXTENDS GameProcess, WellFoundedInduction, TLAPS

-----------------------------------------------------------------------------
(* Every stage of the start leaves the process there, and takes the next   *)
(* stage or none; push_handler alone touches the chains.                   *)

StageFrame ==
  /\ where # "off" /\ where' # "off"
  /\ UNCHANGED <<game, chains>>
  /\ todo' = todo \/ (todo # <<>> /\ todo' = Tail(todo))

LEMMA StageStays ==
  ASSUME Stage
  PROVE  where' # "off" /\ (push_handler \/ StageFrame)
<1> USE DEF At, GoOn, End, StageFrame
<1>1. CASE hook_core_piu_log_init \/ no_log_options \/ bootstrapping \/ no_options
  BY <1>1 DEF hook_core_piu_log_init, no_log_options, bootstrapping, no_options,
              exit_in_options
<1>2. CASE verify_game_data_path \/ refuse \/ version_table \/ version_unknown
             \/ exchook_patch_sound_init \/ no_sound_device
  BY <1>2 DEF verify_game_data_path, refuse, version_table, version_unknown,
              exchook_patch_sound_init, no_sound_device
<1>3. CASE pass_over \/ push_handler \/ eeprom \/ eeprom_null
  BY <1>3 DEF pass_over, push_handler, eeprom, eeprom_null
<1>4. CASE \E s \in {"settings", "data"} : redirect(s) \/ redirect_null(s)
  BY <1>4 DEF redirect, redirect_null
<1>5. CASE \E s \in {"x11_input", "x11_input2"} :
             add_x11_input_handler(s) \/ no_x11_input_library(s)
  BY <1>5 DEF add_x11_input_handler, no_x11_input_library
<1>6. CASE patch_piuio_init \/ no_piuio_library \/ patch_piubtn_init
             \/ no_piubtn_library \/ exchook_io_init \/ incomplete_io
  BY <1>6 DEF patch_piuio_init, no_piuio_library, patch_piubtn_init,
              no_piubtn_library, exchook_io_init, incomplete_io
<1> QED
  BY <1>1, <1>2, <1>3, <1>4, <1>5, <1>6 DEF Stage

-----------------------------------------------------------------------------
(* The daemon.                                                             *)
(*                                                                         *)
(* DaemonInv is inductive: besides the properties it says that no daemon   *)
(* outlives its process, that a child is never forgotten while its daemon  *)
(* runs, and that between unlink and bind only a child can get at the path.*)

DaemonTypes ==
  /\ daemon \in [Proc -> {"off", "started", "unlinked", "receiving", "unbound",
                          "ended", "deaf"}]
  /\ root \in BOOLEAN

DiesWithItsProcess == where = "off" => daemon["game"] = "off"

ChildIsKnown == daemon["child"] # "off" => inherited

PathIsFree == daemon["game"] = "unlinked" /\ root /\ ~inherited => path = "none"

DaemonInv ==
  /\ DaemonTypes /\ DiesWithItsProcess /\ ChildIsKnown /\ PathIsFree
  /\ OwnDongle /\ RestartBinds

LEMMA DaemonRunStep ==
  ASSUME DaemonInv, NEW p \in Proc, sec_microdog40d_run(p),
         UNCHANGED <<startVars, inherited>>
  PROVE  DaemonInv'
<1> USE DEF DaemonInv, DaemonTypes, DiesWithItsProcess, ChildIsKnown, PathIsFree,
            OwnDongle, RestartBinds, Goes, startVars
<1>0. p = "game" \/ (p = "child" /\ inherited) \/ daemon[p] = "off"
  BY DEF Proc
<1>1. CASE unlink(p)
  BY <1>0, <1>1 DEF unlink, Proc
<1>2. CASE socket_fails(p)
  BY <1>0, <1>2 DEF socket_fails, Proc
<1>3. CASE bind(p)
  BY <1>0, <1>3 DEF bind, Proc
<1>4. CASE bind_fails(p)
  BY <1>0, <1>4 DEF bind_fails, Proc
<1>5. CASE recvfrom_fails(p)
  BY <1>0, <1>5 DEF recvfrom_fails, Proc
<1> QED
  BY <1>1, <1>2, <1>3, <1>4, <1>5 DEF sec_microdog40d_run

LEMMA DaemonStepKeeps ==
  ASSUME DaemonInv, [Next]_vars
  PROVE  DaemonInv'
<1> USE DEF DaemonInv, DaemonTypes, DiesWithItsProcess, ChildIsKnown, PathIsFree,
            OwnDongle, RestartBinds
<1>1. CASE Boot
  BY <1>1 DEF Boot, trap_main, dogVars
<1>2. CASE Step
  BY <1>2, StageStays DEF Step, dogVars
<1>3. CASE StartDongle
  BY <1>3 DEF StartDongle, At, GoOn, patch_microdog40_init, Proc
<1>4. CASE RunMain
  BY <1>4 DEF RunMain, orig_main, dogVars
<1>5. CASE MainEnds
  BY <1>5 DEF MainEnds, trap_after_main, End, dogVars
<1>6. CASE ProcessEnds
  BY <1>6 DEF ProcessEnds, gone, Dies, Proc
<1>7. CASE ChildAttaches
  BY <1>7 DEF ChildAttaches, patch_microdog40_init, startVars, Proc
<1>8. CASE ChildEnds
  BY <1>8 DEF ChildEnds, Dies, startVars, Proc
<1>9. CASE DaemonStep
  BY <1>9, DaemonRunStep DEF DaemonStep
<1>10. CASE UNCHANGED vars
  BY <1>10 DEF vars, startVars, dogVars
<1> QED
  BY <1>1, <1>2, <1>3, <1>4, <1>5, <1>6, <1>7, <1>8, <1>9, <1>10 DEF Next

LEMMA DaemonAlways == Spec => []DaemonInv
<1>1. Init => DaemonInv
  BY DEF Init, StartInit, DogInit, DaemonInv, DaemonTypes, DiesWithItsProcess,
         ChildIsKnown, PathIsFree, OwnDongle, RestartBinds, Proc
<1>2. DaemonInv /\ [Next]_vars => DaemonInv'
  BY DaemonStepKeeps
<1> QED
  BY <1>1, <1>2, PTL DEF Spec

\* As long as no child with the hooks has run, a daemon that waits for requests
\* has the path, whatever was at the path when the game was started.
THEOREM DongleIsReached == Spec => []OwnDongle
<1>1. DaemonInv => OwnDongle
  BY DEF DaemonInv
<1> QED
  BY <1>1, DaemonAlways, PTL

\* Nothing that an earlier process left at the path keeps a daemon of root from
\* binding to it.
THEOREM RestartAlwaysBinds == Spec => []RestartBinds
<1>1. DaemonInv => RestartBinds
  BY DEF DaemonInv
<1> QED
  BY <1>1, DaemonAlways, PTL

-----------------------------------------------------------------------------
(* The order of the stages of each game, as far as the handlers need it.   *)

StageNames ==
  {"bootstrapping", "data", "data_path", "eeprom", "exc_piuio", "exit",
   "hdd_check", "khack", "log", "microdog34", "microdog40", "mon_file",
   "mon_fs", "mon_io", "mon_open", "mon_usb", "mounts", "net_profile",
   "piubtn", "piuio", "profile_gen", "ram_wipe", "redir", "settings",
   "sound", "unlock", "usb_emu", "usb_init_fix", "usb_updates", "version",
   "x11_input", "x11_input2"}

InOrder(list, a, b) ==
  \A i, j \in DOMAIN list : list[i] = a /\ list[j] = b => i < j

Ordered == {"khack", "exit", "usb_init_fix", "usb_emu", "net_profile", "profile_gen"}

StagesInOrder(list) ==
  /\ InOrder(list, "khack", "exit")
  /\ InOrder(list, "exit", "usb_emu")
  /\ InOrder(list, "usb_init_fix", "usb_emu")
  /\ InOrder(list, "net_profile", "profile_gen")

Unordered(list) == \A i \in DOMAIN list : list[i] \notin Ordered

\* The stages up to the redirections do not matter for the order.
LEMMA UnorderedFirst ==
  ASSUME NEW fs \in Seq(StageNames), Unordered(fs),
         NEW patches \in Seq(StageNames), StagesInOrder(patches)
  PROVE  fs \o patches \in Seq(StageNames) /\ StagesInOrder(fs \o patches)
<1> DEFINE all == fs \o patches
<1>1. /\ all \in Seq(StageNames)
      /\ \A i \in DOMAIN all :
           all[i] \in Ordered => i - Len(fs) \in DOMAIN patches /\ all[i] = patches[i - Len(fs)]
  BY DEF Unordered
<1>2. ASSUME NEW a \in Ordered, NEW b \in Ordered, InOrder(patches, a, b)
      PROVE  InOrder(all, a, b)
  <2> SUFFICES ASSUME NEW i \in DOMAIN all, NEW j \in DOMAIN all, all[i] = a, all[j] = b
               PROVE  i < j
    BY DEF InOrder
  <2>1. i - Len(fs) < j - Len(fs)
    BY <1>1, <1>2 DEF InOrder
  <2> QED
    BY <2>1
<1> HIDE DEF all
<1>3. StagesInOrder(all)
  BY <1>2 DEF StagesInOrder, Ordered
<1> QED
  BY <1>1, <1>3 DEF all

LEMMA UnorderedPair ==
  ASSUME NEW s \in Seq(StageNames), NEW t \in Seq(StageNames), Unordered(s), Unordered(t)
  PROVE  s \o t \in Seq(StageNames) /\ Unordered(s \o t)
BY DEF Unordered

LEMMA PiecesUnordered ==
  /\ Opening \in Seq(StageNames) /\ Unordered(Opening)
  /\ Monitoring \in Seq(StageNames) /\ Unordered(Monitoring)
BY DEF Opening, Monitoring, Unordered, Ordered, StageNames

\* Up to its redirections no game attaches a handler whose order matters.
LEMMA FirstStagesUnordered ==
  /\ x2hook_fs \in Seq(StageNames) /\ Unordered(x2hook_fs)
  /\ zerohook_fs \in Seq(StageNames) /\ Unordered(zerohook_fs)
  /\ nxhook_fs \in Seq(StageNames) /\ Unordered(nxhook_fs)
  /\ nx2hook_fs \in Seq(StageNames) /\ Unordered(nx2hook_fs)
  /\ nxahook_fs \in Seq(StageNames) /\ Unordered(nxahook_fs)
  /\ fsthook_fs \in Seq(StageNames) /\ Unordered(fsthook_fs)
  /\ fexhook_fs \in Seq(StageNames) /\ Unordered(fexhook_fs)
  /\ f2hook_fs \in Seq(StageNames) /\ Unordered(f2hook_fs)
  /\ prihook_fs \in Seq(StageNames) /\ Unordered(prihook_fs)
  /\ exchook_fs \in Seq(StageNames) /\ Unordered(exchook_fs)
  /\ mk3hook_fs \in Seq(StageNames) /\ Unordered(mk3hook_fs)
  /\ prohook_fs \in Seq(StageNames) /\ Unordered(prohook_fs)
  /\ pro2hook_fs \in Seq(StageNames) /\ Unordered(pro2hook_fs)
<1>1. x2hook_fs \in Seq(StageNames) /\ Unordered(x2hook_fs)
  <2>1. <<"redir", "settings">> \in Seq(StageNames) /\ Unordered(<<"redir", "settings">>)
    BY DEF Unordered, Ordered, StageNames
  <2>2. Opening \o Monitoring \in Seq(StageNames)
         /\ Unordered(Opening \o Monitoring)
    BY PiecesUnordered, UnorderedPair, <2>1
  <2> QED
    BY PiecesUnordered, UnorderedPair, <2>1, <2>2 DEF x2hook_fs
<1>2. zerohook_fs \in Seq(StageNames) /\ Unordered(zerohook_fs)
  <2>1. <<"redir", "settings">> \in Seq(StageNames) /\ Unordered(<<"redir", "settings">>)
    BY DEF Unordered, Ordered, StageNames
  <2>2. Opening \o Monitoring \in Seq(StageNames)
         /\ Unordered(Opening \o Monitoring)
    BY PiecesUnordered, UnorderedPair, <2>1
  <2> QED
    BY PiecesUnordered, UnorderedPair, <2>1, <2>2 DEF zerohook_fs
<1>3. nxhook_fs \in Seq(StageNames) /\ Unordered(nxhook_fs)
  <2>1. <<"redir", "settings">> \in Seq(StageNames) /\ Unordered(<<"redir", "settings">>)
    BY DEF Unordered, Ordered, StageNames
  <2>2. Opening \o Monitoring \in Seq(StageNames)
         /\ Unordered(Opening \o Monitoring)
    BY PiecesUnordered, UnorderedPair, <2>1
  <2> QED
    BY PiecesUnordered, UnorderedPair, <2>1, <2>2 DEF nxhook_fs
<1>4. nx2hook_fs \in Seq(StageNames) /\ Unordered(nx2hook_fs)
  <2>1. <<"redir", "settings", "mounts">> \in Seq(StageNames) /\ Unordered(<<"redir", "settings", "mounts">>)
    BY DEF Unordered, Ordered, StageNames
  <2>2. Opening \o Monitoring \in Seq(StageNames)
         /\ Unordered(Opening \o Monitoring)
    BY PiecesUnordered, UnorderedPair, <2>1
  <2> QED
    BY PiecesUnordered, UnorderedPair, <2>1, <2>2 DEF nx2hook_fs
<1>5. nxahook_fs \in Seq(StageNames) /\ Unordered(nxahook_fs)
  <2>1. <<"redir", "settings", "mounts">> \in Seq(StageNames) /\ Unordered(<<"redir", "settings", "mounts">>)
    BY DEF Unordered, Ordered, StageNames
  <2>2. Opening \o Monitoring \in Seq(StageNames)
         /\ Unordered(Opening \o Monitoring)
    BY PiecesUnordered, UnorderedPair, <2>1
  <2> QED
    BY PiecesUnordered, UnorderedPair, <2>1, <2>2 DEF nxahook_fs
<1>6. fsthook_fs \in Seq(StageNames) /\ Unordered(fsthook_fs)
  <2>1. <<"redir", "settings", "mounts">> \in Seq(StageNames) /\ Unordered(<<"redir", "settings", "mounts">>)
    BY DEF Unordered, Ordered, StageNames
  <2>2. Opening \o Monitoring \in Seq(StageNames)
         /\ Unordered(Opening \o Monitoring)
    BY PiecesUnordered, UnorderedPair, <2>1
  <2> QED
    BY PiecesUnordered, UnorderedPair, <2>1, <2>2 DEF fsthook_fs
<1>7. fexhook_fs \in Seq(StageNames) /\ Unordered(fexhook_fs)
  <2>1. <<"redir", "settings", "mounts">> \in Seq(StageNames) /\ Unordered(<<"redir", "settings", "mounts">>)
    BY DEF Unordered, Ordered, StageNames
  <2>2. Opening \o Monitoring \in Seq(StageNames)
         /\ Unordered(Opening \o Monitoring)
    BY PiecesUnordered, UnorderedPair, <2>1
  <2> QED
    BY PiecesUnordered, UnorderedPair, <2>1, <2>2 DEF fexhook_fs
<1>8. f2hook_fs \in Seq(StageNames) /\ Unordered(f2hook_fs)
  <2>1. <<"redir", "settings", "mounts">> \in Seq(StageNames) /\ Unordered(<<"redir", "settings", "mounts">>)
    BY DEF Unordered, Ordered, StageNames
  <2>2. Opening \o Monitoring \in Seq(StageNames)
         /\ Unordered(Opening \o Monitoring)
    BY PiecesUnordered, UnorderedPair, <2>1
  <2> QED
    BY PiecesUnordered, UnorderedPair, <2>1, <2>2 DEF f2hook_fs
<1>9. prihook_fs \in Seq(StageNames) /\ Unordered(prihook_fs)
  <2>1. <<"redir", "settings", "mounts">> \in Seq(StageNames) /\ Unordered(<<"redir", "settings", "mounts">>)
    BY DEF Unordered, Ordered, StageNames
  <2>2. Opening \o Monitoring \in Seq(StageNames)
         /\ Unordered(Opening \o Monitoring)
    BY PiecesUnordered, UnorderedPair, <2>1
  <2> QED
    BY PiecesUnordered, UnorderedPair, <2>1, <2>2 DEF prihook_fs
<1>10. exchook_fs \in Seq(StageNames) /\ Unordered(exchook_fs)
  <2>1. <<"version">> \in Seq(StageNames) /\ Unordered(<<"version">>)
    BY DEF Unordered, Ordered, StageNames
  <2>2. <<"redir", "settings">> \in Seq(StageNames) /\ Unordered(<<"redir", "settings">>)
    BY DEF Unordered, Ordered, StageNames
  <2>3. Opening \o <<"version">> \in Seq(StageNames)
         /\ Unordered(Opening \o <<"version">>)
    BY PiecesUnordered, UnorderedPair, <2>1, <2>2
  <2>4. Opening \o <<"version">> \o Monitoring \in Seq(StageNames)
         /\ Unordered(Opening \o <<"version">> \o Monitoring)
    BY PiecesUnordered, UnorderedPair, <2>1, <2>2, <2>3
  <2> QED
    BY PiecesUnordered, UnorderedPair, <2>1, <2>2, <2>3, <2>4 DEF exchook_fs
<1>11. mk3hook_fs \in Seq(StageNames) /\ Unordered(mk3hook_fs)
  <2>1. <<"bootstrapping", "log", "data_path">> \in Seq(StageNames) /\ Unordered(<<"bootstrapping", "log", "data_path">>)
    BY DEF Unordered, Ordered, StageNames
  <2>2. <<"redir">> \in Seq(StageNames) /\ Unordered(<<"redir">>)
    BY DEF Unordered, Ordered, StageNames
  <2>3. <<"bootstrapping", "log", "data_path">> \o Monitoring \in Seq(StageNames)
         /\ Unordered(<<"bootstrapping", "log", "data_path">> \o Monitoring)
    BY PiecesUnordered, UnorderedPair, <2>1, <2>2
  <2> QED
    BY PiecesUnordered, UnorderedPair, <2>1, <2>2, <2>3 DEF mk3hook_fs
<1>12. prohook_fs \in Seq(StageNames) /\ Unordered(prohook_fs)
  <2>1. <<"log", "bootstrapping">> \in Seq(StageNames) /\ Unordered(<<"log", "bootstrapping">>)
    BY DEF Unordered, Ordered, StageNames
  <2>2. <<"redir", "settings", "data">> \in Seq(StageNames) /\ Unordered(<<"redir", "settings", "data">>)
    BY DEF Unordered, Ordered, StageNames
  <2>3. <<"log", "bootstrapping">> \o Monitoring \in Seq(StageNames)
         /\ Unordered(<<"log", "bootstrapping">> \o Monitoring)
    BY PiecesUnordered, UnorderedPair, <2>1, <2>2
  <2> QED
    BY PiecesUnordered, UnorderedPair, <2>1, <2>2, <2>3 DEF prohook_fs
<1>13. pro2hook_fs \in Seq(StageNames) /\ Unordered(pro2hook_fs)
  <2>1. <<"log", "bootstrapping">> \in Seq(StageNames) /\ Unordered(<<"log", "bootstrapping">>)
    BY DEF Unordered, Ordered, StageNames
  <2>2. <<"redir", "data">> \in Seq(StageNames) /\ Unordered(<<"redir", "data">>)
    BY DEF Unordered, Ordered, StageNames
  <2>3. <<"log", "bootstrapping">> \o Monitoring \in Seq(StageNames)
         /\ Unordered(<<"log", "bootstrapping">> \o Monitoring)
    BY PiecesUnordered, UnorderedPair, <2>1, <2>2
  <2> QED
    BY PiecesUnordered, UnorderedPair, <2>1, <2>2, <2>3 DEF pro2hook_fs
<1> QED
  BY <1>1, <1>2, <1>3, <1>4, <1>5, <1>6, <1>7, <1>8, <1>9, <1>10, <1>11, <1>12, <1>13

\* The patches of each game are attached in order.
LEMMA PatchesInOrder ==
  /\ x2hook_patches \in Seq(StageNames) /\ StagesInOrder(x2hook_patches)
  /\ zerohook_patches \in Seq(StageNames) /\ StagesInOrder(zerohook_patches)
  /\ nxhook_patches \in Seq(StageNames) /\ StagesInOrder(nxhook_patches)
  /\ nx2hook_patches \in Seq(StageNames) /\ StagesInOrder(nx2hook_patches)
  /\ nxahook_patches \in Seq(StageNames) /\ StagesInOrder(nxahook_patches)
  /\ fsthook_patches \in Seq(StageNames) /\ StagesInOrder(fsthook_patches)
  /\ fexhook_patches \in Seq(StageNames) /\ StagesInOrder(fexhook_patches)
  /\ f2hook_patches \in Seq(StageNames) /\ StagesInOrder(f2hook_patches)
  /\ prihook_patches \in Seq(StageNames) /\ StagesInOrder(prihook_patches)
  /\ exchook_patches \in Seq(StageNames) /\ StagesInOrder(exchook_patches)
  /\ mk3hook_patches \in Seq(StageNames) /\ StagesInOrder(mk3hook_patches)
  /\ prohook_patches \in Seq(StageNames) /\ StagesInOrder(prohook_patches)
  /\ pro2hook_patches \in Seq(StageNames) /\ StagesInOrder(pro2hook_patches)
<1>0. Layers \in Seq(StageNames)
  BY DEF Layers, StageNames
<1>1. x2hook_patches \in Seq(StageNames) /\ StagesInOrder(x2hook_patches)
  <2>1. <<"unlock", "x11_input", "microdog34">> \in Seq(StageNames)
    BY DEF StageNames
  <2>2. x2hook_patches \in Seq(StageNames)
    BY <1>0, <2>1 DEF x2hook_patches
  <2>3. StagesInOrder(x2hook_patches)
    BY DEF x2hook_patches, Layers, StagesInOrder, InOrder
  <2> QED
    BY <2>2, <2>3
<1>2. zerohook_patches \in Seq(StageNames) /\ StagesInOrder(zerohook_patches)
  <2>1. <<"unlock", "x11_input", "microdog34", "hdd_check">> \in Seq(StageNames)
    BY DEF StageNames
  <2>2. zerohook_patches \in Seq(StageNames)
    BY <1>0, <2>1 DEF zerohook_patches
  <2>3. StagesInOrder(zerohook_patches)
    BY DEF zerohook_patches, Layers, StagesInOrder, InOrder
  <2> QED
    BY <2>2, <2>3
<1>3. nxhook_patches \in Seq(StageNames) /\ StagesInOrder(nxhook_patches)
  <2>1. <<"unlock", "x11_input", "microdog34", "hdd_check">> \in Seq(StageNames)
    BY DEF StageNames
  <2>2. nxhook_patches \in Seq(StageNames)
    BY <1>0, <2>1 DEF nxhook_patches
  <2>3. StagesInOrder(nxhook_patches)
    BY DEF nxhook_patches, Layers, StagesInOrder, InOrder
  <2> QED
    BY <2>2, <2>3
<1>4. nx2hook_patches \in Seq(StageNames) /\ StagesInOrder(nx2hook_patches)
  <2>1. <<"x11_input", "microdog40", "hdd_check">> \in Seq(StageNames)
    BY DEF StageNames
  <2>2. <<"net_profile", "profile_gen">> \in Seq(StageNames)
    BY DEF StageNames
  <2>3. nx2hook_patches \in Seq(StageNames)
    BY <1>0, <2>1, <2>2 DEF nx2hook_patches
  <2>4. StagesInOrder(nx2hook_patches)
    BY DEF nx2hook_patches, Layers, StagesInOrder, InOrder
  <2> QED
    BY <2>3, <2>4
<1>5. nxahook_patches \in Seq(StageNames) /\ StagesInOrder(nxahook_patches)
  <2>1. <<"x11_input", "microdog40", "hdd_check">> \in Seq(StageNames)
    BY DEF StageNames
  <2>2. <<"net_profile", "profile_gen">> \in Seq(StageNames)
    BY DEF StageNames
  <2>3. nxahook_patches \in Seq(StageNames)
    BY <1>0, <2>1, <2>2 DEF nxahook_patches
  <2>4. StagesInOrder(nxahook_patches)
    BY DEF nxahook_patches, Layers, StagesInOrder, InOrder
  <2> QED
    BY <2>3, <2>4
<1>6. fsthook_patches \in Seq(StageNames) /\ StagesInOrder(fsthook_patches)
  <2>1. <<"x11_input", "microdog40", "hdd_check">> \in Seq(StageNames)
    BY DEF StageNames
  <2>2. fsthook_patches \in Seq(StageNames)
    BY <1>0, <2>1 DEF fsthook_patches
  <2>3. StagesInOrder(fsthook_patches)
    BY DEF fsthook_patches, Layers, StagesInOrder, InOrder
  <2> QED
    BY <2>2, <2>3
<1>7. fexhook_patches \in Seq(StageNames) /\ StagesInOrder(fexhook_patches)
  <2>1. <<"x11_input", "microdog40", "hdd_check">> \in Seq(StageNames)
    BY DEF StageNames
  <2>2. fexhook_patches \in Seq(StageNames)
    BY <1>0, <2>1 DEF fexhook_patches
  <2>3. StagesInOrder(fexhook_patches)
    BY DEF fexhook_patches, Layers, StagesInOrder, InOrder
  <2> QED
    BY <2>2, <2>3
<1>8. f2hook_patches \in Seq(StageNames) /\ StagesInOrder(f2hook_patches)
  <2>1. <<"x11_input", "hdd_check">> \in Seq(StageNames)
    BY DEF StageNames
  <2>2. f2hook_patches \in Seq(StageNames)
    BY <1>0, <2>1 DEF f2hook_patches
  <2>3. StagesInOrder(f2hook_patches)
    BY DEF f2hook_patches, Layers, StagesInOrder, InOrder
  <2> QED
    BY <2>2, <2>3
<1>9. prihook_patches \in Seq(StageNames) /\ StagesInOrder(prihook_patches)
  <2>1. <<"x11_input", "hdd_check", "ram_wipe">> \in Seq(StageNames)
    BY DEF StageNames
  <2>2. <<"usb_updates">> \in Seq(StageNames)
    BY DEF StageNames
  <2>3. prihook_patches \in Seq(StageNames)
    BY <1>0, <2>1, <2>2 DEF prihook_patches
  <2>4. StagesInOrder(prihook_patches)
    BY DEF prihook_patches, Layers, StagesInOrder, InOrder
  <2> QED
    BY <2>3, <2>4
<1>10. exchook_patches \in Seq(StageNames) /\ StagesInOrder(exchook_patches)
  <2>1. <<"x11_input", "sound", "eeprom", "exc_piuio">> \in Seq(StageNames)
    BY DEF StageNames
  <2>2. exchook_patches \in Seq(StageNames)
    BY <1>0, <2>1 DEF exchook_patches
  <2>3. StagesInOrder(exchook_patches)
    BY DEF exchook_patches, Layers, StagesInOrder, InOrder
  <2> QED
    BY <2>2, <2>3
<1>11. mk3hook_patches \in Seq(StageNames) /\ StagesInOrder(mk3hook_patches)
  <2>1. <<"x11_input">> \in Seq(StageNames)
    BY DEF StageNames
  <2>2. mk3hook_patches \in Seq(StageNames)
    BY <1>0, <2>1 DEF mk3hook_patches
  <2>3. StagesInOrder(mk3hook_patches)
    BY DEF mk3hook_patches, Layers, StagesInOrder, InOrder
  <2> QED
    BY <2>2, <2>3
<1>12. prohook_patches \in Seq(StageNames) /\ StagesInOrder(prohook_patches)
  <2>1. <<"x11_input", "x11_input2", "usb_init_fix", "khack", "exit", "usb_emu", "piuio", "piubtn">> \in Seq(StageNames)
    BY DEF StageNames
  <2>2. prohook_patches \in Seq(StageNames)
    BY <1>0, <2>1 DEF prohook_patches
  <2>3. StagesInOrder(prohook_patches)
    BY DEF prohook_patches, Layers, StagesInOrder, InOrder
  <2> QED
    BY <2>2, <2>3
<1>13. pro2hook_patches \in Seq(StageNames) /\ StagesInOrder(pro2hook_patches)
  <2>1. <<"x11_input", "x11_input2", "usb_init_fix", "khack", "exit", "usb_emu", "piuio", "piubtn">> \in Seq(StageNames)
    BY DEF StageNames
  <2>2. pro2hook_patches \in Seq(StageNames)
    BY <1>0, <2>1 DEF pro2hook_patches
  <2>3. StagesInOrder(pro2hook_patches)
    BY DEF pro2hook_patches, Layers, StagesInOrder, InOrder
  <2> QED
    BY <2>2, <2>3
<1> QED
  BY <1>1, <1>2, <1>3, <1>4, <1>5, <1>6, <1>7, <1>8, <1>9, <1>10, <1>11, <1>12, <1>13

LEMMA StagesOfGames ==
  ASSUME NEW g \in DOMAIN trap_before_main
  PROVE  trap_before_main[g] \in Seq(StageNames) /\ StagesInOrder(trap_before_main[g])
<1> DEFINE Fine(list) == list \in Seq(StageNames) /\ StagesInOrder(list)
<1>1. \A fs, patches :
        /\ fs \in Seq(StageNames) /\ Unordered(fs)
        /\ patches \in Seq(StageNames) /\ StagesInOrder(patches)
        => Fine(fs \o patches)
  BY UnorderedFirst
<1> HIDE DEF Fine
<1>2. /\ Fine(x2hook_fs \o x2hook_patches)
      /\ Fine(zerohook_fs \o zerohook_patches)
      /\ Fine(nxhook_fs \o nxhook_patches)
      /\ Fine(nx2hook_fs \o nx2hook_patches)
      /\ Fine(nxahook_fs \o nxahook_patches)
      /\ Fine(fsthook_fs \o fsthook_patches)
      /\ Fine(fexhook_fs \o fexhook_patches)
      /\ Fine(f2hook_fs \o f2hook_patches)
      /\ Fine(prihook_fs \o prihook_patches)
      /\ Fine(exchook_fs \o exchook_patches)
      /\ Fine(mk3hook_fs \o mk3hook_patches)
      /\ Fine(prohook_fs \o prohook_patches)
      /\ Fine(pro2hook_fs \o pro2hook_patches)
  BY <1>1, FirstStagesUnordered, PatchesInOrder
<1>3. g \in {"x2hook", "zerohook", "nxhook", "nx2hook", "nxahook", "fsthook",
             "fexhook", "f2hook", "prihook", "exchook", "mk3hook", "prohook", "pro2hook"}
  BY DEF trap_before_main
<1>4. /\ trap_before_main.x2hook = x2hook_fs \o x2hook_patches
      /\ trap_before_main.zerohook = zerohook_fs \o zerohook_patches
      /\ trap_before_main.nxhook = nxhook_fs \o nxhook_patches
      /\ trap_before_main.nx2hook = nx2hook_fs \o nx2hook_patches
      /\ trap_before_main.nxahook = nxahook_fs \o nxahook_patches
      /\ trap_before_main.fsthook = fsthook_fs \o fsthook_patches
      /\ trap_before_main.fexhook = fexhook_fs \o fexhook_patches
      /\ trap_before_main.f2hook = f2hook_fs \o f2hook_patches
      /\ trap_before_main.prihook = prihook_fs \o prihook_patches
      /\ trap_before_main.exchook = exchook_fs \o exchook_patches
      /\ trap_before_main.mk3hook = mk3hook_fs \o mk3hook_patches
      /\ trap_before_main.prohook = prohook_fs \o prohook_patches
      /\ trap_before_main.pro2hook = pro2hook_fs \o pro2hook_patches
  BY DEF trap_before_main
<1>5. Fine(trap_before_main[g])
  BY <1>2, <1>3, <1>4
<1> QED
  BY <1>5 DEF Fine

-----------------------------------------------------------------------------
(* The handlers.  OrderInv is inductive: what is on a chain are stages that *)
(* the start has been through, pushed in the order of the stages.           *)

Stages == trap_before_main[game]

\* The first n stages are done, and the chain has its handlers from them.
Attached(list, n) ==
  /\ list \in Seq(StageNames)
  /\ \A i \in DOMAIN list : \E p \in 1 .. n : Stages[p] = list[i]
  /\ \A i, j \in DOMAIN list :
       i < j => \E p, q \in 1 .. n : p < q /\ Stages[p] = list[i] /\ Stages[q] = list[j]

DoneUpTo(n) ==
  /\ n \in 0 .. Len(Stages)
  /\ todo = SubSeq(Stages, n + 1, Len(Stages))
  /\ \A c \in Chains : Attached(chains[c], n)

OrderInv ==
  IF where = "off" THEN chains = NoHandlers
  ELSE game \in DOMAIN trap_before_main /\ \E n \in Nat : DoneUpTo(n)

\* The next stage is done, and the chain has no new handler, or that of the stage.
LEMMA AttachedNext ==
  ASSUME game \in DOMAIN trap_before_main,
         NEW n \in Nat, n + 1 \in 1 .. Len(Stages), NEW list, Attached(list, n)
  PROVE  Attached(list, n + 1) /\ Attached(Append(list, Stages[n + 1]), n + 1)
<1> USE DEF Attached
<1>1. Attached(list, n + 1)
  OBVIOUS
<1>2. Stages \in Seq(StageNames)
  BY StagesOfGames DEF Stages
<1> DEFINE more == Append(list, Stages[n + 1])
<1>3. /\ more \in Seq(StageNames)
      /\ DOMAIN more = DOMAIN list \cup {Len(list) + 1}
      /\ \A i \in DOMAIN list : more[i] = list[i]
      /\ more[Len(list) + 1] = Stages[n + 1]
      /\ DOMAIN list = 1 .. Len(list) /\ Len(list) \in Nat
  BY <1>2
<1> HIDE DEF more
<1>4. \A i \in DOMAIN more : \E p \in 1 .. n + 1 : Stages[p] = more[i]
  BY <1>3
<1>5. ASSUME NEW i \in DOMAIN more, NEW j \in DOMAIN more, i < j
      PROVE  \E p, q \in 1 .. n + 1 : p < q /\ Stages[p] = more[i] /\ Stages[q] = more[j]
  <2>1. i \in DOMAIN list
    BY <1>3, <1>5
  <2>2. CASE j \in DOMAIN list
    <3>1. PICK p \in 1 .. n, q \in 1 .. n :
             p < q /\ Stages[p] = list[i] /\ Stages[q] = list[j]
      BY <1>5, <2>1, <2>2
    <3>2. p \in 1 .. n + 1 /\ q \in 1 .. n + 1
      OBVIOUS
    <3> QED
      BY <1>3, <2>1, <2>2, <3>1, <3>2
  <2>3. CASE j = Len(list) + 1
    <3>1. PICK p \in 1 .. n : Stages[p] = list[i]
      BY <2>1
    <3>2. p < n + 1 /\ p \in 1 .. n + 1 /\ n + 1 \in 1 .. n + 1
      OBVIOUS
    <3> QED
      BY <1>3, <2>1, <2>3, <3>1, <3>2
  <2> QED
    BY <1>3, <2>2, <2>3
<1> QED
  BY <1>1, <1>3, <1>4, <1>5 DEF more

\* A stage of the start, whatever it does otherwise.
LEMMA TakeStage ==
  ASSUME game \in DOMAIN trap_before_main, NEW n \in Nat, DoneUpTo(n), todo # <<>>
  PROVE  /\ n + 1 \in 1 .. Len(Stages)
         /\ Head(todo) = Stages[n + 1]
         /\ Tail(todo) = SubSeq(Stages, n + 2, Len(Stages))
<1>1. Stages \in Seq(StageNames)
  BY StagesOfGames DEF Stages
<1>2. todo = SubSeq(Stages, n + 1, Len(Stages)) /\ n \in 0 .. Len(Stages)
  BY DEF DoneUpTo
<1> HIDE DEF Stages
<1>3. n + 1 \in 1 .. Len(Stages)
  BY <1>1, <1>2
<1> QED
  BY <1>1, <1>2, <1>3

LEMMA FrameKeepsOrder ==
  ASSUME OrderInv, StageFrame
  PROVE  OrderInv'
<1> USE DEF StageFrame
<1>0. game \in DOMAIN trap_before_main
  BY DEF OrderInv
<1>1. PICK n \in Nat : DoneUpTo(n)
  BY DEF OrderInv
<1>2. CASE todo' = todo
  <2>1. DoneUpTo(n)'
    BY <1>1, <1>2 DEF DoneUpTo, Attached, Stages
  <2> QED
    BY <1>0, <1>1, <2>1 DEF OrderInv
<1>3. CASE todo # <<>> /\ todo' = Tail(todo)
  <2>1. n + 1 \in 1 .. Len(Stages) /\ todo' = SubSeq(Stages, n + 2, Len(Stages))
    BY <1>0, <1>1, <1>3, TakeStage
  <2>2. \A c \in Chains : Attached(chains[c], n + 1)
    BY <1>0, <1>1, <2>1, AttachedNext DEF DoneUpTo
  <2>3. DoneUpTo(n + 1)'
    <3>1. Stages' = Stages
      BY DEF Stages
    <3>2. \A c \in Chains : Attached(chains[c], n + 1)'
      BY <2>2, <3>1 DEF Attached
    <3>3. (n + 1) + 1 = n + 2
      OBVIOUS
    <3> QED
      BY <2>1, <3>1, <3>2, <3>3 DEF DoneUpTo
  <2> QED
    BY <1>0, <1>1, <2>3 DEF OrderInv
<1> QED
  BY <1>2, <1>3

LEMMA PushKeepsOrder ==
  ASSUME OrderInv, push_handler
  PROVE  OrderInv'
<1>0. /\ game \in DOMAIN trap_before_main /\ where' # "off" /\ game' = game
      /\ todo # <<>> /\ todo' = Tail(todo)
  BY DEF OrderInv, push_handler, GoOn
<1>1. PICK n \in Nat : DoneUpTo(n)
  BY DEF OrderInv, push_handler
<1>2. /\ n + 1 \in 1 .. Len(Stages) /\ Head(todo) = Stages[n + 1]
      /\ todo' = SubSeq(Stages, n + 2, Len(Stages))
  BY <1>0, <1>1, TakeStage
<1>3. \A c \in Chains : chains'[c] \in {chains[c], Append(chains[c], Stages[n + 1])}
  BY <1>2 DEF push_handler
<1>4. \A c \in Chains : Attached(chains'[c], n + 1)
  <2> TAKE c \in Chains
  <2>1. Attached(chains[c], n)
    BY <1>1 DEF DoneUpTo
  <2>2. Attached(chains[c], n + 1) /\ Attached(Append(chains[c], Stages[n + 1]), n + 1)
    BY <1>0, <1>2, <2>1, AttachedNext
  <2> QED
    BY <1>3, <2>2
<1>5. DoneUpTo(n + 1)'
  <2>1. Stages' = Stages
    BY <1>0 DEF Stages
  <2>2. ASSUME NEW c \in Chains
        PROVE  Attached(chains[c], n + 1)'
    <3>1. Attached(chains'[c], n + 1)
      BY <1>4
    <3> QED
      BY <2>1, <3>1 DEF Attached
  <2>3. (n + 1) + 1 = n + 2
    OBVIOUS
  <2> QED
    BY <1>2, <2>1, <2>2, <2>3 DEF DoneUpTo
<1> QED
  BY <1>0, <1>1, <1>5 DEF OrderInv

LEMMA BootKeepsOrder ==
  ASSUME OrderInv, trap_main
  PROVE  OrderInv'
<1> USE DEF trap_main
<1>1. chains' = NoHandlers /\ game' \in DOMAIN trap_before_main /\ where' # "off"
  BY HooksAreGames DEF OrderInv
<1>2. Stages' \in Seq(StageNames) /\ todo' = Stages'
  BY <1>1, StagesOfGames DEF Stages
<1>3. Len(Stages') \in Nat /\ todo' = SubSeq(Stages', 0 + 1, Len(Stages'))
  BY <1>2
<1>4. \A c \in Chains : Attached(chains[c], 0)'
  BY <1>1 DEF Attached, NoHandlers
<1>5. DoneUpTo(0)'
  BY <1>3, <1>4 DEF DoneUpTo
<1> QED
  BY <1>1, <1>5 DEF OrderInv

LEMMA OrderStep ==
  ASSUME OrderInv, [Next]_vars
  PROVE  OrderInv'
<1>1. CASE Boot
  BY <1>1, BootKeepsOrder DEF Boot
<1>2. CASE Step
  BY <1>2, StageStays, FrameKeepsOrder, PushKeepsOrder DEF Step
<1>3. CASE StartDongle \/ RunMain \/ MainEnds
  <2>1. StageFrame
    BY <1>3 DEF StartDongle, RunMain, MainEnds, At, GoOn, orig_main, trap_after_main,
                End, StageFrame
  <2> QED
    BY <2>1, FrameKeepsOrder
<1>4. CASE ProcessEnds
  BY <1>4 DEF ProcessEnds, gone, OrderInv
<1>5. CASE UNCHANGED startVars
  BY <1>5 DEF startVars, OrderInv, DoneUpTo, Attached, Stages
<1> QED
  BY <1>1, <1>2, <1>3, <1>4, <1>5
     DEF Next, ChildAttaches, ChildEnds, DaemonStep, vars

\* In every game the handlers of a chain see a call in the order that their work
\* needs, whichever of them the options ask for.
THEOREM HandlersAreInOrder == Spec => []HandlersInOrder
<1>1. Init => OrderInv
  BY DEF Init, StartInit, OrderInv
<1>2. OrderInv /\ [Next]_vars => OrderInv'
  BY OrderStep
<1>3. OrderInv => HandlersInOrder
  <2> SUFFICES ASSUME OrderInv, where = "main"
               PROVE  HandlersInOrder
    BY DEF HandlersInOrder
  <2>1. PICK n \in Nat : DoneUpTo(n)
    BY DEF OrderInv
  <2>2. Stages \in Seq(StageNames) /\ StagesInOrder(Stages)
    BY StagesOfGames DEF OrderInv, Stages
  <2>3. n \in 0 .. Len(Stages) /\ \A c \in Chains : Attached(chains[c], n)
    BY <2>1 DEF DoneUpTo
  <2>4. ASSUME NEW a, NEW b, a # b, InOrder(Stages, a, b), NEW c \in Chains
        PROVE  CalledBefore(a, b, c)
    <3> SUFFICES ASSUME NEW i \in DOMAIN chains[c], NEW j \in DOMAIN chains[c],
                        chains[c][i] = a, chains[c][j] = b, j < i
                 PROVE  FALSE
      <4>1. DOMAIN chains[c] \subseteq Nat
        BY <2>3 DEF Attached
      <4> QED
        BY <2>4, <4>1 DEF CalledBefore
    <3>1. PICK p \in 1 .. n, q \in 1 .. n : p < q /\ Stages[p] = b /\ Stages[q] = a
      BY <2>3 DEF Attached
    <3>2. p \in DOMAIN Stages /\ q \in DOMAIN Stages
      BY <2>2, <2>3
    <3> QED
      BY <2>4, <3>1, <3>2 DEF InOrder
  <2> QED
    BY <2>2, <2>4 DEF HandlersInOrder, StagesInOrder, Chains
<1> QED
  BY <1>1, <1>2, <1>3, PTL DEF Spec

-----------------------------------------------------------------------------
(* The table of options of each game: no two entries have the same name,   *)
(* and every entry has a letter.                                           *)

\* What the tables of options.c are made of: their letters and their defaults.
Letters == {"a", "b", "c", "d", "e", "f", "g", "i", "j", "k", "l", "m", "n",
            "o", "p", "q", "r", "s", "t", "u", "v", "w", "x", "y", "z"}
OptionTypes == {"INT", "DOUBLE", "STR", "BOOL"}
DefaultValues == {"./game", "./save", "0", "0000000000000000", "1.0", "115",
                  "20040408", "4", "4.1666666666666670", "NULL", "dmix",
                  "false", "pumptools.log"}
OptionEntries(names) ==
  [name : names, param : Letters, type : OptionTypes, default_value : DefaultValues]

\* A table of options whose names are of a set, no two of them the same.
IsTable(def, names) ==
  /\ def \in Seq(OptionEntries(names))
  /\ \A j, k \in DOMAIN def : def[j].name = def[k].name => j = k

\* One entry is a table.
LEMMA OneEntry ==
  ASSUME NEW name, NEW entry \in OptionEntries({name})
  PROVE  IsTable(<<entry>>, {name})
<1>1. <<entry>> \in Seq(OptionEntries({name}))
  OBVIOUS
<1>2. \A j \in DOMAIN <<entry>> : j = 1 /\ <<entry>>[j] = entry
  OBVIOUS
<1> QED BY <1>1, <1>2, Zenon DEF IsTable

\* So is an option as the tables write it.
LEMMA OneOption ==
  ASSUME NEW name, NEW param \in Letters, NEW type \in OptionTypes,
         NEW default \in DefaultValues
  PROVE  IsTable(Opt(name, param, type, default), {name})
<1>1. [name |-> name, param |-> param, type |-> type, default_value |-> default]
        \in OptionEntries({name})
  BY DEF OptionEntries
<1> QED BY <1>1, OneEntry DEF Opt

\* Two tables that share no name are one table, one behind the other.
LEMMA JoinedTables ==
  ASSUME NEW s, NEW M, IsTable(s, M), NEW t, NEW N, IsTable(t, N), M \cap N = {}
  PROVE  IsTable(s \o t, M \cup N)
<1> DEFINE all == s \o t
           S == OptionEntries(M \cup N)
<1>1. /\ \A e \in OptionEntries(M) : e \in S /\ e.name \in M
      /\ \A e \in OptionEntries(N) : e \in S /\ e.name \in N
  BY DEF OptionEntries
<1>2. s \in Seq(OptionEntries(M)) /\ t \in Seq(OptionEntries(N))
  BY DEF IsTable
<1> HIDE DEF S
<1>3. s \in Seq(S) /\ t \in Seq(S) /\ all \in Seq(S)
  BY <1>1, <1>2
<1>4. /\ \A j \in DOMAIN s : s[j].name \in M
      /\ \A j \in DOMAIN t : t[j].name \in N
  BY <1>1, <1>2
<1>5. \A j \in DOMAIN all :
        \/ j \in DOMAIN s /\ all[j] = s[j]
        \/ j \notin DOMAIN s /\ j - Len(s) \in DOMAIN t /\ all[j] = t[j - Len(s)]
  BY <1>3
<1>6. \A j, k \in DOMAIN all : all[j].name = all[k].name => j = k
  <2> SUFFICES ASSUME NEW j \in DOMAIN all, NEW k \in DOMAIN all, all[j].name = all[k].name
               PROVE  j = k
    OBVIOUS
  <2> HIDE DEF all
  <2>1. CASE j \in DOMAIN s /\ k \in DOMAIN s
    BY <1>5, <2>1 DEF IsTable
  <2>2. CASE j \notin DOMAIN s /\ k \notin DOMAIN s
    <3>1. j - Len(s) = k - Len(s)
      BY <1>5, <2>2 DEF IsTable
    <3> QED BY <1>3, <3>1
  <2>3. CASE (j \in DOMAIN s) # (k \in DOMAIN s)
    BY <1>4, <1>5, <2>3
  <2> QED BY <2>1, <2>2, <2>3
<1> QED BY <1>3, <1>6, Zenon DEF IsTable, S

\* A set of numbers with a member has a least member.
LEMMA LeastOf ==
  ASSUME NEW T \in SUBSET Nat, NEW n \in T
  PROVE  \E m \in T : \A k \in T : m <= k
<1> DEFINE R == OpToRel(<, Nat)
<1>1. \A x, y \in Nat : <<x, y>> \in R <=> x < y
  BY DEF OpToRel
<1>2. IsWellFoundedOn(R, Nat)
  BY NatLessThanWellFounded
<1> HIDE DEF R
<1>3. PICK m \in T : \A k \in T : ~(<<k, m>> \in R)
  BY <1>2, WFMin
<1>4. \A k \in T : k \in Nat /\ m \in Nat /\ ~(k < m)
  BY <1>1, <1>3
<1> QED BY <1>4

\* A word stands for an entry with a letter of its own when it has that letter.
LEMMA EntryOfItsOwn ==
  ASSUME NEW def, NEW names, IsTable(def, names), NEW j \in DOMAIN def,
         \A k \in DOMAIN def : def[k].param = def[j].param => k = j,
         NEW word
  PROVE  EntryOf(def, word) = j <=> word.dash = def[j].param
<1> DEFINE fits == {k \in DOMAIN def : word.dash # "" /\ def[k].param = word.dash}
           first == CHOOSE k \in fits : \A l \in fits : k <= l
<1>0. /\ DOMAIN def \subseteq Nat \ {0}
      /\ \A k \in DOMAIN def : def[k].param # ""
  <2>1. \A e \in OptionEntries(names) : e.param # ""
    BY DEF OptionEntries, Letters
  <2>2. def \in Seq(OptionEntries(names))
    BY DEF IsTable
  <2>3. \A k \in DOMAIN def : k \in Nat \ {0} /\ def[k] \in OptionEntries(names)
    BY <2>2
  <2> QED BY <2>1, <2>3
<1>1. EntryOf(def, word) = IF fits = {} THEN 0 ELSE first
  BY Zenon DEF EntryOf
<1>2. CASE word.dash = def[j].param
  <2>1. fits = {j} /\ j \in Nat
    BY <1>0, <1>2
  <2>2. first = j
    <3> HIDE DEF fits
    <3> QED BY <2>1
  <2> HIDE DEF fits, first
  <2> QED BY <1>1, <1>2, <2>1, <2>2
<1>3. CASE word.dash # def[j].param
  <2>1. j \notin fits /\ fits \in SUBSET Nat /\ j # 0
    BY <1>0, <1>3
  <2>2. fits # {} => first \in fits
    <3> HIDE DEF fits
    <3> SUFFICES ASSUME NEW n \in fits PROVE first \in fits
      OBVIOUS
    <3>1. \E m \in fits : \A k \in fits : m <= k
      BY <2>1, LeastOf
    <3> QED BY <3>1
  <2> HIDE DEF fits, first
  <2> QED BY <1>1, <1>3, <2>1, <2>2
<1> QED BY <1>2, <1>3

\* No two of five sets share a member.
Apart(A, B, C, D, E) ==
  /\ A \cap B = {} /\ A \cap C = {} /\ A \cap D = {} /\ A \cap E = {}
  /\ B \cap C = {} /\ B \cap D = {} /\ B \cap E = {}
  /\ C \cap D = {} /\ C \cap E = {} /\ D \cap E = {}

\* Three, four and five tables that share no name are one table.
LEMMA ThreeTables ==
  ASSUME NEW a, NEW A, IsTable(a, A),
         NEW b, NEW B, IsTable(b, B),
         NEW c, NEW C, IsTable(c, C),
         Apart(A, B, C, {}, {})
  PROVE  IsTable(a \o b \o c, A \cup B \cup C)
<1>1. A \cap B = {} /\ (A \cup B) \cap C = {}
  BY DEF Apart
<1> QED BY <1>1, JoinedTables

LEMMA FourTables ==
  ASSUME NEW a, NEW A, IsTable(a, A),
         NEW b, NEW B, IsTable(b, B),
         NEW c, NEW C, IsTable(c, C),
         NEW d, NEW D, IsTable(d, D),
         Apart(A, B, C, D, {})
  PROVE  IsTable(a \o b \o c \o d, A \cup B \cup C \cup D)
<1>1. Apart(A, B, C, {}, {}) /\ (A \cup B \cup C) \cap D = {}
  BY DEF Apart
<1> QED BY <1>1, ThreeTables, JoinedTables

LEMMA FiveTables ==
  ASSUME NEW a, NEW A, IsTable(a, A),
         NEW b, NEW B, IsTable(b, B),
         NEW c, NEW C, IsTable(c, C),
         NEW d, NEW D, IsTable(d, D),
         NEW e, NEW E, IsTable(e, E),
         Apart(A, B, C, D, E)
  PROVE  IsTable(a \o b \o c \o d \o e, A \cup B \cup C \cup D \cup E)
<1>1. Apart(A, B, C, D, {}) /\ (A \cup B \cup C \cup D) \cap E = {}
  BY DEF Apart
<1> QED BY <1>1, FourTables, JoinedTables

\* The names of each group of options that several tables have.
HookMonNames == {"patch.hook_mon.file"} \cup {"patch.hook_mon.fs"}
           \cup {"patch.hook_mon.io"} \cup {"patch.hook_mon.open"}
           \cup {"patch.hook_mon.usb"}
MainLoopNames == {"patch.hook_main_loop.disable_built_in_inputs"}
            \cup {"patch_hook_main_loop.x11_input_handler"}
NetProfileNames == {"patch.net_profile.server"}
              \cup {"patch.net_profile.machine_id"}
NetProfileCertNames == {"patch.net_profile.verbose_log_output"}
                  \cup {"patch.net_profile.cert_dir_path"}
PiuioNames == {"patch.piuio.emu_lib"} \cup {"patch.piuio_exit.test_serv"}
UsbProfileNames == {"patch.usb_profile.p1.bus_port"}
              \cup {"patch.usb_profile.p2.bus_port"}
              \cup {"patch.usb_profile.dev_nodes"}
EventLoopNames == {"patch_x11_event_loop.input_handler_lib"}
             \cup {"patch_x11_event_loop.input_handler_lib2"}
Mk3GameNames == {"game.sync_offset"} \cup {"game.sync_multiplier"}
           \cup {"game.music_vol"} \cup {"game.sfx_vol"}
           \cup {"game.1st_2nd_fs"}
LogNames == {"util.log.file"} \cup {"util.log.level"}
FrontNames == HookMonNames \cup MainLoopNames
BackNames == PiuioNames \cup {"patch.sound.device"}
               \cup {"patch.sigsegv.halt_on_segv"} \cup LogNames

\* Every group of options is a table.
LEMMA GroupsAreTables ==
  /\ IsTable(Settings, {"game.settings"})
  /\ IsTable(Data, {"game.data"})
  /\ IsTable(Version, {"game.version"})
  /\ IsTable(ForceUnlock, {"game.force_unlock"})
  /\ IsTable(Scaling, {"patch.gfx.scaling_mode"})
  /\ IsTable(NetServer, {"patch.net.server"})
  /\ IsTable(Piubtn, {"patch.piubtn.emu_lib"})
  /\ IsTable(Sigsegv, {"patch.sigsegv.halt_on_segv"})
  /\ IsTable(Windowed, {"patch.gfx.windowed"})
  /\ IsTable(DebugOutput, {"patch.sound.debug_output"})
  /\ IsTable(Sound("dmix"), {"patch.sound.device"})
  /\ IsTable(Sound("NULL"), {"patch.sound.device"})
  /\ IsTable(HookMon, HookMonNames)
  /\ IsTable(MainLoop, MainLoopNames)
  /\ IsTable(NetProfile, NetProfileNames)
  /\ IsTable(NetProfileCert, NetProfileCertNames)
  /\ IsTable(Piuio, PiuioNames)
  /\ IsTable(UsbProfile, UsbProfileNames)
  /\ IsTable(EventLoop, EventLoopNames)
  /\ IsTable(Mk3Game, Mk3GameNames)
  /\ IsTable(Log, LogNames)
<1> USE DEF OptionTypes, Letters, DefaultValues
<1>1. /\ IsTable(Settings, {"game.settings"})
      /\ IsTable(Data, {"game.data"})
      /\ IsTable(Version, {"game.version"})
      /\ IsTable(ForceUnlock, {"game.force_unlock"})
      /\ IsTable(Scaling, {"patch.gfx.scaling_mode"})
      /\ IsTable(NetServer, {"patch.net.server"})
      /\ IsTable(Piubtn, {"patch.piubtn.emu_lib"})
      /\ IsTable(Sigsegv, {"patch.sigsegv.halt_on_segv"})
      /\ IsTable(Windowed, {"patch.gfx.windowed"})
      /\ IsTable(DebugOutput, {"patch.sound.debug_output"})
  BY OneOption DEF Settings, Data, Version, ForceUnlock, Scaling,
                   NetServer, Piubtn, Sigsegv, Windowed, DebugOutput
<1>2. /\ IsTable(Sound("dmix"), {"patch.sound.device"})
      /\ IsTable(Sound("NULL"), {"patch.sound.device"})
  BY OneOption DEF Sound
<1>3. IsTable(HookMon, HookMonNames)
  <2> DEFINE a == Opt("patch.hook_mon.file", "f", "BOOL", "false")
             b == Opt("patch.hook_mon.fs", "g", "BOOL", "false")
             c == Opt("patch.hook_mon.io", "i", "BOOL", "false")
             d == Opt("patch.hook_mon.open", "j", "BOOL", "false")
             e == Opt("patch.hook_mon.usb", "u", "BOOL", "false")
  <2>1. /\ IsTable(a, {"patch.hook_mon.file"})
        /\ IsTable(b, {"patch.hook_mon.fs"})
        /\ IsTable(c, {"patch.hook_mon.io"})
        /\ IsTable(d, {"patch.hook_mon.open"})
        /\ IsTable(e, {"patch.hook_mon.usb"})
    BY OneOption
  <2>2. HookMon = a \o b \o c \o d \o e
    BY Zenon DEF HookMon
  <2> HIDE DEF a, b, c, d, e
  <2> QED BY <2>1, <2>2, FiveTables DEF Apart, HookMonNames
<1>4. IsTable(MainLoop, MainLoopNames)
  BY OneOption, JoinedTables DEF MainLoop, MainLoopNames
<1>5. IsTable(NetProfile, NetProfileNames)
  BY OneOption, JoinedTables DEF NetProfile, NetProfileNames
<1>6. IsTable(NetProfileCert, NetProfileCertNames)
  BY OneOption, JoinedTables DEF NetProfileCert, NetProfileCertNames
<1>7. IsTable(Piuio, PiuioNames)
  BY OneOption, JoinedTables DEF Piuio, PiuioNames
<1>8. IsTable(UsbProfile, UsbProfileNames)
  BY OneOption, ThreeTables, ZenonT(60) DEF Apart, UsbProfile, UsbProfileNames
<1>9. IsTable(EventLoop, EventLoopNames)
  BY OneOption, JoinedTables DEF EventLoop, EventLoopNames
<1>10. IsTable(Mk3Game, Mk3GameNames)
  <2> DEFINE a == Opt("game.sync_offset", "y", "INT", "115")
             b == Opt("game.sync_multiplier", "v", "DOUBLE", "4.1666666666666670")
             c == Opt("game.music_vol", "m", "DOUBLE", "1.0")
             d == Opt("game.sfx_vol", "c", "DOUBLE", "1.0")
             e == Opt("game.1st_2nd_fs", "x", "BOOL", "false")
  <2>1. /\ IsTable(a, {"game.sync_offset"})
        /\ IsTable(b, {"game.sync_multiplier"})
        /\ IsTable(c, {"game.music_vol"})
        /\ IsTable(d, {"game.sfx_vol"})
        /\ IsTable(e, {"game.1st_2nd_fs"})
    BY OneOption
  <2>2. Mk3Game = a \o b \o c \o d \o e
    BY Zenon DEF Mk3Game
  <2> HIDE DEF a, b, c, d, e
  <2> QED BY <2>1, <2>2, FiveTables DEF Apart, Mk3GameNames
<1>11. IsTable(Log, LogNames)
  BY OneOption, JoinedTables DEF Log, LogNames
<1> QED BY <1>1, <1>2, <1>3, <1>4, <1>5, <1>6, <1>7, <1>8, <1>9, <1>10, <1>11

\* So are the options before and behind those of a game.
LEMMA FrontAndBackAreTables == IsTable(Front, FrontNames) /\ IsTable(Back, BackNames)
<1>1. IsTable(Front, FrontNames)
  BY GroupsAreTables, JoinedTables DEF Front, FrontNames, HookMonNames, MainLoopNames
<1>2. IsTable(Piuio \o Sound("dmix") \o Sigsegv,
              PiuioNames \cup {"patch.sound.device"} \cup {"patch.sigsegv.halt_on_segv"})
  BY GroupsAreTables, ThreeTables DEF Apart, PiuioNames
<1>3. IsTable(Back, BackNames)
  BY <1>2, GroupsAreTables, JoinedTables DEF Back, BackNames, PiuioNames, LogNames
<1> QED BY <1>1, <1>3

\* The options of every game are a table.
LEMMA GamesHaveTables ==
  /\ \E names : IsTable(x2hook_options_def, names)
  /\ \E names : IsTable(zerohook_options_def, names)
  /\ \E names : IsTable(nxhook_options_def, names)
  /\ \E names : IsTable(nx2hook_options_def, names)
  /\ \E names : IsTable(nxahook_options_def, names)
  /\ \E names : IsTable(fsthook_options_def, names)
  /\ \E names : IsTable(fexhook_options_def, names)
  /\ \E names : IsTable(f2hook_options_def, names)
  /\ \E names : IsTable(prihook_options_def, names)
  /\ \E names : IsTable(exchook_options_def, names)
  /\ \E names : IsTable(mk3hook_options_def, names)
  /\ \E names : IsTable(prohook_options_def, names)
  /\ \E names : IsTable(pro2hook_options_def, names)
<1> USE GroupsAreTables, FrontAndBackAreTables
<1>1. \E names : IsTable(x2hook_options_def, names)
  <2>1. Apart({"game.force_unlock"}, {"game.settings"},
              {"patch.gfx.scaling_mode"}, FrontNames, BackNames)
    BY DEF Apart, FrontNames, BackNames, HookMonNames, MainLoopNames,
           PiuioNames, LogNames
  <2> DEFINE names == {"game.force_unlock"} \cup {"game.settings"}
                      \cup {"patch.gfx.scaling_mode"} \cup FrontNames \cup BackNames
  <2>2. IsTable(ForceUnlock \o Settings \o Scaling \o Front \o Back, names)
    BY <2>1, FiveTables
  <2> QED BY <2>2 DEF x2hook_options_def
<1>2. \E names : IsTable(zerohook_options_def, names)
  <2>1. Apart({"game.force_unlock"}, {"game.settings"},
              {"patch.gfx.scaling_mode"}, FrontNames, BackNames)
    BY DEF Apart, FrontNames, BackNames, HookMonNames, MainLoopNames,
           PiuioNames, LogNames
  <2> DEFINE names == {"game.force_unlock"} \cup {"game.settings"}
                      \cup {"patch.gfx.scaling_mode"} \cup FrontNames \cup BackNames
  <2>2. IsTable(ForceUnlock \o Settings \o Scaling \o Front \o Back, names)
    BY <2>1, FiveTables
  <2> QED BY <2>2 DEF zerohook_options_def
<1>3. \E names : IsTable(nxhook_options_def, names)
  <2>1. Apart({"game.force_unlock"}, {"patch.gfx.scaling_mode"},
              {"game.settings"}, FrontNames, BackNames)
    BY DEF Apart, FrontNames, BackNames, HookMonNames, MainLoopNames,
           PiuioNames, LogNames
  <2> DEFINE names == {"game.force_unlock"}
                      \cup {"patch.gfx.scaling_mode"} \cup {"game.settings"}
                      \cup FrontNames \cup BackNames
  <2>2. IsTable(ForceUnlock \o Scaling \o Settings \o Front \o Back, names)
    BY <2>1, FiveTables
  <2> QED BY <2>2 DEF nxhook_options_def
<1>4. \E names : IsTable(nx2hook_options_def, names)
  <2>1. Apart({"game.settings"}, {"patch.gfx.scaling_mode"}, FrontNames,
              NetProfileNames, NetProfileCertNames)
    BY DEF Apart, FrontNames, NetProfileNames, NetProfileCertNames,
           HookMonNames, MainLoopNames
  <2> DEFINE first == Settings \o Scaling \o Front \o NetProfile \o NetProfileCert
             names == {"game.settings"} \cup {"patch.gfx.scaling_mode"}
                      \cup FrontNames \cup NetProfileNames \cup NetProfileCertNames
  <2>2. Apart(names, BackNames, {}, {}, {})
    BY DEF Apart, BackNames, FrontNames, NetProfileNames, NetProfileCertNames,
           HookMonNames, MainLoopNames, PiuioNames, LogNames
  <2>3. IsTable(first, names)
    BY <2>1, FiveTables
  <2>4. nx2hook_options_def = first \o Back
    BY Zenon DEF nx2hook_options_def
  <2> HIDE DEF first, names
  <2>5. IsTable(first \o Back, names \cup BackNames)
    BY <2>2, <2>3, JoinedTables DEF Apart
  <2> QED BY <2>4, <2>5
<1>5. \E names : IsTable(nxahook_options_def, names)
  <2>1. Apart({"game.settings"}, {"patch.gfx.scaling_mode"}, FrontNames,
              NetProfileNames, NetProfileCertNames)
    BY DEF Apart, FrontNames, NetProfileNames, NetProfileCertNames,
           HookMonNames, MainLoopNames
  <2> DEFINE first == Settings \o Scaling \o Front \o NetProfile \o NetProfileCert
             names == {"game.settings"} \cup {"patch.gfx.scaling_mode"}
                      \cup FrontNames \cup NetProfileNames \cup NetProfileCertNames
  <2>2. Apart(names, BackNames, {}, {}, {})
    BY DEF Apart, BackNames, FrontNames, NetProfileNames, NetProfileCertNames,
           HookMonNames, MainLoopNames, PiuioNames, LogNames
  <2>3. IsTable(first, names)
    BY <2>1, FiveTables
  <2>4. nxahook_options_def = first \o Back
    BY Zenon DEF nxahook_options_def
  <2> HIDE DEF first, names
  <2>5. IsTable(first \o Back, names \cup BackNames)
    BY <2>2, <2>3, JoinedTables DEF Apart
  <2> QED BY <2>4, <2>5
<1>6. \E names : IsTable(fsthook_options_def, names)
  <2>1. Apart({"game.settings"}, {"patch.gfx.scaling_mode"}, FrontNames,
              NetProfileNames, BackNames)
    BY DEF Apart, FrontNames, NetProfileNames, BackNames, HookMonNames,
           MainLoopNames, PiuioNames, LogNames
  <2> DEFINE names == {"game.settings"} \cup {"patch.gfx.scaling_mode"}
                      \cup FrontNames \cup NetProfileNames \cup BackNames
  <2>2. IsTable(Settings \o Scaling \o Front \o NetProfile \o Back, names)
    BY <2>1, FiveTables
  <2> QED BY <2>2 DEF fsthook_options_def
<1>7. \E names : IsTable(fexhook_options_def, names)
  <2>1. Apart({"game.settings"}, {"patch.gfx.scaling_mode"}, FrontNames,
              NetProfileNames, BackNames)
    BY DEF Apart, FrontNames, NetProfileNames, BackNames, HookMonNames,
           MainLoopNames, PiuioNames, LogNames
  <2> DEFINE names == {"game.settings"} \cup {"patch.gfx.scaling_mode"}
                      \cup FrontNames \cup NetProfileNames \cup BackNames
  <2>2. IsTable(Settings \o Scaling \o Front \o NetProfile \o Back, names)
    BY <2>1, FiveTables
  <2> QED BY <2>2 DEF fexhook_options_def
<1>8. \E names : IsTable(f2hook_options_def, names)
  <2>1. Apart({"game.settings"}, {"patch.gfx.scaling_mode"}, FrontNames,
              NetProfileNames, BackNames)
    BY DEF Apart, FrontNames, NetProfileNames, BackNames, HookMonNames,
           MainLoopNames, PiuioNames, LogNames
  <2> DEFINE names == {"game.settings"} \cup {"patch.gfx.scaling_mode"}
                      \cup FrontNames \cup NetProfileNames \cup BackNames
  <2>2. IsTable(Settings \o Scaling \o Front \o NetProfile \o Back, names)
    BY <2>1, FiveTables
  <2> QED BY <2>2 DEF f2hook_options_def
<1>9. \E names : IsTable(prihook_options_def, names)
  <2>1. Apart({"game.settings"}, {"patch.gfx.scaling_mode"}, FrontNames,
              {"patch.net.server"}, BackNames)
    BY DEF Apart, FrontNames, BackNames, HookMonNames, MainLoopNames,
           PiuioNames, LogNames
  <2> DEFINE names == {"game.settings"} \cup {"patch.gfx.scaling_mode"}
                      \cup FrontNames \cup {"patch.net.server"} \cup BackNames
  <2>2. IsTable(Settings \o Scaling \o Front \o NetServer \o Back, names)
    BY <2>1, FiveTables
  <2> QED BY <2>2 DEF prihook_options_def
<1>10. \E names : IsTable(exchook_options_def, names)
  <2>1. Apart({"game.settings"}, {"game.version"}, {"patch.gfx.scaling_mode"},
              FrontNames, BackNames)
    BY DEF Apart, FrontNames, BackNames, HookMonNames, MainLoopNames,
           PiuioNames, LogNames
  <2> DEFINE names == {"game.settings"} \cup {"game.version"}
                      \cup {"patch.gfx.scaling_mode"} \cup FrontNames \cup BackNames
  <2>2. IsTable(Settings \o Version \o Scaling \o Front \o Back, names)
    BY <2>1, FiveTables
  <2> QED BY <2>2 DEF exchook_options_def
<1>11. \E names : IsTable(mk3hook_options_def, names)
  <2>1. Apart({"game.settings"}, Mk3GameNames, {"patch.gfx.windowed"},
              FrontNames, PiuioNames)
    BY DEF Apart, Mk3GameNames, FrontNames, PiuioNames, HookMonNames,
           MainLoopNames
  <2> DEFINE first == Settings \o Mk3Game \o Windowed \o Front \o Piuio
             names == {"game.settings"} \cup Mk3GameNames
                      \cup {"patch.gfx.windowed"} \cup FrontNames \cup PiuioNames
  <2>2. Apart(names, {"patch.sound.device"}, {"patch.sound.debug_output"},
              {"patch.sigsegv.halt_on_segv"}, LogNames)
    BY DEF Apart, LogNames, Mk3GameNames, FrontNames, PiuioNames, HookMonNames,
           MainLoopNames
  <2>3. IsTable(first, names)
    BY <2>1, FiveTables
  <2>4. mk3hook_options_def = first \o Sound("NULL") \o DebugOutput \o Sigsegv \o Log
    BY Zenon DEF mk3hook_options_def
  <2> HIDE DEF first, names
  <2>5. IsTable(first \o Sound("NULL") \o DebugOutput \o Sigsegv \o Log,
                names \cup {"patch.sound.device"} \cup {"patch.sound.debug_output"}
                  \cup {"patch.sigsegv.halt_on_segv"} \cup LogNames)
    BY <2>2, <2>3, FiveTables
  <2> QED BY <2>4, <2>5
<1>12. \E names : IsTable(prohook_options_def, names)
  <2>1. Apart({"game.data"}, {"game.settings"}, HookMonNames,
              {"patch.piubtn.emu_lib"}, PiuioNames)
    BY DEF Apart, HookMonNames, PiuioNames
  <2> DEFINE first == Data \o Settings \o HookMon \o Piubtn \o Piuio
             names == {"game.data"} \cup {"game.settings"}
                      \cup HookMonNames \cup {"patch.piubtn.emu_lib"}
                      \cup PiuioNames
  <2>2. Apart(names, UsbProfileNames, EventLoopNames, LogNames, {})
    BY DEF Apart, UsbProfileNames, EventLoopNames, LogNames, HookMonNames,
           PiuioNames
  <2>3. IsTable(first, names)
    BY <2>1, FiveTables
  <2>4. prohook_options_def = first \o UsbProfile \o EventLoop \o Log
    BY Zenon DEF prohook_options_def
  <2> HIDE DEF first, names
  <2>5. IsTable(first \o UsbProfile \o EventLoop \o Log,
                names \cup UsbProfileNames \cup EventLoopNames \cup LogNames)
    BY <2>2, <2>3, FourTables
  <2> QED BY <2>4, <2>5
<1>13. \E names : IsTable(pro2hook_options_def, names)
  <2>1. Apart({"game.data"}, HookMonNames, {"patch.piubtn.emu_lib"},
              PiuioNames, UsbProfileNames)
    BY DEF Apart, HookMonNames, PiuioNames, UsbProfileNames
  <2> DEFINE first == Data \o HookMon \o Piubtn \o Piuio \o UsbProfile
             names == {"game.data"} \cup HookMonNames
                      \cup {"patch.piubtn.emu_lib"} \cup PiuioNames
                      \cup UsbProfileNames
  <2>2. Apart(names, EventLoopNames, LogNames, {}, {})
    BY DEF Apart, EventLoopNames, LogNames, HookMonNames, PiuioNames,
           UsbProfileNames
  <2>3. IsTable(first, names)
    BY <2>1, FiveTables
  <2>4. pro2hook_options_def = first \o EventLoop \o Log
    BY Zenon DEF pro2hook_options_def
  <2> HIDE DEF first, names
  <2>5. IsTable(first \o EventLoop \o Log, names \cup EventLoopNames \cup LogNames)
    BY <2>2, <2>3, ThreeTables
  <2> QED BY <2>4, <2>5
<1> QED BY <1>1, <1>2, <1>3, <1>4, <1>5, <1>6, <1>7, <1>8, <1>9, <1>10, <1>11,
           <1>12, <1>13

\* What a library takes over for an option is what the user meant, where the
\* letter of the option is its own and no operand of it is missing.
LEMMA OptionIsTaken ==
  ASSUME NEW names, IsTable(util_options_defs[game], names),
         NEW name \in Names(util_options_defs[game]),
         ~Shared(name), Words(name) # {Len(argv)}
  PROVE  util_options_get(GameDefs.defs, util_options_get2(GameDefs, argv, conf), name)
           = Meant(name)
<1> DEFINE def == util_options_defs[game]
           j == CHOOSE k \in DOMAIN def : def[k].name = name
           words == {i \in Looked(def, argv) : EntryOf(def, argv[i]) = j}
           given == ReadsFile(argv) /\ name \in DOMAIN conf
           read == IF ReadsFile(argv) THEN util_options_init_from_file(def, conf)
                   ELSE NoValues(def)
           valued == IF def[j].type = "BOOL" THEN words ELSE words \ {Len(argv)}
           last == CHOOSE i \in valued : \A k \in valued : k <= i
           value == IF def[j].type = "BOOL" THEN "true"
                    ELSE ArgValue(def[j].type, argv[last + 1].text)
           values == util_options_get2(GameDefs, argv, conf)
           got == util_options_get(GameDefs.defs, values, name)
<1> SUFFICES got = Meant(name)
  OBVIOUS
<1>1. GameDefs.defs = def
  BY DEF GameDefs, Defs
<1>2. j \in DOMAIN def /\ def[j].name = name
  BY Zenon DEF Names
<1>3. Param(name) = def[j].param /\ TypeOf(name) = def[j].type
        /\ Default(name) = def[j].default_value
  BY Zenon DEF Param, TypeOf, Default
<1>4. \A k \in DOMAIN def : def[k].param = def[j].param => k = j
  <2> SUFFICES ASSUME NEW k \in DOMAIN def, def[k].param = def[j].param, k # j
               PROVE  FALSE
    OBVIOUS
  <2> DEFINE other == def[k].name
  <2>1. other # name /\ other \in Names(def)
    BY <1>2 DEF IsTable, Names
  <2>2. (CHOOSE l \in DOMAIN def : def[l].name = other) = k
    BY DEF IsTable
  <2>3. Param(other) = def[k].param
    BY <2>2, Zenon DEF Param
  <2> QED BY <2>1, <2>3, <1>3 DEF Shared
<1>5. \A word : EntryOf(def, word) = j <=> word.dash = def[j].param
  BY <1>2, <1>4, EntryOfItsOwn
<1>6. Words(name) = words
  BY <1>3, <1>5 DEF Words
<1>7. /\ read[j].avail <=> given
      /\ given => read[j].value = FileValue(def[j].type, conf[name])
  BY <1>2 DEF util_options_init_from_file, NoValues
<1>8. values = util_options_init_from_args(def, argv, read)
  BY <1>1 DEF util_options_get2
<1>9. /\ values[j].avail = (read[j].avail \/ words # {})
      /\ valued = {} => values[j].value = read[j].value
      /\ valued # {} => values[j].value = value
  <2>1. values[j] = [avail |-> read[j].avail \/ words # {},
                     value |-> IF valued = {} THEN read[j].value ELSE value]
    <3> HIDE DEF j, read, values
    <3> QED BY <1>2, <1>8, Zenon DEF util_options_init_from_args
  <2> HIDE DEF def, j, words, read, valued, value, values
  <2> QED BY <2>1
<1>10. got = IF values[j].avail THEN values[j].value ELSE def[j].default_value
  <2>1. util_options_get(def, values, name)
          = IF values[j].avail THEN values[j].value ELSE def[j].default_value
    <3> HIDE DEF values
    <3> QED BY Zenon DEF util_options_get
  <2> QED BY <1>1, <2>1, Zenon
<1>11. /\ valued # {} => Meant(name) = value
       /\ valued = {} /\ given => Meant(name) = FileValue(def[j].type, conf[name])
       /\ valued = {} /\ ~given => Meant(name) = def[j].default_value
  <2>1. Meant(name) = CASE valued # {} -> value
                        [] valued = {} /\ given -> FileValue(def[j].type, conf[name])
                        [] OTHER -> def[j].default_value
    BY <1>2, <1>3, <1>6 DEF Meant
  <2> HIDE DEF def, j, words, given, valued, value
  <2> QED BY <2>1
<1>12. valued = {} <=> words = {}
  BY <1>6
<1> HIDE DEF def, j, words, given, read, valued, value, values, got
<1>13. CASE words # {}
  BY <1>9, <1>10, <1>11, <1>12, <1>13
<1>14. CASE words = {} /\ given
  BY <1>7, <1>9, <1>10, <1>11, <1>12, <1>14
<1>15. CASE words = {} /\ ~given
  BY <1>7, <1>9, <1>10, <1>11, <1>12, <1>15
<1> QED BY <1>13, <1>14, <1>15

-----------------------------------------------------------------------------
(* The fields.  FieldsInv is inductive with OrderInv: the fields that are   *)
(* filled have the values that the words and the file ask for, and whoever *)
(* has filled them will not write the file any more.                       *)

\* The field of an option has the value that the user meant.
Taken(name) ==
  Shared(name) \/ Words(name) = {Len(argv)} \/ fields[name] = Meant(name)

FieldsInv ==
  /\ where = "off" => fields = NoFields
  /\ fields # NoFields =>
       /\ ~(ReadsFile(argv) /\ conf = NoFile)
       /\ \A name \in options_init[game] : Taken(name)

OptionsFrame == UNCHANGED <<game, argv, conf, fields>>

\* As long as the words, the file and the fields stay, so does what was meant.
LEMMA TakenAsBefore ==
  ASSUME OptionsFrame
  PROVE  \A name : Taken(name)' = Taken(name)
BY DEF OptionsFrame, Taken, Shared, Words, Meant, Param, TypeOf, Default

\* A step that leaves them alone keeps the invariant.
LEMMA FrameKeepsFields ==
  ASSUME FieldsInv, OptionsFrame, where' # "off"
  PROVE  FieldsInv'
<1>1. \A name \in options_init[game] : Taken(name) => Taken(name)'
  BY TakenAsBefore
<1> QED BY <1>1 DEF FieldsInv, OptionsFrame

\* Of the stages of a start, bootstrapping alone fills the fields, and the two
\* that read the options are the only ones that write the file.
LEMMA StageTakesOptions ==
  ASSUME Stage
  PROVE  \/ OptionsFrame
         \/ exit_in_options(hook_core_options_defs) \/ exit_in_options(GameDefs)
         \/ bootstrapping
<1> USE DEF At, GoOn, End, OptionsFrame, optionVars
<1>1. CASE hook_core_piu_log_init \/ no_log_options \/ bootstrapping \/ no_options
  BY <1>1 DEF hook_core_piu_log_init, no_log_options, no_options
<1>2. CASE verify_game_data_path \/ refuse \/ version_table \/ version_unknown
             \/ exchook_patch_sound_init \/ no_sound_device
  BY <1>2 DEF verify_game_data_path, refuse, version_table, version_unknown,
              exchook_patch_sound_init, no_sound_device
<1>3. CASE pass_over \/ push_handler \/ eeprom \/ eeprom_null
  BY <1>3 DEF pass_over, push_handler, eeprom, eeprom_null
<1>4. CASE \E s \in {"settings", "data"} : redirect(s) \/ redirect_null(s)
  BY <1>4 DEF redirect, redirect_null
<1>5. CASE \E s \in {"x11_input", "x11_input2"} :
             add_x11_input_handler(s) \/ no_x11_input_library(s)
  BY <1>5 DEF add_x11_input_handler, no_x11_input_library
<1>6. CASE patch_piuio_init \/ no_piuio_library \/ patch_piubtn_init
             \/ no_piubtn_library \/ exchook_io_init \/ incomplete_io
  BY <1>6 DEF patch_piuio_init, no_piuio_library, patch_piubtn_init,
              no_piubtn_library, exchook_io_init, incomplete_io
<1> QED
  BY <1>1, <1>2, <1>3, <1>4, <1>5, <1>6 DEF Stage

\* A start that ends for its options had read none of them before.
LEMMA ExitKeepsFields ==
  ASSUME FieldsInv, NEW defs, exit_in_options(defs)
  PROVE  FieldsInv'
<1>1. CASE fields = NoFields
  BY <1>1 DEF exit_in_options, FieldsInv
<1>2. CASE fields # NoFields
  <2>1. OptionsFrame /\ where' = "refused"
    BY <1>2 DEF exit_in_options, FieldsInv, OptionsFrame
  <2> QED BY <2>1, FrameKeepsFields
<1> QED BY <1>1, <1>2

\* Every game has a table, and takes over options of its table only.
LEMMA GameHasTable ==
  ASSUME NEW g \in DOMAIN trap_before_main
  PROVE  /\ \E names : IsTable(util_options_defs[g], names)
         /\ options_init[g] \subseteq Names(util_options_defs[g])
<1>1. g \in {"x2hook", "zerohook", "nxhook", "nx2hook", "nxahook", "fsthook",
             "fexhook", "f2hook", "prihook", "exchook", "mk3hook", "prohook", "pro2hook"}
  BY DEF trap_before_main
<1>2. /\ util_options_defs.x2hook = x2hook_options_def
      /\ util_options_defs.zerohook = zerohook_options_def
      /\ util_options_defs.nxhook = nxhook_options_def
      /\ util_options_defs.nx2hook = nx2hook_options_def
      /\ util_options_defs.nxahook = nxahook_options_def
      /\ util_options_defs.fsthook = fsthook_options_def
      /\ util_options_defs.fexhook = fexhook_options_def
      /\ util_options_defs.f2hook = f2hook_options_def
      /\ util_options_defs.prihook = prihook_options_def
      /\ util_options_defs.exchook = exchook_options_def
      /\ util_options_defs.mk3hook = mk3hook_options_def
      /\ util_options_defs.prohook = prohook_options_def
      /\ util_options_defs.pro2hook = pro2hook_options_def
  BY DEF util_options_defs
<1>3. /\ options_init.x2hook \subseteq Names(x2hook_options_def)
      /\ options_init.zerohook \subseteq Names(zerohook_options_def)
      /\ options_init.nxhook \subseteq Names(nxhook_options_def)
      /\ options_init.nx2hook \subseteq Names(nx2hook_options_def)
      /\ options_init.nxahook \subseteq Names(nxahook_options_def)
      /\ options_init.fsthook \subseteq Names(fsthook_options_def)
      /\ options_init.fexhook \subseteq Names(fexhook_options_def)
      /\ options_init.f2hook \subseteq Names(f2hook_options_def)
      /\ options_init.prihook \subseteq Names(prihook_options_def)
      /\ options_init.exchook \subseteq Names(exchook_options_def)
      /\ options_init.mk3hook \subseteq Names(mk3hook_options_def)
      /\ options_init.prohook \subseteq Names(prohook_options_def)
      /\ options_init.pro2hook \subseteq Names(pro2hook_options_def)
  BY DEF options_init, x2hook_options_init, zerohook_options_init, nxhook_options_init,
         nx2hook_options_init, nxahook_options_init, fsthook_options_init,
         fexhook_options_init, f2hook_options_init, prihook_options_init,
         exchook_options_init, mk3hook_options_init, prohook_options_init,
         pro2hook_options_init
<1> QED BY <1>1, <1>2, <1>3, GamesHaveTables

\* Bootstrapping takes over what the user meant.
LEMMA BootstrappingTakes ==
  ASSUME game \in DOMAIN trap_before_main, bootstrapping
  PROVE  FieldsInv'
<1> DEFINE values == util_options_get2(GameDefs, argv, conf)
<1>1. /\ UNCHANGED <<game, argv, conf, where>> /\ where = "boot"
      /\ ~(ReadsFile(argv) /\ conf = NoFile)
  BY DEF bootstrapping, At, Exits
<1>2. \A name \in options_init[game] :
        /\ name \in Names(util_options_defs[game])
        /\ fields'[name] = util_options_get(GameDefs.defs, values, name)
  <2>1. /\ options_init[game] \subseteq Names(GameDefs.defs)
        /\ GameDefs.defs = util_options_defs[game]
    BY GameHasTable DEF GameDefs, Defs
  <2> HIDE DEF values
  <2> QED BY <2>1 DEF bootstrapping, values
<1>3. PICK names : IsTable(util_options_defs[game], names)
  BY GameHasTable
<1>4. ASSUME NEW name \in options_init[game]
      PROVE  Taken(name)'
  <2>1. Shared(name) \/ Words(name) = {Len(argv)} \/ fields'[name] = Meant(name)
    BY <1>2, <1>3, OptionIsTaken
  <2>2. /\ Shared(name)' = Shared(name) /\ Words(name)' = Words(name)
        /\ Meant(name)' = Meant(name)
    BY <1>1 DEF Shared, Words, Meant, Param, TypeOf, Default
  <2> QED BY <1>1, <2>1, <2>2 DEF Taken
<1> QED BY <1>1, <1>4 DEF FieldsInv

\* Every option that a game takes over has the value that the user gave it, by
\* a word or in the file, or its default, where its letter is its own and no
\* operand is missing: whatever the command lines and the files hold.
THEOREM OptionsAreAsMeant == Spec => []OptionsAsMeant
<1> DEFINE Inv == OrderInv /\ FieldsInv
<1>1. Init => Inv
  BY DEF Init, StartInit, OrderInv, FieldsInv
<1>2. Inv /\ [Next]_vars => Inv'
  <2> SUFFICES ASSUME OrderInv, FieldsInv, [Next]_vars PROVE FieldsInv'
    BY OrderStep
  <2>1. CASE Boot
    BY <2>1 DEF Boot, trap_main, FieldsInv
  <2>2. CASE Step
    <3>1. Stage
      BY <2>2 DEF Step
    <3>2. where # "off" /\ where' # "off"
      BY <3>1, StageStays DEF StageFrame, push_handler
    <3>3. game \in DOMAIN trap_before_main
      BY <3>2 DEF OrderInv
    <3> QED
      BY <3>1, <3>2, <3>3, StageTakesOptions, FrameKeepsFields, ExitKeepsFields,
         BootstrappingTakes
  <2>3. CASE StartDongle \/ RunMain \/ MainEnds
    <3>1. OptionsFrame /\ where' # "off"
      BY <2>3 DEF StartDongle, RunMain, MainEnds, At, GoOn, orig_main, trap_after_main,
                  End, OptionsFrame, optionVars
    <3> QED BY <3>1, FrameKeepsFields
  <2>4. CASE ProcessEnds
    BY <2>4 DEF ProcessEnds, gone, FieldsInv
  <2>5. CASE UNCHANGED startVars
    <3>1. OptionsFrame /\ where' = where
      BY <2>5 DEF startVars, OptionsFrame
    <3> QED BY <3>1, TakenAsBefore DEF FieldsInv, OptionsFrame
  <2> QED
    BY <2>1, <2>2, <2>3, <2>4, <2>5
       DEF Next, ChildAttaches, ChildEnds, DaemonStep, vars
<1>3. Inv => OptionsAsMeant
  BY DEF FieldsInv, OptionsAsMeant, Taken
<1> QED
  BY <1>1, <1>2, <1>3, PTL DEF Spec
=============================================================================
