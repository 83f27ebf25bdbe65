----------------------------- MODULE MCGameFiles -----------------------------
(* What a game calls in its loop, each on its own: GameFiles for six games (one *)
(* thread that makes any of their calls, or two threads that open, use and      *)
(* close the same files), and the frames of PiuioFrame.  The part says which of *)
(* the two moves.                                                               *)
EXTENDS GameFiles, MCPiuioFrame

VARIABLE part   \* "files" or "frame"

ini == <<"/SETTINGS", "/", "PIUNX.INI">>
tmp == <<"/SETTINGS", "/", "TEMP">>
save_nx2 == <<"/usb", "/", "nx2save.bin">>
save_nxa == <<"/usb", "/", "nxasave.bin">>
ini_x2 == <<"/SETTINGS", "/", "PIUEXCEED.INI">>
ini_zero == <<"/SETTINGS", "/", "PIUZERO.INI">>
MCNames == {ini, ini_x2, ini_zero, tmp, save_nx2, save_nxa}
\* The machine has a directory of that name too, where no game should write.
MCDisk == {cnh_redir_check(n) : n \in MCNames} \cup {ini}

C(fn, irp) == [fn |-> fn, irp |-> irp]
Path(fn, p) == C(fn, OnPath(p))
Write(p) == C("fopen", [OnPath(p) EXCEPT !.mode = "w"])
File(fn) == C(fn, OnFile(1))
Seek(fn, off, whence) == C(fn, [OnFile(1) EXCEPT !.off = off, !.whence = whence])
Items(fn, size, nmemb) == C(fn, [OnFile(1) EXCEPT !.size = size, !.nmemb = nmemb])
NULL(fn) == C(fn, OnFile(-1))

hddFile == {Path("fopen", hdd), Items("fread", 2048, 2), Seek("fseek", 32964608, "SET"),
            Seek("fseek", 32966656, "CUR"), Seek("fseek", 0, "END"), File("fwrite"),
            File("ftell"), File("rewind"), File("fclose")}
hddFd == {Path("open", hdd), C("read", [OnFile(1) EXCEPT !.size = 2048]),
          Seek("lseek", -1024, "END"), File("ioctl"),
          File("write"), File("fdopen"), File("close"), Items("fread", 1024, 1)}
settings == {Path("fopen", ini), Write(tmp), Items("fread", 64, 2), Items("fwrite", 64, 1),
             File("fclose"), NULL("fclose"), NULL("feof"), File("fgets"), File("feof"),
             C("rename", [OnPath(tmp) EXCEPT !.to = ini]), Path("remove", tmp),
             Path("access", ini), Path("rename", NoPath)}
names == {Path("opendir", ini), Path("__lxstat", ini), Path("__xstat", ini), Path("access", tmp),
          Path("open", ini), C("read", [OnFile(1) EXCEPT !.size = 64]), File("write"),
          Seek("lseek", 8, "SET"), File("ioctl"), File("close")}
dongle == {Path("open", usbdog), File("ioctl"), File("read"), File("close"), Path("open", ini)}
proc == {Path("fopen", mounts), File("fgets"), File("feof"), File("ftell"), File("fseek"),
         File("fclose"), File("fread"), Path("fopen", save_nx2)}
hidden == {Path("fopen", <<"/dev/ram0">>), Path("fopen", <<"/mnt/", "0", "/", "prime_">>),
           Path("fopen", ini), File("fclose")}
profile(name) == {Path("fopen", name), File("fread"), File("fclose")}
removes(name) == {Path("fopen", name), File("fclose"), Path("remove", name)}

opening(p) == {Path("fopen", p), File("fclose")}
reading(p) == opening(p) \cup {File("fread"), Path("open", usbdog), File("close")}
Errnos == {"ENOTEMPTY", "EXDEV"}
Two(game_, may_be, errnos, a, b) ==
  [game |-> game_, may_be |-> may_be, errnos |-> errnos,
   calls |-> [game |-> a, loader |-> b]]
One(game_, may_be, calls) == Two(game_, may_be, Errnos, calls, {})
real_ini == {cnh_redir_check(ini)}
zero_ini == {cnh_redir_check(ini_zero)}
MCSuites ==
  <<One("zero", {}, hddFile), Two("zero", {}, {"EIO"}, hddFd, {}), One("nx", real_ini, settings),
    One("nx", real_ini, names), One("nx", real_ini, dongle), One("pri", {save_nx2}, proc),
    One("x2", {cnh_redir_check(ini_x2)}, reading(ini_x2)), One("pri", real_ini, hidden),
    One("nx2", {save_nx2}, removes(save_nx2)), One("nxa", {save_nx2, save_nxa}, removes(save_nxa)),
    Two("zero", zero_ini, {"EIO"}, opening(ini_zero), opening(hdd)),
    Two("nx2", {save_nx2}, {}, {Path("fopen", save_nx2)}, profile(save_nx2)),
    Two("nxa", {save_nx2}, {}, {Path("fopen", save_nxa)}, {Path("fopen", save_nxa)}),
    Two("pri", real_ini, {"EIO"}, opening(mounts), opening(ini)),
    Two("zero", zero_ini, {"EIO"}, {Path("open", hdd), File("close")},
        {Path("open", ini_zero), File("close"), File("write")})>>

(* A part that does not move starts in one way.  The player's moves are bounded, *)
(* and the exit module ends the process.                                         *)
LoopInit ==
  /\ part \in {"files", "frame"}
  /\ Init /\ PiuioInit
  /\ part = "files" \/ suite.of = 1
  /\ part = "frame" \/ (~conf.khack /\ ~conf.exit /\ conf.path = "native" /\ lights = dark)
LoopNext ==
  /\ UNCHANGED part
  /\ \/ part = "files" /\ Next /\ UNCHANGED piuio_vars
     \/ part = "frame" /\ PiuioNext /\ UNCHANGED vars
     \/ part = "frame" /\ pc = "exited" /\ UNCHANGED <<piuio_vars, vars>>
LoopSpec == LoopInit /\ [][LoopNext]_<<part, vars, piuio_vars>>
=============================================================================
