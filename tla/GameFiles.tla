------------------------------ MODULE GameFiles ------------------------------
(* What the handlers of six games do with their file calls: redirect paths,   *)
(* fake the hard disk, the list of mounts and the device of the dongle, hide  *)
(* files, unlock the settings as they are read, and generate a profile when   *)
(* the game opens one that is not there.                                      *)
EXTENDS FileCalls

CONSTANT Names   \* by which the games know the files of Disk

ASSUME HandlesAreNumbers == MaxHandles \in Nat /\ MaxDepth \in Nat \ {0}
ASSUME ThreadsOwn == "none" \notin Threads

-----------------------------------------------------------------------------
(* The redirections.                                                          *)

hook_fs_redirs ==
  <<[src |-> <<"/SETTINGS">>, dest |-> <<"/game/save">>],
    [src |-> <<"/SCRIPT">>, dest |-> <<"/game/", "SCRIPT">>],
    [src |-> <<"/proc/bus/usb/devices">>, dest |-> <<"/sys/kernel/debug/usb/devices">>]>>

\* The first source that the path begins with.
cnh_redir_check(path) ==
  LET fits == {i \in DOMAIN hook_fs_redirs : IsPrefix(hook_fs_redirs[i].src, path)}
      r == hook_fs_redirs[CHOOSE i \in fits : \A k \in fits : i <= k]
  IN IF fits = {} THEN path ELSE r.dest \o SubSeq(path, Len(r.src) + 1, Len(path))

\* Mutation: only the old name of a rename is looked up.
redirected_OldOnly(op, irp) == [irp EXCEPT !.path = cnh_redir_check(@)]
redirected(op, irp) ==
  IF op = "RENAME"
  THEN [irp EXCEPT !.path = cnh_redir_check(@), !.to = cnh_redir_check(@)]
  ELSE [irp EXCEPT !.path = cnh_redir_check(@)]

Redirects(t, chain) ==
  /\ Has(t, "redir") /\ Chain(t) = chain
  /\ invoke_next(t, redirected(Op(t), Top(t).irp))
  /\ UNCHANGED <<errno, diskVars, handlerVars>>
cnh_redir_filehook(t) == Redirects(t, "file")
cnh_redir_iohook(t) == Redirects(t, "io")
cnh_redir_fshook(t) == Redirects(t, "fs")

\* The monitors write to the log before and after, and forward.
cnh_filehook_mon(t) == Has(t, "mon") /\ Chain(t) = "file" /\ Passes(t)
cnh_iohook_mon(t) == Has(t, "mon") /\ Chain(t) = "io" /\ Passes(t)
cnh_fshook_mon(t) == Has(t, "mon") /\ Chain(t) = "fs" /\ Passes(t)
cnh_fileopen_mon(t) == Has(t, "open_mon") /\ Passes(t)

-----------------------------------------------------------------------------
(* What the handlers of faked files have in common.                           *)

\* A handle of /dev/null, or none when there are too many.  The handler
\* remembers it as the one it answers for.
open_dummy_file_handle(t, name) ==
  \E h \in Lowest(streams) :
    /\ Answers(t, [Top(t).irp EXCEPT !.h = h, !.stream = h])
    /\ latch' = [latch EXCEPT ![name] = h]
    /\ streams' = IF h = 0 THEN streams ELSE [streams EXCEPT ![h] = Opened(t, name, Irp)]
    /\ UNCHANGED <<tree, fds>>
open_dummy_fd(t, name) ==
  \E h \in Lowest(fds) :
    /\ Answers(t, [Top(t).irp EXCEPT !.h = h])
    /\ latch' = [latch EXCEPT ![name] = h]
    /\ fds' = IF h = 0 THEN fds ELSE [fds EXCEPT ![h] = Opened(t, name, Irp)]
    /\ UNCHANGED <<tree, streams>>

\* An open, or a call on the handle that the handler answers for.
Concerns(t, name, irp) == Op(t) = "OPEN" \/ irp.h = latch[name]
Opens(t, path) == Op(t) = "OPEN" /\ Top(t).irp.path = path

-----------------------------------------------------------------------------
(* The faked hard disk: its boot area is served from memory.  The stream and  *)
(* the descriptor share the position, which no open resets.                   *)

hdd == <<"/dev/hdd">>
FakedOffsets == [k \in {32964608, 32966656} |-> IF k = 32964608 THEN 1024 ELSE 1024 + 2048]

\* Mutation: reads to the end of the buffer are not shortened.
readable_AsAsked(fp, n) == n
readable(fp, n) == IF fp + n < HddSize THEN n ELSE HddSize - fp

\* Mutation: an offset from the end is taken as one from the start.
Sought_FromStart(irp, fp) == IF irp.whence = "CUR" THEN fp + irp.off ELSE irp.off
Sought(irp, fp) ==
  CASE irp.whence = "SET" -> irp.off [] irp.whence = "CUR" -> fp + irp.off
    [] irp.whence = "END" -> HddSize + irp.off

hddRead(t, irp) ==
  LET len == readable(hdd_fp, nbytes(irp))
  IN /\ hdd_fp' = hdd_fp + len
     /\ Answers(t, [irp EXCEPT !.pos = len])
     /\ UNCHANGED <<diskVars, latch, mount_eof, is_creating_file>>
hddSeek(t, irp, asked) ==
  /\ hdd_fp' = Sought(asked, hdd_fp)
  /\ Answers(t, [irp EXCEPT !.off = hdd_fp'])
  /\ UNCHANGED <<diskVars, latch, mount_eof, is_creating_file>>

\* Mutation: the handler still answers for a stream while it is being closed.
clears_Never(t, name) == Passes(t)
clears(t, name) ==
  /\ invoke_next(t, Top(t).irp)
  /\ latch' = [latch EXCEPT ![name] = 0]
  /\ UNCHANGED <<errno, diskVars, hdd_fp, mount_eof, is_creating_file>>
Stubs(t, irp) == Answers(t, irp) /\ UNCHANGED <<diskVars, handlerVars>>

patch_hdd_check_filehook(t) ==
  /\ Has(t, "hdd") /\ Chain(t) = "file"
  /\ LET irp == Top(t).irp
         faked == IF irp.off \in DOMAIN FakedOffsets
                  THEN [irp EXCEPT !.off = FakedOffsets[@], !.whence = "SET"] ELSE irp
     IN \/ Opens(t, hdd) /\ open_dummy_file_handle(t, "hdd_file")
                         /\ UNCHANGED <<hdd_fp, mount_eof, is_creating_file>>
        \/ /\ ~Opens(t, hdd)
           /\ Op(t) = "OPEN" \/ latch["hdd_file"] = 0 \/ irp.h # latch["hdd_file"]
           /\ Passes(t)
        \/ /\ Op(t) # "OPEN" /\ latch["hdd_file"] # 0 /\ irp.h = latch["hdd_file"]
           /\ \/ Op(t) = "READ" /\ hddRead(t, irp)
              \/ Op(t) = "SEEK" /\ hddSeek(t, irp, faked)
              \/ Op(t) = "CLOSE" /\ clears(t, "hdd_file")
              \/ Op(t) = "TELL" /\ Stubs(t, [irp EXCEPT !.off = 0])
              \/ Op(t) \in {"WRITE", "FGETS", "EOF"} /\ Stubs(t, irp)

patch_hdd_check_iohook(t) ==
  /\ Has(t, "hdd") /\ Chain(t) = "io"
  /\ LET irp == Top(t).irp
     IN \/ Opens(t, hdd) /\ open_dummy_fd(t, "hdd_fd")
                         /\ UNCHANGED <<hdd_fp, mount_eof, is_creating_file>>
        \/ ~Opens(t, hdd) /\ (Op(t) = "OPEN" \/ irp.h # latch["hdd_fd"]) /\ Passes(t)
        \/ /\ Op(t) # "OPEN" /\ irp.h = latch["hdd_fd"]
           /\ \/ Op(t) = "FDOPEN" /\ open_dummy_file_handle(t, "hdd_file")
                                  /\ UNCHANGED <<hdd_fp, mount_eof, is_creating_file>>
              \/ Op(t) = "READ" /\ hddRead(t, irp)
              \/ Op(t) = "SEEK" /\ hddSeek(t, irp, irp)
              \/ Op(t) = "CLOSE" /\ clears(t, "hdd_fd")
              \/ Op(t) \in {"WRITE", "IOCTL"} /\ Stubs(t, irp)

-----------------------------------------------------------------------------
(* The faked list of mounts, one line long.                                   *)

mounts == <<"/proc/mounts">>
MountsSize == 20

patch_mounts_filehook(t) ==
  /\ Has(t, "mounts")
  /\ LET irp == Top(t).irp
     IN \/ /\ Opens(t, mounts)
           /\ open_dummy_file_handle(t, "mounts")
           /\ mount_eof' = FALSE
           /\ UNCHANGED <<hdd_fp, is_creating_file>>
        \/ ~Opens(t, mounts) /\ (Op(t) = "OPEN" \/ irp.h # latch["mounts"]) /\ Passes(t)
        \/ /\ Op(t) # "OPEN" /\ irp.h = latch["mounts"]
           /\ \/ /\ Op(t) = "FGETS"
                 /\ Answers(t, [irp EXCEPT !.pos = @ + MountsSize])
                 /\ mount_eof' = TRUE
                 /\ UNCHANGED <<diskVars, latch, hdd_fp, is_creating_file>>
              \/ Op(t) = "TELL" /\ Stubs(t, [irp EXCEPT !.off = MountsSize])
              \/ Op(t) = "EOF" /\ Stubs(t, [irp EXCEPT !.eof = IF mount_eof THEN 1 ELSE 0])
              \/ Op(t) = "CLOSE" /\ clears(t, "mounts")
              \/ Op(t) \in {"SEEK", "READ", "WRITE"} /\ Stubs(t, irp)

-----------------------------------------------------------------------------
(* Handlers that hide files, and the unlocking of the settings as they are    *)
(* read: what is read is changed in the buffer of the caller.                 *)

_patch_ram_wipe_filehook(t) ==
  /\ Has(t, "ram_wipe")
  /\ IF Opens(t, <<"/dev/ram0">>)
     THEN Claims(t, "NO_SUCH_FILE_OR_DIR", Top(t).irp) /\ UNCHANGED <<diskVars, handlerVars>>
     ELSE Passes(t)
prihook_usb_updates_filehook(t) ==
  /\ Has(t, "usb_updates")
  /\ IF \E k \in {"0", "1"} : Opens(t, <<"/mnt/", k, "/", "prime_">>)
     THEN Claims(t, "NO_SUCH_FILE_OR_DIR", Top(t).irp) /\ UNCHANGED <<diskVars, handlerVars>>
     ELSE Passes(t)

util_str_ends_with(path, name) == IsSuffix(<<name>>, path)
ASSET_X2_SETTINGS_FILE_NAME == "PIUEXCEED.INI"
ASSET_ZERO_SETTINGS_FILE_NAME == "PIUZERO.INI"
ASSET_NX_SETTINGS_FILE_NAME == "PIUNX.INI"

Unlocks(t) ==
  /\ Has(t, "unlock")
  /\ LET ours == Concerns(t, "settings", Top(t).irp)
     IN \/ /\ ours /\ Op(t) \in {"OPEN", "READ"}
           /\ invoke_next_and(t, "unlock")
           /\ UNCHANGED handlerVars
        \/ ours /\ Op(t) = "CLOSE" /\ clears(t, "settings")
        \/ (ours => Op(t) \notin {"OPEN", "READ", "CLOSE"}) /\ Passes(t)
\* A handler that waits sees the result, the last one that asked first.  What was
\* read is unlocked in the buffer.
UnlockReturns(t, name) ==
  /\ IsIn(t) /\ Top(t).going = "up" /\ Top(t).waiting # <<>>
  /\ Become(t, [Top(t) EXCEPT !.waiting = Front(@)])
  /\ latch' = IF /\ Op(t) = "OPEN" /\ Top(t).result = SUCCESS
                 /\ util_str_ends_with(Top(t).irp.path, name)
              THEN [latch EXCEPT !["settings"] = Top(t).irp.h] ELSE latch
  /\ UNCHANGED <<errno, diskVars, hdd_fp, mount_eof, is_creating_file>>
_hook_x2_unlock_filehook(t) ==
  game = "x2" /\ (Unlocks(t) \/ UnlockReturns(t, ASSET_X2_SETTINGS_FILE_NAME))
_hook_zerounlock_filehook(t) ==
  game = "zero" /\ (Unlocks(t) \/ UnlockReturns(t, ASSET_ZERO_SETTINGS_FILE_NAME))
_hook_nx_unlock_filehook(t) ==
  game = "nx" /\ (Unlocks(t) \/ UnlockReturns(t, ASSET_NX_SETTINGS_FILE_NAME))

-----------------------------------------------------------------------------
(* The dongle of the older games behind its device file.  A close frees the   *)
(* descriptor in one step and forgets it in the next.                         *)

usbdog == <<"/dev/usbdog">>

patch_microdog34_iohook(t) ==
  /\ Has(t, "dog34")
  /\ \/ Opens(t, usbdog) /\ open_dummy_fd(t, "dog")
                         /\ UNCHANGED <<hdd_fp, mount_eof, is_creating_file>>
     \/ ~Opens(t, usbdog) /\ (Op(t) = "OPEN" \/ Top(t).irp.h # latch["dog"])
                          /\ Top(t).pc = "in" /\ Passes(t)
     \/ /\ Op(t) = "CLOSE" /\ Top(t).irp.h = latch["dog"] /\ Top(t).pc = "in"
        /\ fds' = [fds EXCEPT ![Top(t).irp.h] = Closed]
        /\ Become(t, [Top(t) EXCEPT !.pc = "closed"])
        /\ UNCHANGED <<errno, tree, streams, handlerVars>>
     \/ /\ Top(t).pc = "closed"
        /\ latch' = [latch EXCEPT !["dog"] = 0]
        /\ Answers(t, Top(t).irp)
        /\ UNCHANGED <<diskVars, hdd_fp, mount_eof, is_creating_file>>
     \/ Op(t) \in {"READ", "IOCTL"} /\ Top(t).irp.h = latch["dog"] /\ Stubs(t, Top(t).irp)

-----------------------------------------------------------------------------
(* The generators of profiles.  The flag that keeps the calls of a generator  *)
(* from being generated for is one for all threads.                           *)

generated ==
  [nx2 |-> {"nx2save.bin", "nx2rank.bin"}, nxa |-> {"nxasave.bin", "nxarank.bin"}]
older == [nxa |-> [name \in generated["nxa"] |->
                     IF name = "nxasave.bin" THEN "nx2save.bin" ELSE "nx2rank.bin"]]

\* Mutation: whether the generator itself is opening files is not looked at.
check_if_exists_Always(t) ==
  LET irp == Top(t).irp
  IN /\ Top(t).pc = "in"
     /\ IF Op(t) = "OPEN" /\ \E name \in generated[game] : util_str_ends_with(irp.path, name)
        THEN Calling(t, "checked", "access", OnPath(irp.path)) /\ UNCHANGED handlerVars
        ELSE Passes(t)
\* The check for the file, by access because fopen would come here again.
check_if_exists(t) ==
  LET irp == Top(t).irp
  IN /\ Top(t).pc = "in"
     /\ IF /\ Op(t) = "OPEN" /\ ~is_creating_file
           /\ \E name \in generated[game] : util_str_ends_with(irp.path, name)
        THEN Calling(t, "checked", "access", OnPath(irp.path)) /\ UNCHANGED handlerVars
        ELSE Passes(t)
Creating(flag) == is_creating_file' = flag /\ UNCHANGED <<latch, hdd_fp, mount_eof>>
Save(t) == Calling(t, "created", "fopen", [OnPath(Top(t).irp.path) EXCEPT !.mode = "w"])

starts(t) ==
  /\ Top(t).pc = "checked"
  /\ IF Top(t).got # -1 THEN Passes(t)
     ELSE /\ Creating(TRUE)
          /\ IF game = "nxa"
             THEN Calling(t, "older", "fopen",
                    OnPath(Append(Front(Top(t).irp.path), older["nxa"][Last(Top(t).irp.path)])))
             ELSE Save(t)
ends(t) == invoke_next(t, Top(t).irp) /\ Creating(FALSE) /\ UNCHANGED <<errno, diskVars>>
\* Mutation: the flag stays set when the older profile is there.
migrates_Forever(t) ==
  \/ /\ Top(t).pc = "older" /\ UNCHANGED handlerVars
     /\ IF Top(t).got # 0 THEN Calling(t, "is_older", "fclose", OnFile(Top(t).got)) ELSE Save(t)
  \/ Top(t).pc = "is_older" /\ Passes(t)
\* The game makes its profile from that of the older game, if that is there.
migrates(t) ==
  \/ /\ Top(t).pc = "older" /\ UNCHANGED handlerVars
     /\ IF Top(t).got # 0 THEN Calling(t, "is_older", "fclose", OnFile(Top(t).got)) ELSE Save(t)
  \/ Top(t).pc = "is_older" /\ ends(t)
\* The profile is written as one item, and the stream closed whether or not it
\* was.
util_file_save(t) ==
  \/ /\ Top(t).pc = "created"
     /\ IF Top(t).got = 0 THEN ends(t)
        ELSE /\ frames' = [frames EXCEPT ![t] = Append(Append(Front(@),
                  [Top(t) EXCEPT !.pc = "written", !.held = Top(t).got]),
                  Frame("fwrite", OnFile(Top(t).got)))]
             /\ Len(frames[t]) < MaxDepth
             /\ UNCHANGED <<errno, diskVars, handlerVars>>
  \/ /\ Top(t).pc = "written"
     /\ Calling(t, "saved", "fclose", OnFile(Top(t).held)) /\ UNCHANGED handlerVars
  \/ Top(t).pc = "saved" /\ ends(t)

nx2hook_profile_gen_filehook(t) ==
  Has(t, "gen") /\ game = "nx2" /\ (check_if_exists(t) \/ starts(t) \/ util_file_save(t))
nxahook_profile_gen_filehook(t) ==
  /\ Has(t, "gen") /\ game = "nxa"
  /\ check_if_exists(t) \/ starts(t) \/ migrates(t) \/ util_file_save(t)

-----------------------------------------------------------------------------
(* The threads of the game: each uses the handles that it has opened, and     *)
(* renames and removes files that nobody has open.                            *)

Own(t, chain) ==
  LET handles == IF chain = "file" THEN streams ELSE fds
  IN {h \in DOMAIN handles : handles[h].owner = t}
IsOpen(path) == \E h \in DOMAIN streams : streams[h].path = cnh_redir_check(path)

GameCalls(t) ==
  /\ ~IsIn(t)
  /\ \E c \in Suites[suite.of].calls[t] :
       LET chain == hooked[c.fn].chain
           onHandle == hooked[c.fn].op # "OPEN" /\ chain # "fs"
       IN \/ onHandle /\ \E h \in Own(t, chain) : Call(t, c.fn, [c.irp EXCEPT !.h = h])
          \/ /\ ~onHandle
             /\ c.fn \in {"rename", "remove"} => ~IsOpen(c.irp.path) /\ ~IsOpen(c.irp.to)
             /\ Call(t, c.fn, c.irp)
          \/ c.irp.h = -1 /\ Call(t, c.fn, [c.irp EXCEPT !.h = 0])

\* What the games do not do: call with arguments that have no meaning, and seek
\* outside of the faked disk.
SeeksInside(fn, irp) ==
  \/ hooked[fn].chain = "file" /\ irp.off \in DOMAIN FakedOffsets
  \/ irp.whence = "SET" /\ irp.off \in 0..HddSize
  \/ irp.whence = "CUR" /\ irp.off = 0
  \/ irp.whence = "END" /\ irp.off \in -HddSize..0
IsCall(c) ==
  /\ c.fn \in DOMAIN hooked /\ c.irp \in Irps
  /\ c.irp.pos = 0 /\ c.irp.line = 1
  /\ c.irp.h = -1 => hooked[c.fn].checked = "h"
  /\ hooked[c.fn].op = "SEEK" => SeeksInside(c.fn, c.irp)
ASSUME SuitesAreCalls ==
  \A i \in DOMAIN Suites :
    /\ Suites[i].game \in DOMAIN file_handlers
    /\ Suites[i].errnos \in SUBSET (STRING \ {OK})
    /\ \A t \in Threads : \A c \in Suites[i].calls[t] : IsCall(c)
ASSUME DiskIsLarge == HddSize \in Nat /\ \A off \in DOMAIN FakedOffsets : FakedOffsets[off] <= HddSize

\* One thread makes all of the calls.
IsAlone(i) == \E t \in Threads : \A u \in Threads \ {t} : Suites[i].calls[u] = {}
\* The latch of the dongle outlives its descriptor: who opens it is alone.
ASSUME DogsAreAlone ==
  \A i \in DOMAIN Suites : \A t \in Threads : \A c \in Suites[i].calls[t] :
    c.fn = "open" /\ cnh_redir_check(c.irp.path) = usbdog => IsAlone(i)

\* What the games write, rename and remove are files of Disk that they know by
\* one name, and where they look for their profiles no redirection leads away.
IsProfile(g, path) ==
  g \in DOMAIN generated /\ \E name \in generated[g] : util_str_ends_with(path, name)
KeepsToNames(g, fn, irp) ==
  /\ hooked[fn].op = "OPEN" /\ irp.mode = "w" => irp.path \in Names
  /\ hooked[fn].op \in {"RENAME", "REMOVE"} => irp.path \in Names
  /\ hooked[fn].op = "RENAME" => irp.to \in Names
  /\ fn = "fopen" /\ IsProfile(g, irp.path) =>
       irp.path \in Names /\ cnh_redir_check(irp.path) = irp.path
ASSUME NamesAreOfFiles ==
  /\ \A n \in Names : cnh_redir_check(n) \in Disk
  /\ \A m, n \in Names : cnh_redir_check(m) = cnh_redir_check(n) => m = n
  /\ \A i \in DOMAIN Suites : \A t \in Threads : \A c \in Suites[i].calls[t] :
       IsNull(c.fn, c.irp) \/ KeepsToNames(Suites[i].game, c.fn, c.irp)

Init ==
  /\ suite \in {[of |-> i, game |-> Suites[i].game, errnos |-> Suites[i].errnos,
                alone |-> IsAlone(i)] : i \in DOMAIN Suites}
  /\ frames = [t \in Threads |-> <<>>] /\ errno = [t \in Threads |-> OK]
  /\ \E there \in SUBSET Suites[suite.of].may_be :
       tree = [p \in Disk |-> IF p \in there THEN "complete" ELSE "absent"]
  /\ streams = [h \in 1..MaxHandles |-> Closed] /\ fds = [h \in 1..MaxHandles |-> Closed]
  /\ latch = [name \in {"hdd_file", "hdd_fd", "mounts", "settings", "dog"} |-> 0]
  /\ hdd_fp = 0 /\ mount_eof = FALSE /\ is_creating_file = FALSE

ThreadNext(t) ==
  \/ GameCalls(t) \/ RealCall(t) \/ Done(t) \/ Leave(t)
  \/ cnh_redir_filehook(t) \/ cnh_redir_iohook(t) \/ cnh_redir_fshook(t)
  \/ cnh_fileopen_mon(t) \/ cnh_filehook_mon(t) \/ cnh_iohook_mon(t) \/ cnh_fshook_mon(t)
  \/ patch_hdd_check_filehook(t) \/ patch_hdd_check_iohook(t) \/ patch_mounts_filehook(t)
  \/ _patch_ram_wipe_filehook(t) \/ prihook_usb_updates_filehook(t)
  \/ _hook_nx_unlock_filehook(t) \/ _hook_x2_unlock_filehook(t)
  \/ _hook_zerounlock_filehook(t) \/ patch_microdog34_iohook(t)
  \/ nx2hook_profile_gen_filehook(t) \/ nxahook_profile_gen_filehook(t)
Next == (\E t \in Threads : ThreadNext(t)) /\ UNCHANGED suite

Spec == Init /\ [][Next]_vars

-----------------------------------------------------------------------------
(* Properties.                                                                *)

TypeOK ==
  /\ \A t \in Threads : Len(frames[t]) <= MaxDepth
  /\ errno \in [Threads -> {OK, "EIO", "EBADF", "EMFILE"} \cup DOMAIN known \cup RealErrnos]
  /\ tree \in [Disk -> {"absent", "partial", "complete"}]
  /\ latch \in [DOMAIN latch -> 0..MaxHandles]
  /\ hdd_fp \in Nat /\ mount_eof \in BOOLEAN /\ is_creating_file \in BOOLEAN

\* A call that no handler claims gives its caller what the real function gave,
\* through all of the handlers, and the same error number if that has a result of
\* its own.
PassThrough ==
  \A t \in Threads :
    IsIn(t) /\ Top(t).going = "done" /\ ~Top(t).claimed =>
      /\ Top(t).ret = Top(t).real
      /\ Top(t).errn # OK =>
           errno[t] = IF Top(t).errn \in DOMAIN known THEN Top(t).errn ELSE "EIO"

\* A handler that answers for a handle answers for one that it opened itself or
\* saw being opened and that is still open: a file that later gets the same
\* handle is never taken for the faked one.
LatchesHoldOpenHandles ==
  /\ \A name \in {"hdd_file", "mounts"} :
       latch[name] # 0 => streams[latch[name]].kind = name
  /\ latch["hdd_fd"] # 0 => fds[latch["hdd_fd"]].kind = "hdd_fd"
  /\ latch["settings"] # 0 =>
       \E name \in {ASSET_X2_SETTINGS_FILE_NAME, ASSET_ZERO_SETTINGS_FILE_NAME,
                  ASSET_NX_SETTINGS_FILE_NAME} :
         util_str_ends_with(streams[latch["settings"]].path, name)

\* The position in the faked disk, which the stream and the descriptor share and
\* no open resets, stays inside the buffer, so that every read does.
HddReadsInside == hdd_fp <= HddSize

\* The flag that turns the generator off is set only as long as some thread
\* generates: no path through it leaves later profiles ungenerated.
CreatingIsReleased ==
  is_creating_file =>
    \E t \in Threads : \E i \in DOMAIN frames[t] :
      frames[t][i].pc \in {"older", "is_older", "created", "written", "saved"}

\* The calls of the generator come back to it, but it does not generate for them:
\* where one thread makes all of the calls, they are never nested deeper than
\* the call of the game, that of the generator, and none below that.
GenerationEnds == suite.alone => \A t \in Threads : Len(frames[t]) <= 2

\* The names by which the game knows files, and what it has asked for.
Asked(t) ==
  IF ~IsIn(t) THEN [op |-> "none", path |-> NoPath, to |-> NoPath]
  ELSE LET irp == Top(t).asked
           h == Top(t).irp.h
       IN [op |-> IF Op(t) = "OPEN" /\ irp.mode # "w" THEN "READ" ELSE Op(t),
           path |-> IF Op(t) = "CLOSE" /\ Chain(t) = "file" /\ h # 0 THEN streams[h].name
                    ELSE irp.path,
           to |-> irp.to]
AsNamed == INSTANCE FileTree WITH
  tree <- [n \in Names |-> tree[cnh_redir_check(n)]], asked <- [t \in Threads |-> Asked(t)]

\* Redirections move the files of the game to another place but are not seen:
\* each call changes the file that the game named, under all of its names.
TreeAsRedirected == AsNamed!Spec
=============================================================================
