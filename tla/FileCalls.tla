------------------------------ MODULE FileCalls ------------------------------
(* The file calls of a game: fopen and its kind, open and its kind, rename    *)
(* and its kind.  Each is wrapped into an irp that descends the handlers of   *)
(* its chain, in the order in which they were pushed, until one of them       *)
(* answers it or the real function is called; then every handler that waits   *)
(* for the result sees it, and the wrapper gives it to the caller.  Handlers  *)
(* make calls of their own, which descend the chains anew.                    *)
(*                                                                            *)
(* A path is a sequence of parts.  Streams and descriptors are the smallest   *)
(* number that is free, so that those of closed files come back.  What a file *)
(* holds is left out, but for whether a written one was written to its end.   *)
(* No handler shortens the buffer of an irp and passes it on, so that the     *)
(* real fread and fwrite get the size and number they were called with.       *)
EXTENDS Integers, SequencesExt, HookResults

CONSTANTS Threads,     \* of the game
          Suites,      \* games, the calls that each of their threads makes, the files
                       \* that may be there at first, and the error numbers with which
                       \* a real call may fail at any time
          Disk,        \* the real paths
          MaxHandles,  \* bound: open streams, and open descriptors
          MaxDepth,    \* bound: calls inside calls of a thread
          HddSize      \* patch_hdd_check_boot_area_size

VARIABLES suite,       \* which of the Suites runs
          frames,      \* the calls that each thread is in, the innermost last
          errno,       \* of each thread
          tree,        \* the disk
          streams,     \* the open FILEs
          fds,         \* the open descriptors
          latch,       \* the stream or descriptor that a handler answers for, or 0
          hdd_fp,      \* patch_hdd_check_boot_area_fp
          mount_eof,   \* patch_mount_eof
          is_creating_file   \* the flag of the generator of profiles

callVars == <<frames, errno>>
diskVars == <<tree, streams, fds>>
handlerVars == <<latch, hdd_fp, mount_eof, is_creating_file>>
vars == <<suite, callVars, diskVars, handlerVars>>
game == suite.game
RealErrnos == suite.errnos

-----------------------------------------------------------------------------
(* The wrappers: which argument of the irp must not be NULL, what the caller  *)
(* gets after a failure, and what after a success.                            *)

F(chain, op, checked, bad, good) ==
  [chain |-> chain, op |-> op, checked |-> checked, bad |-> bad, good |-> good]

fopen == F("file", "OPEN", "path", 0, "h")
fclose == F("file", "CLOSE", "h", -1, "zero")
fread == F("file", "READ", "h", 0, "items")
fwrite == F("file", "WRITE", "nothing", 0, "items")
fgets == F("file", "FGETS", "h", 0, "line")
fseek == F("file", "SEEK", "h", -1, "zero")
rewind == F("file", "SEEK", "h", 0, "nothing")
ftell == F("file", "TELL", "h", -1, "off")
feof == F("file", "EOF", "h", -1, "eof")
open == F("io", "OPEN", "path", 0, "h")    \* 0 for no descriptor
fdopen == F("io", "FDOPEN", "h", 0, "stream")
close == F("io", "CLOSE", "h", -1, "zero")
read == F("io", "READ", "h", -1, "pos")
write == F("io", "WRITE", "h", -1, "pos")
lseek == F("io", "SEEK", "h", -1, "off")
ioctl == F("io", "IOCTL", "h", -1, "pos")
opendir == F("fs", "DIR_OPEN", "nothing", 0, "dir")
__lxstat == F("fs", "LXSTAT", "nothing", -1, "zero")
__xstat == F("fs", "XSTAT", "nothing", -1, "zero")
rename == F("fs", "RENAME", "path", -1, "zero")
remove == F("fs", "REMOVE", "path", -1, "zero")
access == F("fs", "ACCESS", "path", -1, "zero")

hooked ==
  [fopen |-> fopen, fclose |-> fclose, fread |-> fread, fwrite |-> fwrite,
   fgets |-> fgets, fseek |-> fseek, rewind |-> rewind, ftell |-> ftell, feof |-> feof,
   open |-> open, fdopen |-> fdopen, close |-> close, read |-> read, write |-> write,
   lseek |-> lseek, ioctl |-> ioctl, opendir |-> opendir, __lxstat |-> __lxstat,
   __xstat |-> __xstat, rename |-> rename, remove |-> remove, access |-> access]

NoPath == <<>>
Irps ==
  [path : Seq(STRING), to : Seq(STRING), mode : {"r", "w"}, h : Int, size : Nat \ {0},
   nmemb : Nat, off : Int, whence : {"SET", "CUR", "END"}, pos : Int, eof : Int, stream : Int,
   line : Int]
Irp == [path |-> NoPath, to |-> NoPath, mode |-> "r", h |-> 0, size |-> 1, nmemb |-> 1,
        off |-> 0, whence |-> "SET", pos |-> 0, eof |-> 0, stream |-> 0, line |-> 1]
OnPath(p) == [Irp EXCEPT !.path = p]
OnFile(h) == [Irp EXCEPT !.h = h]
nbytes(irp) == irp.size * irp.nmemb

Given(good, irp) ==
  CASE good = "zero" -> 0 [] good = "h" -> irp.h [] good = "dir" -> 1
    [] good = "items" -> irp.pos \div irp.size [] good = "line" -> irp.line
    [] good = "off" -> irp.off [] good = "eof" -> irp.eof [] good = "pos" -> irp.pos
    [] good = "stream" -> irp.stream [] good = "nothing" -> 0

IsNull(fn, irp) ==
  \/ hooked[fn].checked = "path" /\ irp.path = NoPath
  \/ hooked[fn].checked = "h" /\ irp.h = 0

-----------------------------------------------------------------------------
(* The frames of a call.                                                      *)

Frame(fn, irp) ==
  [fn |-> fn, asked |-> [path |-> irp.path, to |-> irp.to, mode |-> irp.mode], irp |-> irp,
   next_handler |-> 1, going |-> "down",
   waiting |-> <<>>, pc |-> "in", claimed |-> FALSE, result |-> SUCCESS, errn |-> OK,
   \* what the real function returned, what the caller gets, what the function
   \* called from here returned, and the stream that it gave
   real |-> 0, ret |-> 0, got |-> 0, held |-> 0]

Top(t) == Last(frames[t])
IsIn(t) == frames[t] # <<>>
Become(t, f) == frames' = [frames EXCEPT ![t] = Append(Front(@), f)]
Chain(t) == hooked[Top(t).fn].chain
Op(t) == hooked[Top(t).fn].op

file_handlers ==
  [x2 |-> <<"redir", "unlock">>, zero |-> <<"redir", "unlock", "hdd">>,
   nx |-> <<"open_mon", "mon", "redir", "unlock", "hdd">>,
   nx2 |-> <<"redir", "mounts", "hdd", "gen">>, nxa |-> <<"redir", "mounts", "hdd", "gen">>,
   pri |-> <<"redir", "mounts", "hdd", "ram_wipe", "usb_updates">>]
io_handlers ==
  [x2 |-> <<"redir", "dog34">>, zero |-> <<"redir", "dog34", "hdd">>,
   nx |-> <<"open_mon", "mon", "redir", "dog34", "hdd">>, nx2 |-> <<"redir", "hdd">>,
   nxa |-> <<"redir", "hdd">>, pri |-> <<"redir", "hdd">>]
fs_handlers ==
  [g \in DOMAIN io_handlers |->
    IF g = "nx" THEN <<"open_mon", "mon", "redir">> ELSE <<"redir">>]
handlers(chain) == CASE chain = "file" -> file_handlers[game]
                     [] chain = "io" -> io_handlers[game]
                     [] chain = "fs" -> fs_handlers[game]

\* The handler with the call, "real" behind the last one.
Handler(t) ==
  IF Top(t).going # "down" THEN "none"
  ELSE IF Top(t).next_handler > Len(handlers(Chain(t))) THEN "real"
  ELSE handlers(Chain(t))[Top(t).next_handler]
Has(t, name) == IsIn(t) /\ Handler(t) = name

invoke_next(t, irp) ==
  Become(t, [Top(t) EXCEPT !.next_handler = @ + 1, !.irp = irp, !.pc = "in"])
Passes(t) == invoke_next(t, Top(t).irp) /\ UNCHANGED <<errno, diskVars, handlerVars>>
\* The handler does something with the result.
invoke_next_and(t, name) ==
  /\ Become(t, [Top(t) EXCEPT !.next_handler = @ + 1, !.waiting = Append(@, name)])
  /\ UNCHANGED <<errno, diskVars>>
Claims(t, result, irp) ==
  /\ Become(t, [Top(t) EXCEPT !.going = "up", !.claimed = TRUE, !.result = result,
                              !.irp = irp])
  /\ UNCHANGED errno
Answers(t, irp) == Claims(t, SUCCESS, irp)

\* A call is refused for its arguments before any handler sees it.
Call(t, fn, irp) ==
  /\ IF IsNull(fn, irp)
     THEN frames' = [frames EXCEPT ![t] = Append(@,
            [Frame(fn, irp) EXCEPT !.going = "done", !.ret = hooked[fn].bad,
                                   !.claimed = TRUE])]
          /\ errno' = [errno EXCEPT ![t] =
               IF fn = "feof" THEN "EBADF" ELSE cnh_result_to_errno("INVALID_PARAMETER")]
     ELSE frames' = [frames EXCEPT ![t] = Append(@, Frame(fn, irp))] /\ UNCHANGED errno
  /\ UNCHANGED <<diskVars, handlerVars>>
\* A handler calls a function and goes on at pc.
Calling(t, pc, fn, irp) ==
  /\ Len(frames[t]) < MaxDepth
  /\ frames' = [frames EXCEPT ![t] =
       Append(Append(Front(@), [Top(t) EXCEPT !.pc = pc]), Frame(fn, irp))]
  /\ UNCHANGED <<errno, diskVars>>

-----------------------------------------------------------------------------
(* Open streams and descriptors.                                              *)

Closed == [kind |-> "closed", name |-> NoPath, path |-> NoPath, mode |-> "r", owner |-> "none"]
Opened(t, kind, irp) ==
  [kind |-> kind, name |-> Top(t).asked.path, path |-> irp.path, mode |-> irp.mode, owner |-> t]
Free(handles) == {h \in DOMAIN handles : handles[h].kind = "closed"}
\* The number that the next one gets, 0 if there are too many.
Lowest(handles) ==
  IF Free(handles) = {} THEN {0} ELSE {h \in Free(handles) : \A k \in Free(handles) : h <= k}

-----------------------------------------------------------------------------
(* The real functions.  What they return goes up, with the error number.      *)

Fails(t, real, e) ==
  /\ Become(t, [Top(t) EXCEPT !.going = "up", !.result = cnh_errno_to_result(e),
                              !.errn = e, !.real = real])
  /\ errno' = [errno EXCEPT ![t] = e]
Returns(t, real, irp) ==
  /\ Become(t, [Top(t) EXCEPT !.going = "up", !.real = real, !.irp = irp])
  /\ UNCHANGED errno
Real(t, op) == Has(t, "real") /\ Op(t) = op /\ UNCHANGED handlerVars
MayFail(t, real) == (\E e \in RealErrnos : Fails(t, real, e)) /\ UNCHANGED diskVars

Exists(path) == path \in Disk /\ tree[path] # "absent"
\* A file is opened, created or emptied; h is its lowest free handle, or 0.
OpenReal(t, handles, h) ==
  LET irp == Top(t).irp
      made == irp.mode = "w" /\ irp.path \in Disk
  IN \/ /\ h # 0 /\ h \in Lowest(handles)
        /\ Exists(irp.path) \/ made
        /\ Returns(t, h, [irp EXCEPT !.h = h])
        /\ tree' = IF made THEN [tree EXCEPT ![irp.path] = "partial"] ELSE tree
     \/ /\ h = 0 /\ UNCHANGED tree
        /\ \/ ~Exists(irp.path) /\ ~made /\ Fails(t, 0, "ENOENT")
           \/ Free(handles) = {} /\ Fails(t, 0, "EMFILE")
           \/ \E e \in RealErrnos : Fails(t, 0, e)
Keep(handles, t, h) ==
  IF h = 0 THEN handles ELSE [handles EXCEPT ![h] = Opened(t, "file", Top(t).irp)]
_cnh_filehook_invoke_real_fopen(t) ==
  /\ Real(t, "OPEN") /\ Chain(t) = "file"
  /\ \E h \in Free(streams) \cup {0} : OpenReal(t, streams, h) /\ streams' = Keep(streams, t, h)
  /\ UNCHANGED fds
_cnh_iohook_invoke_real_open(t) ==
  /\ Real(t, "OPEN") /\ Chain(t) = "io"
  /\ \E h \in Free(fds) \cup {0} : OpenReal(t, fds, h) /\ fds' = Keep(fds, t, h)
  /\ UNCHANGED streams

\* A written file is complete once it is closed; the stream is gone even if the
\* close fails.
Completed(f) ==
  IF f.mode = "w" /\ f.kind = "file" /\ tree[f.path] = "partial"
  THEN [tree EXCEPT ![f.path] = "complete"] ELSE tree
_cnh_filehook_invoke_real_fclose(t) ==
  /\ Real(t, "CLOSE") /\ Chain(t) = "file"
  /\ LET h == Top(t).irp.h
     IN /\ streams' = [streams EXCEPT ![h] = Closed]
        /\ \/ Returns(t, 0, Top(t).irp) /\ tree' = Completed(streams[h])
           \/ (\E e \in RealErrnos : Fails(t, -1, e)) /\ UNCHANGED tree
  /\ UNCHANGED fds
_cnh_iohook_invoke_real_close(t) ==
  /\ Real(t, "CLOSE") /\ Chain(t) = "io"
  /\ fds' = [fds EXCEPT ![Top(t).irp.h] = Closed]
  /\ \/ Returns(t, 0, Top(t).irp)
     \/ \E e \in RealErrnos : Fails(t, -1, e)
  /\ UNCHANGED <<tree, streams>>
\* Only a descriptor that a handler answers for is given a stream.
_cnh_iohook_invoke_real_fdopen(t) == Real(t, "FDOPEN") /\ MayFail(t, 0)

\* As much as was asked for, a part of it, or nothing at the end of the file.
_cnh_filehook_invoke_real_fread(t) ==
  /\ Real(t, "READ") /\ Chain(t) = "file"
  /\ LET irp == Top(t).irp
     IN \/ \E n \in {0, irp.nmemb - 1, irp.nmemb} :
             Returns(t, n, [irp EXCEPT !.pos = n * irp.size]) /\ UNCHANGED diskVars
        \/ MayFail(t, 0)
_cnh_filehook_invoke_real_fwrite(t) ==
  /\ Real(t, "WRITE") /\ Chain(t) = "file"
  /\ LET irp == Top(t).irp
     IN \/ \E written \in {irp.nmemb - 1, irp.nmemb} :
             Returns(t, written, [irp EXCEPT !.pos = written * irp.size]) /\ UNCHANGED diskVars
        \/ MayFail(t, 0)
_cnh_iohook_invoke_real_read(t) ==
  /\ Real(t, "READ") /\ Chain(t) = "io"
  /\ \/ \E n \in {0, 1, nbytes(Top(t).irp)} :
          Returns(t, n, [Top(t).irp EXCEPT !.pos = @ + n]) /\ UNCHANGED diskVars
     \/ MayFail(t, -1)
_cnh_iohook_invoke_real_write(t) ==
  /\ Real(t, "WRITE") /\ Chain(t) = "io"
  /\ \/ \E written \in {1, nbytes(Top(t).irp)} :
          Returns(t, written, [Top(t).irp EXCEPT !.pos = @ + written]) /\ UNCHANGED diskVars
     \/ MayFail(t, -1)

\* The end of the file leaves errno alone: it is whatever the last failure of
\* the thread left there, and told from an error by it.
_cnh_filehook_invoke_real_fgets(t) ==
  /\ Real(t, "FGETS")
  /\ \/ Returns(t, 1, Top(t).irp) /\ UNCHANGED diskVars
     \/ /\ UNCHANGED diskVars
        /\ IF errno[t] = OK THEN Returns(t, 0, [Top(t).irp EXCEPT !.line = 0])
           ELSE Fails(t, 0, errno[t])
     \/ MayFail(t, 0)
_cnh_filehook_invoke_real_fseek(t) ==
  /\ Real(t, "SEEK") /\ Chain(t) = "file"
  /\ \/ Returns(t, 0, Top(t).irp) /\ UNCHANGED diskVars
     \/ MayFail(t, IF Top(t).fn = "rewind" THEN 0 ELSE -1)
_cnh_iohook_invoke_real_seek(t) ==
  /\ Real(t, "SEEK") /\ Chain(t) = "io"
  /\ \/ Returns(t, Top(t).irp.off, Top(t).irp) /\ UNCHANGED diskVars
     \/ MayFail(t, -1)
_cnh_filehook_invoke_real_ftell(t) ==
  /\ Real(t, "TELL")
  /\ \/ \E off \in {0, 1} : Returns(t, off, [Top(t).irp EXCEPT !.off = off]) /\ UNCHANGED diskVars
     \/ MayFail(t, -1)
_cnh_filehook_invoke_real_feof(t) ==
  /\ Real(t, "EOF")
  /\ \E eof \in {0, 1} : Returns(t, eof, [Top(t).irp EXCEPT !.eof = eof])
  /\ UNCHANGED diskVars
_cnh_iohook_invoke_real_ioctl(t) ==
  /\ Real(t, "IOCTL")
  /\ \/ \E pos \in {0, 1} : Returns(t, pos, [Top(t).irp EXCEPT !.pos = pos]) /\ UNCHANGED diskVars
     \/ MayFail(t, -1)

\* The calls on names need a file there.
OnName(t, op, good, bad) ==
  /\ Real(t, op)
  /\ \/ /\ Exists(Top(t).irp.path)
        /\ Returns(t, good, Top(t).irp) /\ UNCHANGED diskVars
     \/ ~Exists(Top(t).irp.path) /\ Fails(t, bad, "ENOENT") /\ UNCHANGED diskVars
     \/ MayFail(t, bad)
_cnh_fshook_invoke_real_opendir(t) == OnName(t, "DIR_OPEN", 1, 0)
_cnh_fshook_invoke_real_lxstat(t) == OnName(t, "LXSTAT", 0, -1)
_cnh_fshook_invoke_real_xstat(t) == OnName(t, "XSTAT", 0, -1)
_cnh_fshook_invoke_real_access(t) == OnName(t, "ACCESS", 0, -1)
Changing(t, op, possible, tree_) ==
  /\ Real(t, op)
  /\ \/ possible /\ Returns(t, 0, Top(t).irp) /\ tree' = tree_
     \/ ~possible /\ Fails(t, -1, "ENOENT") /\ UNCHANGED tree
     \/ (\E e \in RealErrnos : Fails(t, -1, e)) /\ UNCHANGED tree
  /\ UNCHANGED <<streams, fds>>
_cnh_fshook_invoke_real_rename(t) ==
  LET old == Top(t).irp.path
      new == Top(t).irp.to
  IN Changing(t, "RENAME", Exists(old) /\ new \in Disk,
              [p \in Disk |-> IF p = new THEN tree[old]
                                     ELSE IF p = old THEN "absent" ELSE tree[p]])
_cnh_fshook_invoke_real_remove(t) ==
  LET path == Top(t).irp.path
  IN Changing(t, "REMOVE", Exists(path), [p \in Disk |->
              IF p = path THEN "absent" ELSE tree[p]])

RealCall(t) ==
  \/ _cnh_filehook_invoke_real_fopen(t) \/ _cnh_filehook_invoke_real_fclose(t)
  \/ _cnh_filehook_invoke_real_fread(t) \/ _cnh_filehook_invoke_real_fwrite(t)
  \/ _cnh_filehook_invoke_real_fgets(t) \/ _cnh_filehook_invoke_real_fseek(t)
  \/ _cnh_filehook_invoke_real_ftell(t) \/ _cnh_filehook_invoke_real_feof(t)
  \/ _cnh_iohook_invoke_real_open(t) \/ _cnh_iohook_invoke_real_fdopen(t)
  \/ _cnh_iohook_invoke_real_close(t) \/ _cnh_iohook_invoke_real_read(t)
  \/ _cnh_iohook_invoke_real_write(t) \/ _cnh_iohook_invoke_real_seek(t)
  \/ _cnh_iohook_invoke_real_ioctl(t) \/ _cnh_fshook_invoke_real_opendir(t)
  \/ _cnh_fshook_invoke_real_lxstat(t) \/ _cnh_fshook_invoke_real_xstat(t)
  \/ _cnh_fshook_invoke_real_rename(t) \/ _cnh_fshook_invoke_real_remove(t)
  \/ _cnh_fshook_invoke_real_access(t)

-----------------------------------------------------------------------------
(* The wrapper has the result: what the caller gets, and errno.               *)

Done(t) ==
  /\ IsIn(t) /\ Top(t).going = "up" /\ Top(t).waiting = <<>>
  /\ LET f == Top(t)
         good == f.result = SUCCESS
     IN /\ Become(t, [f EXCEPT !.going = "done",
              !.ret = IF good THEN Given(hooked[f.fn].good, f.irp) ELSE hooked[f.fn].bad])
        /\ errno' = [errno EXCEPT ![t] =
              IF good THEN IF f.fn = "rewind" THEN @ ELSE OK
              ELSE IF f.fn = "feof" THEN "EBADF" ELSE cnh_result_to_errno(f.result)]
  /\ UNCHANGED <<diskVars, handlerVars>>

\* The caller, the game or the handler that made the call, goes on.
Leave(t) ==
  /\ IsIn(t) /\ Top(t).going = "done"
  /\ LET below == Front(frames[t])
     IN frames' = [frames EXCEPT ![t] =
          IF below = <<>> THEN <<>>
          ELSE Append(Front(below), [Last(below) EXCEPT !.got = Top(t).ret])]
  /\ UNCHANGED <<errno, diskVars, handlerVars>>
=============================================================================
