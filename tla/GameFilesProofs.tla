--------------------------- MODULE GameFilesProofs ---------------------------
EXTENDS GameFiles, SequenceTheorems, TLAPS

(* What the variables hold.  The provers do not know that the strings that    *)
(* the code names are in STRING, so that the types of this module name them.  *)
Parts ==
  STRING \cup {"/game/save", "/game/", "SCRIPT", "/sys/kernel/debug/usb/devices", "nx2save.bin",
              "nx2rank.bin"}
Paths == Seq(Parts)
Results == {SUCCESS, "OTHER_ERROR", "NO_SUCH_FILE_OR_DIR"} \cup Range(known)
Errors == STRING \cup {OK, "EIO", "EBADF", "EMFILE"} \cup DOMAIN known
Requests ==
  [path : Paths, to : Paths, mode : {"r", "w"}, h : Int, size : Nat \ {0},
   nmemb : Nat, off : Int, whence : {"SET", "CUR", "END"}, pos : Int, eof : Int, stream : Int,
   line : Int]

Modes == {"r", "w"}
Files == [kind : {"closed", "file", "hdd_file", "mounts", "hdd_fd", "dog"}, name : Paths,
          path : Paths, mode : Modes, owner : Threads \cup {"none"}]
GenPcs == {"checked", "older", "is_older", "created", "written", "saved"}
FrameTypes ==
  [fn : DOMAIN hooked, asked : [path : Paths, to : Paths, mode : Modes], irp : Requests,
   next_handler : Nat \ {0}, going : {"down", "up", "done"}, waiting : Seq({"unlock"}),
   pc : {"in", "closed"} \cup GenPcs, claimed : BOOLEAN, result : Results, errn : Errors,
   real : Int, ret : Int, got : Int, held : Int]

HandlersOf(g, fn) ==
  CASE hooked[fn].chain = "file" -> file_handlers[g]
    [] hooked[fn].chain = "io" -> io_handlers[g]
    [] hooked[fn].chain = "fs" -> fs_handlers[g]
Ahead(g, f, name) ==
  \E k \in DOMAIN HandlersOf(g, f.fn) : k >= f.next_handler /\ HandlersOf(g, f.fn)[k] = name
RedirAt(g) == IF g = "nx" THEN 3 ELSE 1
Rewritten(g, f, path) == IF f.next_handler > RedirAt(g) THEN cnh_redir_check(path) ELSE path

IsRedirected(g, f) ==
  /\ f.irp.path = Rewritten(g, f, f.asked.path)
  /\ f.irp.to = IF hooked[f.fn].op = "RENAME" THEN Rewritten(g, f, f.asked.to) ELSE f.asked.to
  /\ f.irp.mode = f.asked.mode
IsUntouched(f) ==
  f.going = "down" =>
    /\ ~f.claimed /\ f.result = SUCCESS /\ f.errn = OK /\ f.irp.pos = 0 /\ f.irp.line = 1
    /\ hooked[f.fn].op = "SEEK" => SeeksInside(f.fn, f.irp)
IsReal(f) ==
  f.going = "up" /\ ~f.claimed =>
    \/ f.errn = OK /\ f.result = SUCCESS /\ f.real = Given(hooked[f.fn].good, f.irp)
    \/ /\ f.errn # OK /\ f.result = cnh_errno_to_result(f.errn) /\ f.real = hooked[f.fn].bad
       /\ f.fn # "feof"
IsGenerator(g, f) ==
  /\ f.pc \in GenPcs =>
       /\ g \in {"nx2", "nxa"} /\ f.fn = "fopen" /\ f.going = "down" /\ f.next_handler = 4
       /\ \E name \in generated[g] : util_str_ends_with(f.irp.path, name)
  /\ f.pc \in {"older", "is_older"} => g = "nxa"
\* Whose turn it is.
Turn(g, f, name) ==
  /\ f.going = "down" /\ f.next_handler \in 1..Len(HandlersOf(g, f.fn))
  /\ HandlersOf(g, f.fn)[f.next_handler] = name
IsPlaced(g, f) ==
  /\ f.waiting # <<>> => hooked[f.fn].chain = "file"
  /\ f.pc = "closed" => f.fn = "close" /\ (f.going = "down" => Turn(g, f, "dog34"))
Frames(g) ==
  {f \in FrameTypes : IsRedirected(g, f) /\ IsUntouched(f) /\ IsReal(f) /\ IsGenerator(g, f)
                      /\ IsPlaced(g, f)}

CalledAt ==
  [checked |-> "access", older |-> "fopen", is_older |-> "fclose", created |-> "fopen",
   written |-> "fwrite", saved |-> "fclose"]
Calls(frame, callee) == frame.pc \in GenPcs /\ callee.fn = CalledAt[frame.pc]
FrameInv ==
  /\ frames \in [Threads -> Seq(Frames(game))]
  /\ \A t \in Threads : \A i \in 1..Len(frames[t]) :
       i < Len(frames[t]) => Calls(frames[t][i], frames[t][i + 1])
ReturnAt(t) ==
  IsIn(t) /\ Top(t).going = "done" /\ ~Top(t).claimed =>
    /\ Top(t).ret = Top(t).real
    /\ Top(t).errn # OK =>
         errno[t] = IF Top(t).errn \in DOMAIN known THEN Top(t).errn ELSE "EIO"

\* The handles: those that are open belong to the thread that opened them.
HandleTypes(handles) ==
  /\ handles \in [1..MaxHandles -> Files]
  /\ \A h \in 1..MaxHandles :
       /\ handles[h].kind = "closed" <=> handles[h].owner = "none"
       /\ handles[h].kind = "closed" => handles[h].path = NoPath
RestInv ==
  /\ errno \in [Threads -> {OK, "EIO", "EBADF", "EMFILE"} \cup DOMAIN known \cup RealErrnos]
  /\ tree \in [Disk -> {"absent", "partial", "complete"}]
  /\ HandleTypes(streams) /\ HandleTypes(fds)
  /\ hdd_fp \in 0..HddSize /\ mount_eof \in BOOLEAN /\ is_creating_file \in BOOLEAN

\* What a thread is about to close, has got from an open, or holds over a write
\* is its own.
Mine(t, handles, h) == h \in 1..MaxHandles /\ handles[h].owner = t
HandlesOf(f) == IF hooked[f.fn].chain = "file" THEN streams ELSE fds
Closes(f) == f.going = "down" /\ f.fn \in {"fclose", "close"} /\ f.pc = "in"
Opened_(t, f) ==
  f.fn = "fopen" /\ f.going = "up" /\ f.result = SUCCESS =>
    /\ f.irp.h # 0 => Mine(t, streams, f.irp.h)
    /\ f.irp.path \notin {hdd, mounts} => f.irp.h # 0 /\ streams[f.irp.h].path = f.irp.path
HoldsAt(t) ==
  IsIn(t) =>
    /\ Closes(Top(t)) => Mine(t, HandlesOf(Top(t)), Top(t).irp.h)
    /\ Opened_(t, Top(t))
    /\ Top(t).fn = "fopen" /\ Top(t).going = "done" /\ Top(t).ret # 0 => Mine(t, streams, Top(t).ret)
    /\ Top(t).pc \in {"older", "created"} /\ Top(t).got # 0 => Mine(t, streams, Top(t).got)
    /\ \A i \in 1..Len(frames[t]) :
         frames[t][i].pc = "written" => Mine(t, streams, frames[t][i].held)

\* The latches: what they name is open for the handler that looks at them; who
\* closes it has not passed that handler yet.
StreamLatches == {"hdd_file", "mounts", "settings"}
FdLatches == {"hdd_fd", "dog"}
LatchNames == StreamLatches \cup FdLatches
HandlerOf(name) ==
  CASE name \in {"hdd_file", "hdd_fd"} -> "hdd" [] name = "mounts" -> "mounts"
    [] name = "settings" -> "unlock" [] name = "dog" -> "dog34"
HandlesFor(name) == IF name \in StreamLatches THEN streams ELSE fds
LatchesOf(f) == IF hooked[f.fn].chain = "file" THEN StreamLatches ELSE FdLatches
SettingsNames ==
  {ASSET_X2_SETTINGS_FILE_NAME, ASSET_ZERO_SETTINGS_FILE_NAME, ASSET_NX_SETTINGS_FILE_NAME}
IsFor(name, file) ==
  IF name = "settings" THEN \E n \in SettingsNames : util_str_ends_with(file.path, n)
  ELSE file.kind = name
Frees(f) == f.pc = "closed" /\ f.going = "down"
Listed(name) ==
  LET list == IF name \in StreamLatches THEN file_handlers[game] ELSE io_handlers[game]
  IN \E k \in DOMAIN list : list[k] = HandlerOf(name)
LatchOpen ==
  /\ latch \in [LatchNames -> 0..MaxHandles]
  /\ \A name \in LatchNames : latch[name] # 0 =>
       /\ Listed(name)
       /\ name = "dog" => suite.alone
       /\ \/ IsFor(name, HandlesFor(name)[latch[name]])
          \/ name = "dog" /\ \E t \in Threads : IsIn(t) /\ Frees(Top(t))
LatchAt(t) ==
  IsIn(t) =>
    /\ Closes(Top(t)) => \A name \in LatchesOf(Top(t)) :
         latch[name] = Top(t).irp.h => Ahead(game, Top(t), HandlerOf(name))
    /\ Frees(Top(t)) => latch["dog"] = Top(t).irp.h

\* Which suite runs, and how deep its threads are in their calls.
SuiteInv ==
  /\ suite.of \in DOMAIN Suites
  /\ suite = [of |-> suite.of, game |-> Suites[suite.of].game, errnos |-> Suites[suite.of].errnos,
              alone |-> IsAlone(suite.of)]
IdleAt(t) == Suites[suite.of].calls[t] = {} => frames[t] = <<>>
CreatingPcs == GenPcs \ {"checked"}
GenAt(t) ==
  suite.alone =>
    /\ Len(frames[t]) <= 2
    /\ \A i \in 1..Len(frames[t]) : frames[t][i].pc \in CreatingPcs => is_creating_file
    /\ Len(frames[t]) = 2 => Top(t).pc = "in"
DogAt(t) ==
  \A i \in 1..Len(frames[t]) :
    frames[t][i].fn = "open" /\ cnh_redir_check(frames[t][i].asked.path) = usbdog => suite.alone
DepthAt(t) == Len(frames[t]) <= MaxDepth

ThreadInv(t) ==
  ReturnAt(t) /\ HoldsAt(t) /\ LatchAt(t) /\ IdleAt(t) /\ GenAt(t) /\ DogAt(t) /\ DepthAt(t)
Inv == SuiteInv /\ FrameInv /\ RestInv /\ LatchOpen /\ \A t \in Threads : ThreadInv(t)

-----------------------------------------------------------------------------
(* Frames.                                                                    *)

LEMMA FrontAndLast ==
  ASSUME NEW S, NEW s \in Seq(S), s # <<>>
  PROVE  /\ Last(s) \in S /\ Front(s) \in Seq(S)
         /\ Len(Front(s)) = Len(s) - 1 /\ Len(s) \in Nat \ {0}
         /\ \A i \in 1..Len(s) - 1 : Front(s)[i] = s[i] /\ s[i] \in S
<1>1. Len(s) \in Nat \ {0}
  BY EmptySeq
<1>2. \A i \in 1..Len(s) : s[i] \in S
  BY ElementOfSeq
<1>3. /\ SubSeq(s, 1, Len(s) - 1) \in Seq(S) /\ Len(SubSeq(s, 1, Len(s) - 1)) = Len(s) - 1
      /\ \A i \in 1..Len(s) - 1 : SubSeq(s, 1, Len(s) - 1)[i] = s[i]
  <2>1. \A i \in 1..Len(s) - 1 : s[i] \in S
    BY <1>1, <1>2
  <2>2. 1 \in Int /\ Len(s) - 1 \in Int
    BY <1>1
  <2>3. /\ SubSeq(s, 1, Len(s) - 1) \in Seq(S)
        /\ Len(SubSeq(s, 1, Len(s) - 1)) = IF 1 <= Len(s) - 1 THEN Len(s) - 1 - 1 + 1 ELSE 0
        /\ \A i \in 1..(Len(s) - 1) - 1 + 1 : SubSeq(s, 1, Len(s) - 1)[i] = s[1 + i - 1]
    BY <2>1, <2>2, SubSeqProperties
  <2>4. (Len(s) - 1) - 1 + 1 = Len(s) - 1 /\ \A i \in 1..Len(s) - 1 : 1 + i - 1 = i
    BY <1>1
  <2> QED
    BY <1>1, <2>3, <2>4
<1> QED
  BY <1>1, <1>2, <1>3 DEF Front, Last

LEMMA TopIsFrame ==
  ASSUME FrameInv, NEW t \in Threads, IsIn(t)
  PROVE  Top(t) \in Frames(game) /\ Top(t) \in FrameTypes /\ frames[t] \in Seq(Frames(game))
         /\ Len(frames[t]) \in Nat \ {0} /\ Top(t) = frames[t][Len(frames[t])]
<1>1. frames[t] \in Seq(Frames(game)) /\ frames[t] # <<>>
  BY DEF FrameInv, IsIn
<1>2. Last(frames[t]) \in Frames(game) /\ Len(frames[t]) \in Nat \ {0}
  BY ONLY <1>1, FrontAndLast
<1> QED
  BY <1>1, <1>2 DEF Frames, Top, Last

LEMMA FrontAppend ==
  ASSUME NEW S, NEW s \in Seq(S), s # <<>>, NEW e \in S
  PROVE  /\ Append(Front(s), e) \in Seq(S)
         /\ Len(Append(Front(s), e)) = Len(s)
         /\ \A i \in 1..Len(s) - 1 : Append(Front(s), e)[i] = s[i]
         /\ Append(Front(s), e)[Len(s)] = e /\ Append(Front(s), e) # <<>>
<1>1. Front(s) \in Seq(S) /\ Len(Front(s)) = Len(s) - 1 /\ Len(s) \in Nat \ {0}
      /\ \A i \in 1..Len(s) - 1 : Front(s)[i] = s[i]
  BY FrontAndLast
<1>2. /\ Append(Front(s), e) \in Seq(S) /\ Append(Front(s), e) # <<>>
      /\ Len(Append(Front(s), e)) = Len(Front(s)) + 1
      /\ \A i \in 1..Len(Front(s)) : Append(Front(s), e)[i] = Front(s)[i]
      /\ Append(Front(s), e)[Len(Front(s)) + 1] = e
  BY <1>1, AppendProperties
<1> QED
  BY ONLY <1>1, <1>2

\* The innermost frame changes, and keeps its function.
LEMMA Becomes ==
  ASSUME FrameInv, UNCHANGED suite, NEW t \in Threads, IsIn(t), NEW f \in Frames(game),
         f.fn = Top(t).fn, Become(t, f)
  PROVE  /\ FrameInv' /\ IsIn(t)' /\ Top(t)' = f /\ frames' = [frames EXCEPT ![t] = frames'[t]]
         /\ Len(frames'[t]) = Len(frames[t])
         /\ \A i \in 1..Len(frames[t]) - 1 : frames'[t][i] = frames[t][i]
<1> DEFINE s == frames[t]
<1>1. s \in Seq(Frames(game)) /\ s # <<>> /\ Len(s) \in Nat \ {0}
      /\ Top(t) = s[Len(s)]
  BY TopIsFrame DEF IsIn
<1>2. /\ frames' = [frames EXCEPT ![t] = Append(Front(s), f)]
      /\ frames'[t] = Append(Front(s), f)
  BY DEF Become, FrameInv
<1>3. /\ frames'[t] \in Seq(Frames(game)) /\ frames'[t] # <<>>
      /\ Len(frames'[t]) = Len(s) /\ frames'[t][Len(s)] = f
      /\ \A i \in 1..Len(s) - 1 : frames'[t][i] = s[i]
  BY ONLY <1>1, <1>2, FrontAppend
<1>4. Frames(game)' = Frames(game')
  OBVIOUS
<1>5. game' = game
  BY DEF game
<1>6. frames' \in [Threads -> Seq(Frames(game'))]
  BY <1>2, <1>3, <1>5 DEF FrameInv
<1>7. ASSUME NEW u \in Threads, NEW i \in 1..Len(frames'[u]), i < Len(frames'[u])
      PROVE  Calls(frames'[u][i], frames'[u][i + 1])
  <2>1. CASE u # t
    BY <1>2, <1>7, <2>1 DEF FrameInv
  <2>2. CASE u = t
    <3>1. Calls(s[i], s[i + 1]) /\ i \in 1..Len(s) - 1
      BY <1>1, <1>3, <1>7, <2>2 DEF FrameInv
    <3>2. CASE i + 1 < Len(s)
      BY <1>1, <1>3, <2>2, <3>1, <3>2
    <3>3. CASE i + 1 = Len(s)
      BY <1>1, <1>3, <2>2, <3>1, <3>3 DEF Calls
    <3> QED
      BY <1>1, <3>1, <3>2, <3>3
  <2> QED
    BY <2>1, <2>2
<1>8. FrameInv'
  BY <1>6, <1>7 DEF FrameInv, Calls
<1>9. IsIn(t)' /\ Top(t)' = f
  BY <1>1, <1>3 DEF IsIn, Top, Last
<1> QED
  BY <1>1, <1>2, <1>3, <1>8, <1>9

\* The innermost frame calls a function.
LEMMA Pushed ==
  ASSUME FrameInv, UNCHANGED suite, NEW t \in Threads, IsIn(t), NEW f \in Frames(game),
         f.fn = Top(t).fn, NEW g \in Frames(game), Calls(f, g),
         frames' = [frames EXCEPT ![t] = Append(Append(Front(@), f), g)]
  PROVE  /\ FrameInv' /\ IsIn(t)' /\ Top(t)' = g /\ frames' = [frames EXCEPT ![t] = frames'[t]]
         /\ Len(frames'[t]) = Len(frames[t]) + 1 /\ frames'[t][Len(frames[t])] = f
         /\ \A i \in 1..Len(frames[t]) - 1 : frames'[t][i] = frames[t][i]
<1> DEFINE s == frames[t]
           r == Append(Front(s), f)
<1>1. s \in Seq(Frames(game)) /\ s # <<>> /\ Len(s) \in Nat \ {0}
      /\ Top(t) = s[Len(s)]
  BY TopIsFrame DEF IsIn
<1>2. /\ frames' = [frames EXCEPT ![t] = Append(r, g)]
      /\ frames'[t] = Append(r, g)
  BY DEF FrameInv
<1>3. /\ r \in Seq(Frames(game)) /\ Len(r) = Len(s) /\ r[Len(s)] = f
      /\ \A i \in 1..Len(s) - 1 : r[i] = s[i]
  BY ONLY <1>1, FrontAppend
<1>4. /\ frames'[t] \in Seq(Frames(game)) /\ frames'[t] # <<>>
      /\ Len(frames'[t]) = Len(s) + 1 /\ frames'[t][Len(s) + 1] = g
      /\ \A i \in 1..Len(s) : frames'[t][i] = r[i]
  <2> HIDE DEF r
  <2>1. /\ Append(r, g) \in Seq(Frames(game)) /\ Append(r, g) # <<>>
        /\ Len(Append(r, g)) = Len(r) + 1 /\ Append(r, g)[Len(r) + 1] = g
        /\ \A i \in 1..Len(r) : Append(r, g)[i] = r[i]
    BY ONLY <1>3, AppendProperties, g \in Frames(game)
  <2> QED
    BY ONLY <1>2, <1>3, <2>1
<1>5. Frames(game)' = Frames(game') /\ game' = game
  BY DEF game
<1>6. frames' \in [Threads -> Seq(Frames(game'))]
  BY <1>2, <1>4, <1>5 DEF FrameInv
<1>7. \A i \in 1..Len(s) - 1 : frames'[t][i] = s[i]
  BY <1>1, <1>3, <1>4
<1>8. frames'[t][Len(s)] = f
  BY <1>1, <1>3, <1>4
<1>9. ASSUME NEW u \in Threads, NEW i \in 1..Len(frames'[u]), i < Len(frames'[u])
      PROVE  Calls(frames'[u][i], frames'[u][i + 1])
  <2>1. CASE u # t
    BY <1>2, <1>9, <2>1 DEF FrameInv
  <2>2. CASE u = t /\ i = Len(s)
    BY <1>4, <1>8, <2>2
  <2>3. CASE u = t /\ i # Len(s)
    <3>1. Calls(s[i], s[i + 1]) /\ i \in 1..Len(s) - 1
      <4>1. i \in 1..Len(s) + 1 /\ i < Len(s) + 1
        BY ONLY <1>4, <1>9, <2>3
      <4>2. i \in 1..Len(s) - 1 /\ i \in 1..Len(s) /\ i < Len(s)
        BY ONLY <1>1, <2>3, <4>1
      <4>3. \A k \in 1..Len(s) : k < Len(s) => Calls(s[k], s[k + 1])
        BY DEF FrameInv
      <4> QED
        BY ONLY <4>2, <4>3
    <3>2. CASE i + 1 < Len(s)
      <4>1. i + 1 \in 1..Len(s) - 1
        BY ONLY <1>1, <3>1, <3>2
      <4> QED
        BY ONLY <1>7, <2>3, <3>1, <4>1
    <3>3. CASE i + 1 = Len(s)
      BY <1>1, <1>7, <1>8, <2>3, <3>1, <3>3 DEF Calls
    <3>4. i + 1 < Len(s) \/ i + 1 = Len(s)
      BY ONLY <1>1, <3>1
    <3> QED
      BY <3>2, <3>3, <3>4
  <2> QED
    BY <2>1, <2>2, <2>3
<1>10. FrameInv'
  BY <1>6, <1>9 DEF FrameInv, Calls
<1>11. IsIn(t)' /\ Top(t)' = g
  BY <1>1, <1>4 DEF IsIn, Top, Last
<1> QED
  BY <1>1, <1>2, <1>4, <1>7, <1>8, <1>10, <1>11

\* The game calls a function.
LEMMA Started ==
  ASSUME FrameInv, UNCHANGED suite, NEW t \in Threads, ~IsIn(t), NEW g \in Frames(game),
         frames' = [frames EXCEPT ![t] = Append(@, g)]
  PROVE  /\ FrameInv' /\ IsIn(t)' /\ Top(t)' = g /\ frames' = [frames EXCEPT ![t] = frames'[t]]
         /\ Len(frames'[t]) = 1 /\ frames[t] = <<>>
<1>1. frames' = [frames EXCEPT ![t] = Append(<<>>, g)] /\ frames[t] = <<>>
      /\ frames'[t] = Append(<<>>, g)
  BY DEF IsIn, FrameInv
<1>2. /\ Append(<<>>, g) \in Seq(Frames(game)) /\ Append(<<>>, g) # <<>>
      /\ Len(Append(<<>>, g)) = 1 /\ Append(<<>>, g)[1] = g
  BY ONLY EmptySeq, AppendProperties, g \in Frames(game)
<1>3. Frames(game)' = Frames(game') /\ game' = game
  BY DEF game
<1>4. frames' \in [Threads -> Seq(Frames(game'))]
  BY <1>1, <1>2, <1>3 DEF FrameInv
<1>5. ASSUME NEW u \in Threads, NEW i \in 1..Len(frames'[u]), i < Len(frames'[u])
      PROVE  Calls(frames'[u][i], frames'[u][i + 1])
  BY <1>1, <1>2, <1>5 DEF FrameInv
<1>6. FrameInv'
  BY <1>4, <1>5 DEF FrameInv, Calls
<1> QED
  BY <1>1, <1>2, <1>6 DEF IsIn, Top, Last

LEMMA GotFrame ==
  ASSUME NEW g, NEW f \in Frames(g), NEW r \in Int
  PROVE  [f EXCEPT !.got = r] \in Frames(g)
  BY DEF Frames, FrameTypes, IsRedirected, IsUntouched, IsReal, IsGenerator, IsPlaced, Turn, Rewritten

\* The innermost function returns to the frame below it.
LEMMA Left ==
  ASSUME FrameInv, UNCHANGED suite, NEW t \in Threads, IsIn(t), Leave(t)
  PROVE  /\ FrameInv' /\ frames' = [frames EXCEPT ![t] = frames'[t]]
         /\ Len(frames[t]) = 1 => frames'[t] = <<>> /\ ~IsIn(t)'
         /\ Len(frames[t]) # 1 =>
              /\ IsIn(t)' /\ Len(frames'[t]) = Len(frames[t]) - 1 /\ Len(frames'[t]) \in Nat
              /\ Top(t)' = [frames[t][Len(frames[t]) - 1] EXCEPT !.got = Top(t).ret]
              /\ frames[t][Len(frames[t]) - 1] \in Frames(game)
              /\ Calls(frames[t][Len(frames[t]) - 1], Top(t))
              /\ \A i \in 1..Len(frames'[t]) - 1 : frames'[t][i] = frames[t][i]
<1> DEFINE s == frames[t]
           below == Front(s)
           f == [Last(below) EXCEPT !.got = Top(t).ret]
<1>1. s \in Seq(Frames(game)) /\ s # <<>> /\ Len(s) \in Nat \ {0}
      /\ Top(t) = s[Len(s)] /\ Top(t) \in FrameTypes
  BY TopIsFrame DEF IsIn
<1>2. below \in Seq(Frames(game)) /\ Len(below) = Len(s) - 1
      /\ \A i \in 1..Len(s) - 1 : below[i] = s[i] /\ s[i] \in Frames(game)
  BY <1>1, FrontAndLast
<1>3. game' = game /\ Frames(game)' = Frames(game')
  BY DEF game
<1>4. /\ frames' = [frames EXCEPT ![t] = IF below = <<>> THEN <<>> ELSE Append(Front(below), f)]
      /\ frames'[t] = IF below = <<>> THEN <<>> ELSE Append(Front(below), f)
  BY DEF Leave, FrameInv
<1>5. ASSUME NEW u \in Threads, u # t
      PROVE  frames'[u] = frames[u] /\ frames[u] \in Seq(Frames(game))
             /\ \A i \in 1..Len(frames[u]) :
                  i < Len(frames[u]) => Calls(frames[u][i], frames[u][i + 1])
  BY <1>4, <1>5 DEF FrameInv
<1>6. CASE Len(s) = 1
  <2>1. below = <<>>
    BY <1>2, <1>6, EmptySeq
  <2>2. frames' = [frames EXCEPT ![t] = <<>>] /\ frames'[t] = <<>>
    BY <1>4, <2>1
  <2>3. FrameInv'
    BY <1>3, <1>5, <2>2, EmptySeq DEF FrameInv, Calls
  <2> QED
    BY <1>6, <2>2, <2>3 DEF IsIn
<1>7. CASE Len(s) # 1
  <2>1. below # <<>> /\ Len(s) - 1 \in 1..Len(s) - 1
    <3>1. Len(below) # 0
      BY <1>1, <1>2, <1>7
    <3>2. below # <<>>
      BY <3>1
    <3>3. 1 <= Len(s) - 1
      <4>1. \A n \in Nat \ {0} : n # 1 => 1 <= n - 1
        OBVIOUS
      <4>2. Len(s) \in Nat \ {0}
        BY <1>1
      <4> QED
        BY ONLY <1>7, <4>1, <4>2
    <3> QED
      BY ONLY <1>1, <3>2, <3>3
  <2>2. Last(below) = s[Len(s) - 1] /\ s[Len(s) - 1] \in Frames(game)
    BY <1>2, <2>1 DEF Last
  <2>3. f \in Frames(game)
    <3>1. Top(t).ret \in Int
      BY <1>1 DEF FrameTypes
    <3> QED
      BY <2>2, <3>1, GotFrame
  <2>4. frames' = [frames EXCEPT ![t] = Append(Front(below), f)]
        /\ frames'[t] = Append(Front(below), f)
    BY <1>4, <2>1
  <2>5. /\ frames'[t] \in Seq(Frames(game)) /\ frames'[t] # <<>>
        /\ Len(frames'[t]) = Len(s) - 1 /\ frames'[t][Len(s) - 1] = f
        /\ \A i \in 1..Len(s) - 2 : frames'[t][i] = s[i]
    <3> HIDE DEF f
    <3>1. /\ Append(Front(below), f) \in Seq(Frames(game)) /\ Append(Front(below), f) # <<>>
          /\ Len(Append(Front(below), f)) = Len(below)
          /\ \A i \in 1..Len(below) - 1 : Append(Front(below), f)[i] = below[i]
          /\ Append(Front(below), f)[Len(below)] = f
      <4> DEFINE S == Frames(game)
      <4>1. below \in Seq(S) /\ f \in S /\ below # <<>>
        BY ONLY <1>2, <2>1, <2>3
      <4> HIDE DEF below, S
      <4>2. /\ Append(Front(below), f) \in Seq(S) /\ Append(Front(below), f) # <<>>
            /\ Len(Append(Front(below), f)) = Len(below)
            /\ \A i \in 1..Len(below) - 1 : Append(Front(below), f)[i] = below[i]
            /\ Append(Front(below), f)[Len(below)] = f
        BY ONLY <4>1, FrontAppend
      <4> QED
        BY ONLY <4>2 DEF S
    <3>2. Len(below) - 1 = Len(s) - 2 /\ \A i \in 1..Len(s) - 2 : i \in 1..Len(s) - 1
      BY <1>1, <1>2
    <3> QED
      BY ONLY <1>2, <2>4, <3>1, <3>2
  <2>6. frames' \in [Threads -> Seq(Frames(game'))]
    BY <1>3, <1>5, <2>4, <2>5 DEF FrameInv
  <2>7. \A i \in 1..Len(s) : i < Len(s) => Calls(s[i], s[i + 1])
    BY DEF FrameInv
  <2>8. ASSUME NEW u \in Threads, NEW i \in 1..Len(frames'[u]), i < Len(frames'[u])
        PROVE  Calls(frames'[u][i], frames'[u][i + 1])
    <3>1. CASE u # t
      BY <1>5, <2>8, <3>1
    <3>2. CASE u = t
      <4>1. i \in 1..Len(s) - 2 /\ i \in 1..Len(s) /\ i < Len(s)
        BY <1>1, <2>5, <2>8, <3>2
      <4>2. Calls(s[i], s[i + 1]) /\ frames'[t][i] = s[i]
        BY ONLY <2>5, <2>7, <4>1
      <4>3. CASE i + 1 = Len(s) - 1
        <5>1. f.fn = s[Len(s) - 1].fn
          BY <2>2 DEF Frames, FrameTypes
        <5> QED
          BY ONLY <2>5, <3>2, <4>2, <4>3, <5>1 DEF Calls
      <4>4. CASE i + 1 \in 1..Len(s) - 2
        BY ONLY <2>5, <3>2, <4>2, <4>4
      <4>5. i + 1 = Len(s) - 1 \/ i + 1 \in 1..Len(s) - 2
        BY ONLY <1>1, <4>1
      <4> QED
        BY <4>3, <4>4, <4>5
    <3> QED
      BY <3>1, <3>2
  <2>9. FrameInv'
    BY <2>6, <2>8 DEF FrameInv, Calls
  <2>10. Calls(s[Len(s) - 1], Top(t))
    <3>1. Len(s) - 1 \in 1..Len(s) /\ Len(s) - 1 < Len(s) /\ Len(s) - 1 + 1 = Len(s)
      BY <1>1, <2>1
    <3> QED
      BY ONLY <1>1, <2>7, <3>1
  <2>11. IsIn(t)' /\ Top(t)' = f
    BY <2>5, <1>1 DEF IsIn, Top, Last
  <2>12. \A i \in 1..Len(frames'[t]) - 1 : frames'[t][i] = s[i]
    BY <1>1, <2>5
  <2>13. f = [s[Len(s) - 1] EXCEPT !.got = Top(t).ret]
    BY <2>2
  <2>14. Len(frames'[t]) \in Nat
    BY <1>1, <2>1, <2>5
  <2> QED
    BY <1>7, <2>2, <2>4, <2>5, <2>9, <2>10, <2>11, <2>12, <2>13, <2>14
<1> QED
  BY <1>6, <1>7

-----------------------------------------------------------------------------
(* The handlers of the games, and what a frame becomes as they pass it on,    *)
(* answer it or give it to the real function.                                 *)

Games == DOMAIN file_handlers
Fns == DOMAIN hooked

LEMMA GamesListed == Games = {"x2", "zero", "nx", "nx2", "nxa", "pri"} /\ DOMAIN io_handlers = Games
  BY DEF Games, file_handlers, io_handlers

IsList(list, k) ==
  /\ Len(list) \in Nat /\ DOMAIN list = 1..Len(list) /\ k \in 1..Len(list)
  /\ \A i \in 1..Len(list) :
       /\ list[i] = "redir" <=> i = k
       /\ i < k => list[i] \in {"open_mon", "mon"}
       /\ list[i] \notin {"real", "none"}

LEMMA FileLists == ASSUME NEW g \in Games PROVE IsList(file_handlers[g], RedirAt(g))
<1>1. CASE g = "x2"
  BY <1>1 DEF IsList, file_handlers, RedirAt
<1>2. CASE g = "zero"
  BY <1>2 DEF IsList, file_handlers, RedirAt
<1>3. CASE g = "nx"
  BY <1>3 DEF IsList, file_handlers, RedirAt
<1>4. CASE g = "nx2"
  BY <1>4 DEF IsList, file_handlers, RedirAt
<1>6. CASE g = "nxa"
  BY <1>6 DEF IsList, file_handlers, RedirAt
<1>5. CASE g = "pri"
  BY <1>5 DEF IsList, file_handlers, RedirAt
<1> QED
  BY <1>1, <1>2, <1>3, <1>4, <1>5, <1>6, GamesListed
LEMMA IoLists == ASSUME NEW g \in Games PROVE IsList(io_handlers[g], RedirAt(g))
<1>1. CASE g = "x2"
  BY <1>1 DEF IsList, io_handlers, RedirAt
<1>2. CASE g = "zero"
  BY <1>2 DEF IsList, io_handlers, RedirAt
<1>3. CASE g = "nx"
  BY <1>3 DEF IsList, io_handlers, RedirAt
<1>4. CASE g = "nx2"
  BY <1>4 DEF IsList, io_handlers, RedirAt
<1>6. CASE g = "nxa"
  BY <1>6 DEF IsList, io_handlers, RedirAt
<1>5. CASE g = "pri"
  BY <1>5 DEF IsList, io_handlers, RedirAt
<1> QED
  BY <1>1, <1>2, <1>3, <1>4, <1>5, <1>6, GamesListed
LEMMA FsLists == ASSUME NEW g \in Games PROVE IsList(fs_handlers[g], RedirAt(g))
<1>1. CASE g = "x2"
  BY <1>1 DEF IsList, fs_handlers, RedirAt, io_handlers
<1>2. CASE g = "zero"
  BY <1>2 DEF IsList, fs_handlers, RedirAt, io_handlers
<1>3. CASE g = "nx"
  BY <1>3 DEF IsList, fs_handlers, RedirAt, io_handlers
<1>4. CASE g = "nx2"
  BY <1>4 DEF IsList, fs_handlers, RedirAt, io_handlers
<1>6. CASE g = "nxa"
  BY <1>6 DEF IsList, fs_handlers, RedirAt, io_handlers
<1>5. CASE g = "pri"
  BY <1>5 DEF IsList, fs_handlers, RedirAt, io_handlers
<1> QED
  BY <1>1, <1>2, <1>3, <1>4, <1>5, <1>6, GamesListed

\* What the proofs need of the table of wrappers.
LEMMA HookedTable ==
  ASSUME NEW fn \in Fns
  PROVE  LET w == hooked[fn]
         IN /\ w.chain \in {"file", "io", "fs"} /\ w.bad \in {0, -1}
            /\ w.chain = "file" /\ w.op = "OPEN" <=> fn = "fopen"
            /\ w.chain = "io" /\ w.op = "OPEN" <=> fn = "open"
            /\ w.chain = "file" /\ w.op = "CLOSE" <=> fn = "fclose"
            /\ w.chain = "io" /\ w.op = "CLOSE" <=> fn = "close"
            /\ w.op \in {"OPEN", "CLOSE"} => w.chain # "fs"
            /\ w.op = "EOF" <=> fn = "feof"
BY DEF Fns, hooked, F, fopen, fclose, fread, fwrite, fgets, fseek, rewind, ftell, feof, open,
       fdopen, close, read, write, lseek, ioctl, opendir, __lxstat, __xstat, rename, remove, access

LEMMA HandlerLists ==
  ASSUME NEW g \in Games, NEW fn \in Fns PROVE IsList(HandlersOf(g, fn), RedirAt(g))
<1>1. hooked[fn].chain \in {"file", "io", "fs"}
  BY DEF Fns, hooked, F, fopen, fclose, fread, fwrite, fgets, fseek, rewind, ftell, feof, open,
         fdopen, close, read, write, lseek, ioctl, opendir, __lxstat, __xstat, rename, remove, access
<1> QED
  BY <1>1, FileLists, IoLists, FsLists DEF HandlersOf

AtReal(g, f) == f.going = "down" /\ f.next_handler > Len(HandlersOf(g, f.fn))

LEMMA GameIsGame == SuiteInv => game \in Games
  BY SuitesAreCalls DEF SuiteInv, game, Games

LEMMA HasTurn ==
  ASSUME SuiteInv, FrameInv, NEW t \in Threads, NEW name, Has(t, name), name # "none"
  PROVE  /\ IsIn(t) /\ Top(t) \in Frames(game) /\ Top(t).going = "down"
         /\ name # "real" => Turn(game, Top(t), name)
         /\ name = "real" => AtReal(game, Top(t))
<1>1. IsIn(t) /\ Top(t) \in Frames(game) /\ Top(t) \in FrameTypes /\ game \in Games
  BY TopIsFrame, GameIsGame DEF Has
<1>2. Top(t).fn \in Fns /\ Top(t).next_handler \in Nat \ {0}
  BY <1>1 DEF FrameTypes, Fns
<1>3. IsList(HandlersOf(game, Top(t).fn), RedirAt(game))
  BY <1>1, <1>2, HandlerLists
<1>4. handlers(Chain(t)) = HandlersOf(game, Top(t).fn)
  BY DEF handlers, HandlersOf, Chain
<1> QED
  BY <1>1, <1>2, <1>3, <1>4 DEF Has, Handler, Turn, AtReal, IsList

\* Where the handlers are that have a latch or a generator.
LEMMA UnlockIsFile ==
  ASSUME NEW g \in Games, NEW f, f.fn \in Fns, Turn(g, f, "unlock")
  PROVE  hooked[f.fn].chain = "file"
<1>1. hooked[f.fn].chain \in {"file", "io", "fs"}
  BY HookedTable
<1>2. IsList(io_handlers[g], RedirAt(g)) /\ IsList(fs_handlers[g], RedirAt(g))
  BY IoLists, FsLists
<1>3. \A k \in 1..Len(io_handlers[g]) : io_handlers[g][k] # "unlock"
  <2>1. CASE g = "x2"
    BY <2>1 DEF io_handlers
  <2>2. CASE g = "zero"
    BY <2>2 DEF io_handlers
  <2>3. CASE g = "nx"
    BY <2>3 DEF io_handlers
  <2>4. CASE g = "nx2"
    BY <2>4 DEF io_handlers
  <2>5. CASE g = "nxa"
    BY <2>5 DEF io_handlers
  <2>6. CASE g = "pri"
    BY <2>6 DEF io_handlers
  <2> QED
    BY <2>1, <2>2, <2>3, <2>4, <2>5, <2>6, GamesListed
<1>4. \A k \in 1..Len(fs_handlers[g]) : fs_handlers[g][k] # "unlock"
  BY <1>2, GamesListed DEF fs_handlers, io_handlers
<1> QED
  BY <1>1, <1>3, <1>4 DEF Turn, HandlersOf

LEMMA ShortSeqs ==
  ASSUME NEW S, NEW a \in S, NEW b \in S
  PROVE  <<>> \in Seq(S) /\ <<a>> \in Seq(S) /\ <<a, b>> \in Seq(S)
<1>1. \A n \in Nat : \A s \in [1..n -> S] : s \in Seq(S)
  OBVIOUS
<1>2. <<a>> \in [1..1 -> S] /\ <<a, b>> \in [1..2 -> S]
  OBVIOUS
<1> QED
  BY <1>1, <1>2, EmptySeq

LEMMA RedirTyped ==
  ASSUME NEW p \in Paths PROVE cnh_redir_check(p) \in Paths
<1> DEFINE fits == {i \in DOMAIN hook_fs_redirs : IsPrefix(hook_fs_redirs[i].src, p)}
           first == CHOOSE i \in fits : \A k \in fits : i <= k
           r == hook_fs_redirs[first]
<1>1. CASE fits = {}
  BY <1>1 DEF cnh_redir_check
<1>2. CASE fits # {}
  <2>1. fits \subseteq 1..3
    BY DEF hook_fs_redirs
  <2>2. \E i \in fits : \A k \in fits : i <= k
    <3>1. CASE 1 \in fits
      BY <2>1, <3>1
    <3>2. CASE 1 \notin fits /\ 2 \in fits
      BY <2>1, <3>2
    <3>3. CASE 1 \notin fits /\ 2 \notin fits
      BY <1>2, <2>1, <3>3
    <3> QED
      BY <3>1, <3>2, <3>3
  <2>3. first \in 1..3
    <3> HIDE DEF fits
    <3> QED
      BY <2>1, <2>2
  <2>4. r.dest \in Paths /\ Len(r.src) \in Nat
    <3> HIDE DEF first
    <3>1. CASE first = 1
      <4>1. <<"/game/save">> \in Paths
        BY ShortSeqs DEF Paths, Parts
      <4>2. r.dest = <<"/game/save">> /\ r.src = <<"/SETTINGS">>
        BY <3>1 DEF hook_fs_redirs
      <4> QED
        BY <4>1, <4>2
    <3>2. CASE first = 2
      <4>1. <<"/game/", "SCRIPT">> \in Paths
        BY ShortSeqs DEF Paths, Parts
      <4>2. r.dest = <<"/game/", "SCRIPT">> /\ r.src = <<"/SCRIPT">>
        BY <3>2 DEF hook_fs_redirs
      <4> QED
        BY <4>1, <4>2
    <3>3. CASE first = 3
      <4>1. <<"/sys/kernel/debug/usb/devices">> \in Paths
        BY ShortSeqs DEF Paths, Parts
      <4>2. r.dest = <<"/sys/kernel/debug/usb/devices">> /\ r.src = <<"/proc/bus/usb/devices">>
        BY <3>3 DEF hook_fs_redirs
      <4> QED
        BY <4>1, <4>2
    <3> QED
      BY <2>3, <3>1, <3>2, <3>3
  <2>5. SubSeq(p, Len(r.src) + 1, Len(p)) \in Paths
    <3>1. Len(p) \in Nat /\ \A i \in 1..Len(p) : p[i] \in Parts
      BY ElementOfSeq, LenProperties DEF Paths
    <3> HIDE DEF r
    <3>2. \A i \in Len(r.src) + 1..Len(p) : p[i] \in Parts
      BY <2>4, <3>1
    <3>3. Len(r.src) + 1 \in Int /\ Len(p) \in Int
      BY <2>4, <3>1
    <3> QED
      BY <3>2, <3>3, SubSeqProperties DEF Paths
  <2>6. r.dest \o SubSeq(p, Len(r.src) + 1, Len(p)) \in Paths
    <3> HIDE DEF r
    <3> QED
      BY <2>4, <2>5, ConcatProperties DEF Paths
  <2> QED
    BY <1>2, <2>6 DEF cnh_redir_check
<1> QED
  BY <1>1, <1>2

LEMMA FrameParts ==
  ASSUME NEW g, NEW f \in Frames(g)
  PROVE  /\ f.irp \in Requests /\ f.fn \in Fns /\ f.next_handler \in Nat \ {0}
         /\ f.result \in Results /\ f.errn \in Errors /\ f.ret \in Int /\ f.got \in Int
         /\ f.held \in Int /\ f.real \in Int
  BY DEF Frames, FrameTypes, Fns

\* The handler of profiles is the fourth in its lists, that of redirections the
\* one of its index.
LEMMA TurnIsAt ==
  ASSUME NEW g \in Games, NEW f \in Frames(g), NEW name, Turn(g, f, name)
  PROVE  /\ name = "redir" <=> f.next_handler = RedirAt(g)
         /\ name # "gen" => f.pc \notin GenPcs
         /\ RedirAt(g) \in Nat
<1>1. f.fn \in Fns
  BY FrameParts
<1>2. IsList(HandlersOf(g, f.fn), RedirAt(g))
  BY <1>1, HandlerLists
<1>3. name = "redir" <=> f.next_handler = RedirAt(g)
  BY <1>2 DEF IsList, Turn
<1>4. ASSUME f.pc \in GenPcs PROVE name = "gen"
  <2>1. g \in {"nx2", "nxa"} /\ f.fn = "fopen" /\ f.next_handler = 4
    BY <1>4 DEF Frames, IsGenerator
  <2>2. hooked["fopen"].chain = "file"
    BY DEF hooked, fopen, F
  <2>3. file_handlers["nx2"][4] = "gen" /\ file_handlers["nxa"][4] = "gen"
    BY DEF file_handlers
  <2> QED
    BY <2>1, <2>2, <2>3 DEF Turn, HandlersOf
<1> QED
  BY <1>3, <1>4 DEF RedirAt

Passed(f, irp) == [f EXCEPT !.next_handler = @ + 1, !.irp = irp, !.pc = "in"]
Waits(f, name) == [f EXCEPT !.next_handler = @ + 1, !.waiting = Append(@, name)]

LEMMA PassFrame ==
  ASSUME NEW g \in Games, NEW f \in Frames(g), NEW name, Turn(g, f, name),
         name # "redir", name = "dog34" => f.pc = "in"
  PROVE  /\ Passed(f, f.irp) \in Frames(g)
         /\ name = "unlock" /\ hooked[f.fn].chain = "file" => Waits(f, "unlock") \in Frames(g)
<1> DEFINE p == [f EXCEPT !.next_handler = @ + 1, !.irp = f.irp, !.pc = "in"]
           w == [f EXCEPT !.next_handler = @ + 1, !.waiting = Append(@, "unlock")]
<1>1. f.next_handler # RedirAt(g) /\ RedirAt(g) \in Nat /\ f.next_handler \in Nat
      /\ (name # "gen" => f.pc \notin GenPcs)
  BY TurnIsAt, FrameParts
<1>2. f.next_handler > RedirAt(g) <=> f.next_handler + 1 > RedirAt(g)
  BY ONLY <1>1
<1>3. f \in FrameTypes /\ IsRedirected(g, f) /\ IsUntouched(f) /\ IsReal(f) /\ IsGenerator(g, f)
      /\ IsPlaced(g, f) /\ f.going = "down"
  BY DEF Frames, Turn
<1>4. p \in FrameTypes /\ IsUntouched(p) /\ IsReal(p)
  <2>1. p \in FrameTypes
    <3>1. f.next_handler + 1 \in Nat \ {0} /\ f.irp \in Requests
      BY <1>1, FrameParts
    <3> QED
      BY <1>3, <3>1 DEF FrameTypes
  <2>2. IsUntouched(p)
    BY <1>3 DEF FrameTypes, IsUntouched
  <2>3. IsReal(p)
    BY <1>3 DEF FrameTypes, IsReal
  <2> QED
    BY <2>1, <2>2, <2>3
<1>5. IsRedirected(g, p)
  BY <1>2, <1>3 DEF FrameTypes, IsRedirected, Rewritten
<1>6. IsGenerator(g, p) /\ IsPlaced(g, p)
  BY <1>3 DEF FrameTypes, IsGenerator, IsPlaced, GenPcs
<1>7. ASSUME name = "unlock", hooked[f.fn].chain = "file" PROVE w \in Frames(g)
  <2>1. Append(f.waiting, "unlock") \in Seq({"unlock"})
    BY <1>3, AppendProperties DEF FrameTypes
  <2>2. w \in FrameTypes /\ IsUntouched(w) /\ IsReal(w)
    <3>1. w \in FrameTypes
      <4>1. f.next_handler + 1 \in Nat \ {0}
        BY <1>1
      <4> QED
        BY <1>3, <2>1, <4>1 DEF FrameTypes
    <3>2. IsUntouched(w)
      BY <1>3 DEF FrameTypes, IsUntouched
    <3>3. IsReal(w)
      BY <1>3 DEF FrameTypes, IsReal
    <3> QED
      BY <3>1, <3>2, <3>3
  <2>3. IsRedirected(g, w)
    BY <1>2, <1>3, <2>1 DEF FrameTypes, IsRedirected, Rewritten
  <2>4. f.pc \notin GenPcs \cup {"closed"}
    BY <1>1, <1>3, <1>7 DEF IsPlaced, Turn
  <2>5. IsGenerator(g, w) /\ IsPlaced(g, w)
    BY <1>3, <1>7, <2>4 DEF FrameTypes, IsGenerator, IsPlaced, GenPcs
  <2> QED
    BY <2>2, <2>3, <2>5 DEF Frames
<1> QED
  BY <1>4, <1>5, <1>6, <1>7 DEF Frames, Passed, Waits

LEMMA RedirFrame ==
  ASSUME NEW g \in Games, NEW f \in Frames(g), Turn(g, f, "redir")
  PROVE  Passed(f, redirected(hooked[f.fn].op, f.irp)) \in Frames(g)
<1> DEFINE p == [f EXCEPT !.next_handler = @ + 1, !.irp = redirected(hooked[f.fn].op, f.irp),
                          !.pc = "in"]
<1>1. f.next_handler = RedirAt(g) /\ RedirAt(g) \in Nat
  BY TurnIsAt
<1>2. /\ cnh_redir_check(f.irp.path) \in Paths
      /\ cnh_redir_check(f.irp.to) \in Paths
  BY RedirTyped, FrameParts DEF Requests, Paths
<1>3. f \in FrameTypes /\ IsRedirected(g, f) /\ IsUntouched(f) /\ IsReal(f) /\ IsGenerator(g, f)
      /\ IsPlaced(g, f) /\ f.going = "down" /\ f.irp \in Requests
  BY FrameParts DEF Frames, Turn
<1>4. p \in FrameTypes /\ IsRedirected(g, p) /\ IsUntouched(p)
  <2>1. redirected(hooked[f.fn].op, f.irp) \in Requests
    BY <1>2, <1>3 DEF Requests, redirected
  <2>2. p \in FrameTypes
    <3>1. f.next_handler + 1 \in Nat \ {0}
      BY <1>1
    <3> HIDE DEF redirected
    <3> QED
      BY <1>3, <2>1, <3>1 DEF FrameTypes
  <2>3. IsRedirected(g, p)
    BY <1>1, <1>3 DEF FrameTypes, Requests, IsRedirected, Rewritten, redirected
  <2>4. IsUntouched(p)
    BY <1>3 DEF FrameTypes, Requests, IsUntouched, redirected, SeeksInside
  <2> QED
    BY <2>2, <2>3, <2>4
<1>5. IsReal(p)
  BY <1>3 DEF FrameTypes, IsReal
<1>6. IsGenerator(g, p) /\ IsPlaced(g, p)
  BY <1>3 DEF FrameTypes, IsGenerator, IsPlaced, GenPcs
<1> QED
  BY <1>4, <1>5, <1>6 DEF Frames, Passed

\* A handler or the real function has answered.
Same(irp, f) == irp.path = f.irp.path /\ irp.to = f.irp.to /\ irp.mode = f.irp.mode

LEMMA UpFrame ==
  ASSUME NEW g \in Games, NEW f \in Frames(g), f.going = "down", f.pc \notin GenPcs,
         NEW u \in FrameTypes, u.going = "up", u.fn = f.fn, u.asked = f.asked, u.pc = f.pc,
         u.next_handler = f.next_handler, u.waiting = f.waiting, Same(u.irp, f), IsReal(u)
  PROVE  u \in Frames(g)
<1>1. IsRedirected(g, f) /\ IsPlaced(g, f)
  BY DEF Frames
<1>2. IsUntouched(u) /\ IsGenerator(g, u)
  BY DEF IsUntouched, IsGenerator, GenPcs
<1>3. IsRedirected(g, u)
  BY <1>1 DEF IsRedirected, Rewritten, Same
<1>4. IsPlaced(g, u)
  BY <1>1 DEF IsPlaced
<1> QED
  BY <1>2, <1>3, <1>4 DEF Frames

Claimed(f, result, irp) == 
  [f EXCEPT !.going = "up", !.claimed = TRUE, !.result = result, !.irp = irp]

LEMMA ClaimFrame ==
  ASSUME NEW g \in Games, NEW f \in Frames(g), NEW name, Turn(g, f, name), name # "gen",
         NEW result \in Results, NEW irp \in Requests, Same(irp, f)
  PROVE  Claimed(f, result, irp) \in Frames(g)
<1> DEFINE u == [f EXCEPT !.going = "up", !.claimed = TRUE, !.result = result, !.irp = irp]
<1>1. f.pc \notin GenPcs /\ f.going = "down" /\ f \in FrameTypes
  BY TurnIsAt DEF Turn, Frames
<1>2. u \in FrameTypes
  BY <1>1 DEF FrameTypes
<1>3. /\ u.going = "up" /\ u.fn = f.fn /\ u.asked = f.asked /\ u.pc = f.pc
      /\ u.next_handler = f.next_handler /\ u.waiting = f.waiting /\ u.irp = irp /\ u.claimed
  BY <1>1 DEF FrameTypes
<1> HIDE DEF u
<1>4. IsReal(u)
  BY <1>3 DEF IsReal
<1>5. u \in Frames(g)
  BY <1>1, <1>2, <1>3, <1>4, UpFrame DEF Same
<1> QED
  BY <1>5 DEF u, Claimed

\* Behind the last handler.
LEMMA BehindHandlers ==
  ASSUME NEW g \in Games, NEW f \in Frames(g), AtReal(g, f)
  PROVE  f.pc = "in"
<1>1. f.fn \in Fns /\ f.next_handler \in Nat \ {0}
  BY FrameParts
<1>2. IsList(HandlersOf(g, f.fn), RedirAt(g))
  BY <1>1, HandlerLists
<1>3. f.pc # "closed"
  BY <1>1, <1>2 DEF Frames, IsPlaced, Turn, AtReal, IsList
<1>4. ASSUME f.pc \in GenPcs PROVE FALSE
  <2>1. g \in {"nx2", "nxa"} /\ f.fn = "fopen" /\ f.next_handler = 4
    BY <1>4 DEF Frames, IsGenerator
  <2>2. hooked["fopen"].chain = "file"
    BY DEF hooked, fopen, F
  <2>3. Len(file_handlers["nx2"]) = 4 /\ Len(file_handlers["nxa"]) = 4
    BY DEF file_handlers
  <2>4. HandlersOf(g, f.fn) = file_handlers[g]
    BY <2>1, <2>2 DEF HandlersOf
  <2> QED
    BY <2>1, <2>3, <2>4, ~(4 > 4) DEF AtReal
<1> QED
  BY <1>3, <1>4 DEF Frames, FrameTypes

LEMMA ErrorsHaveResults ==
  ASSUME NEW e, e # OK
  PROVE  /\ cnh_errno_to_result(e) \in Results /\ cnh_errno_to_result(e) # SUCCESS
         /\ cnh_result_to_errno(cnh_errno_to_result(e)) =
              IF e \in DOMAIN known THEN e ELSE "EIO"
<1>1. \A a, b \in DOMAIN known : known[a] = known[b] => a = b
  BY DEF known
<1>2. \A a \in DOMAIN known : known[a] # "SUCCESS" /\ known[a] # "OTHER_ERROR"
  BY DEF known
<1> HIDE DEF known
<1>3. CASE e \in DOMAIN known
  <2>1. cnh_errno_to_result(e) = known[e] /\ known[e] \in Range(known)
    BY <1>3 DEF cnh_errno_to_result, Range
  <2>2. AntiFunction(known)[known[e]] = e
    <3>1. AntiFunction(known)[known[e]] =
            CHOOSE d \in DOMAIN known : known[e] \in Range(known) => known[d] = known[e]
      BY <2>1 DEF AntiFunction, Inverse
    <3> DEFINE Is(d) == d \in DOMAIN known /\ (known[e] \in Range(known) => known[d] = known[e])
    <3>2. Is(e)
      BY <1>3
    <3>3. Is(CHOOSE d : Is(d))
      <4> HIDE DEF Is
      <4> QED
        BY <3>2
    <3>4. AntiFunction(known)[known[e]] = CHOOSE d : Is(d)
      BY <3>1
    <3> QED
      BY <1>1, <1>3, <2>1, <3>3, <3>4
  <2> QED
    BY <1>2, <1>3, <2>1, <2>2 DEF cnh_result_to_errno, SUCCESS, Results
<1>4. CASE e \notin DOMAIN known
  <2>1. "OTHER_ERROR" \notin Range(known)
    BY <1>2 DEF Range
  <2>2. cnh_errno_to_result(e) = "OTHER_ERROR"
    BY <1>4 DEF cnh_errno_to_result
  <2> QED
    BY <1>4, <2>1, <2>2 DEF cnh_result_to_errno, SUCCESS, Results
<1> QED
  BY <1>3, <1>4

LEMMA ResultsHaveErrors ==
  ASSUME NEW result PROVE cnh_result_to_errno(result) \in {OK, "EIO"} \cup DOMAIN known
<1> HIDE DEF known
<1>1. ASSUME result \in Range(known) PROVE AntiFunction(known)[result] \in DOMAIN known
  <2>1. PICK d \in DOMAIN known : known[d] = result
    BY <1>1 DEF Range
  <2>2. AntiFunction(known)[result] =
          CHOOSE c \in DOMAIN known : result \in Range(known) => known[c] = result
    BY <1>1 DEF AntiFunction, Inverse
  <2> QED
    BY <2>1, <2>2
<1> QED
  BY <1>1 DEF cnh_result_to_errno

Returned(f, real, irp) == [f EXCEPT !.going = "up", !.real = real, !.irp = irp]

LEMMA ReturnFrame ==
  ASSUME NEW g \in Games, NEW f \in Frames(g), AtReal(g, f), NEW real \in Int,
         NEW irp \in Requests, Same(irp, f), real = Given(hooked[f.fn].good, irp)
  PROVE  Returned(f, real, irp) \in Frames(g)
<1> DEFINE u == [f EXCEPT !.going = "up", !.real = real, !.irp = irp]
<1>1. f.pc \notin GenPcs /\ f.going = "down" /\ f \in FrameTypes /\ IsUntouched(f)
  BY BehindHandlers DEF AtReal, Frames, GenPcs
<1>2. u \in FrameTypes
  BY <1>1 DEF FrameTypes
<1>3. /\ u.going = "up" /\ u.fn = f.fn /\ u.asked = f.asked /\ u.pc = f.pc
      /\ u.next_handler = f.next_handler /\ u.waiting = f.waiting /\ u.irp = irp /\ u.real = real
      /\ u.result = f.result /\ u.errn = f.errn
  BY <1>1 DEF FrameTypes
<1> HIDE DEF u
<1>4. IsReal(u)
  BY <1>1, <1>3 DEF IsReal, IsUntouched
<1>5. u \in Frames(g)
  BY <1>1, <1>2, <1>3, <1>4, UpFrame DEF Same
<1> QED
  BY <1>5 DEF u, Returned

Failed(f, real, e) == 
  [f EXCEPT !.going = "up", !.result = cnh_errno_to_result(e), !.errn = e, !.real = real]

LEMMA FailFrame ==
  ASSUME NEW g \in Games, NEW f \in Frames(g), AtReal(g, f), f.fn # "feof",
         NEW e \in Errors, e # OK
  PROVE  Failed(f, hooked[f.fn].bad, e) \in Frames(g)
<1> DEFINE u == [f EXCEPT !.going = "up", !.result = cnh_errno_to_result(e), !.errn = e,
                          !.real = hooked[f.fn].bad]
<1>1. f.pc \notin GenPcs /\ f.going = "down" /\ f \in FrameTypes
  BY BehindHandlers DEF AtReal, Frames, GenPcs
<1>2. cnh_errno_to_result(e) \in Results /\ hooked[f.fn].bad \in Int
  BY ErrorsHaveResults, FrameParts, HookedTable
<1>3. u \in FrameTypes
  <2> HIDE DEF hooked
  <2> QED
    BY <1>1, <1>2 DEF FrameTypes
<1>4. /\ u.going = "up" /\ u.fn = f.fn /\ u.asked = f.asked /\ u.pc = f.pc
      /\ u.next_handler = f.next_handler /\ u.waiting = f.waiting /\ u.irp = f.irp
      /\ u.real = hooked[f.fn].bad /\ u.result = cnh_errno_to_result(e) /\ u.errn = e
  BY <1>1 DEF FrameTypes
<1> HIDE DEF u
<1>5. IsReal(u)
  BY <1>4 DEF IsReal
<1>6. u \in Frames(g)
  BY <1>1, <1>3, <1>4, <1>5, UpFrame DEF Same
<1> QED
  BY <1>6 DEF u, Failed

\* The wrapper has the result.
Finished(f, ret) == [f EXCEPT !.going = "done", !.ret = ret]

LEMMA DoneFrame ==
  ASSUME NEW g \in Games, NEW f \in Frames(g), f.going = "up", NEW ret \in Int
  PROVE  Finished(f, ret) \in Frames(g)
<1> DEFINE u == [f EXCEPT !.going = "done", !.ret = ret]
<1>1. f \in FrameTypes /\ IsRedirected(g, f) /\ IsGenerator(g, f) /\ IsPlaced(g, f)
  BY DEF Frames
<1>2. u \in FrameTypes
  BY <1>1 DEF FrameTypes
<1>3. /\ u.going = "done" /\ u.fn = f.fn /\ u.asked = f.asked /\ u.pc = f.pc
      /\ u.next_handler = f.next_handler /\ u.waiting = f.waiting /\ u.irp = f.irp
  BY <1>1 DEF FrameTypes
<1> HIDE DEF u
<1>4. IsUntouched(u) /\ IsReal(u) /\ IsGenerator(g, u)
  BY <1>1, <1>3 DEF IsUntouched, IsReal, IsGenerator
<1>5. IsRedirected(g, u)
  BY <1>1, <1>3 DEF IsRedirected, Rewritten
<1>6. IsPlaced(g, u)
  BY <1>1, <1>3 DEF IsPlaced
<1> QED
  BY <1>2, <1>4, <1>5, <1>6 DEF Frames, u, Finished

\* A handler that waited has seen the result.
Seen(f) == [f EXCEPT !.waiting = Front(@)]

LEMMA SeenFrame ==
  ASSUME NEW g \in Games, NEW f \in Frames(g), f.going = "up", f.waiting # <<>>
  PROVE  Seen(f) \in Frames(g)
<1> DEFINE u == [f EXCEPT !.waiting = Front(@)]
<1>1. f \in FrameTypes /\ IsRedirected(g, f) /\ IsGenerator(g, f) /\ IsPlaced(g, f) /\ IsReal(f)
  BY DEF Frames
<1>2. f.waiting \in Seq({"unlock"})
  BY <1>1 DEF FrameTypes
<1>3. Front(f.waiting) \in Seq({"unlock"})
  BY <1>2, FrontAndLast
<1>4. u \in FrameTypes
  BY <1>1, <1>3 DEF FrameTypes
<1>5. /\ u.going = "up" /\ u.fn = f.fn /\ u.asked = f.asked /\ u.pc = f.pc
      /\ u.next_handler = f.next_handler /\ u.irp = f.irp /\ u.claimed = f.claimed
      /\ u.errn = f.errn /\ u.result = f.result /\ u.real = f.real
  BY <1>1 DEF FrameTypes
<1> HIDE DEF u
<1>6. IsUntouched(u) /\ IsReal(u) /\ IsGenerator(g, u)
  BY <1>1, <1>5 DEF IsUntouched, IsReal, IsGenerator, GenPcs
<1>7. IsRedirected(g, u)
  BY <1>1, <1>5 DEF IsRedirected, Rewritten
<1>8. IsPlaced(g, u)
  BY <1>1, <1>5 DEF IsPlaced
<1> QED
  BY <1>4, <1>6, <1>7, <1>8 DEF Frames, u, Seen

\* A call begins.
IsAsked(fn, irp) ==
  /\ fn \in Fns /\ irp \in Requests /\ irp.pos = 0 /\ irp.line = 1
  /\ hooked[fn].op = "SEEK" => SeeksInside(fn, irp)

LEMMA GivenTyped ==
  ASSUME NEW fn \in Fns, NEW irp \in Requests PROVE Given(hooked[fn].good, irp) \in Int
<1>1. irp.pos \div irp.size \in Int
  BY DEF Requests
<1>2. hooked[fn].good \in {"zero", "h", "dir", "items", "line", "off", "eof", "pos", "stream", "nothing"}
  BY DEF Fns, hooked, F, fopen, fclose, fread, fwrite, fgets, fseek, rewind, ftell, feof, open,
         fdopen, close, read, write, lseek, ioctl, opendir, __lxstat, __xstat, rename, remove, access
<1> QED
  BY <1>1, <1>2 DEF Given, Requests

LEMMA IrpsAreRequests == Irps \subseteq Requests
<1>1. \A s \in Seq(STRING) : s \in Paths
  BY DEF Paths, Parts
<1> QED
  BY <1>1 DEF Irps, Requests

Refused(fn, irp) ==
  [Frame(fn, irp) EXCEPT !.going = "done", !.ret = hooked[fn].bad, !.claimed = TRUE]

LEMMA CallFrame ==
  ASSUME NEW g \in Games, NEW fn, NEW irp, IsAsked(fn, irp)
  PROVE  Frame(fn, irp) \in Frames(g) /\ Refused(fn, irp) \in Frames(g)
<1> DEFINE f == Frame(fn, irp)
           u == [f EXCEPT !.going = "done", !.ret = hooked[fn].bad, !.claimed = TRUE]
<1>1. f \in FrameTypes
  <2>1. <<>> \in Seq({"unlock"})
    BY EmptySeq
  <2>2. SUCCESS \in Results /\ OK \in Errors
    BY DEF Results, Errors
  <2> QED
    BY <2>1, <2>2 DEF Frame, FrameTypes, Fns, IsAsked, Requests, Modes
<1>2. /\ f.going = "down" /\ f.fn = fn /\ f.irp = irp /\ f.asked.path = irp.path
      /\ f.asked.to = irp.to /\ f.asked.mode = irp.mode /\ f.pc = "in" /\ f.waiting = <<>>
      /\ ~f.claimed /\ f.result = SUCCESS /\ f.errn = OK /\ f.next_handler = 1
  BY DEF Frame
<1>3. ~(1 > RedirAt(g))
  BY DEF RedirAt
<1> HIDE DEF f
<1>4. u \in FrameTypes
  <2>1. hooked[fn].bad \in Int
    BY HookedTable DEF IsAsked
  <2> HIDE DEF hooked
  <2> QED
    BY <1>1, <2>1 DEF FrameTypes
<1>5. /\ u.going = "done" /\ u.fn = fn /\ u.irp = irp /\ u.asked = f.asked
      /\ u.pc = "in" /\ u.waiting = <<>> /\ u.next_handler = 1
  BY <1>1, <1>2 DEF FrameTypes
<1> HIDE DEF u
<1>6. IsRedirected(g, f) /\ IsRedirected(g, u)
  BY <1>2, <1>3, <1>5 DEF IsRedirected, Rewritten
<1>7. IsUntouched(f) /\ IsUntouched(u)
  BY <1>2, <1>5 DEF IsUntouched, IsAsked
<1>8. IsReal(f) /\ IsReal(u)
  BY <1>2, <1>5 DEF IsReal
<1>9. IsGenerator(g, f) /\ IsGenerator(g, u) /\ IsPlaced(g, f) /\ IsPlaced(g, u)
  BY <1>2, <1>5 DEF IsGenerator, IsPlaced, GenPcs
<1> QED
  BY <1>1, <1>4, <1>6, <1>7, <1>8, <1>9 DEF Frames, f, u, Refused

-----------------------------------------------------------------------------
(* Steps.                                                                     *)

\* A latch after a step of t: it is as it was, as is what it names; or it names
\* what t has just opened; or t is between the two steps of a close.
LatchStep(t, name) ==
  \/ /\ latch'[name] = latch[name] /\ HandlesFor(name)'[latch[name]] = HandlesFor(name)[latch[name]]
     /\ name = "dog" /\ IsIn(t) => ~Frees(Top(t))
  \/ /\ IsIn(t) /\ Listed(name) /\ (name = "dog" => suite.alone)
     /\ IsFor(name, HandlesFor(name)'[latch'[name]])
     /\ HandlesFor(name)[latch'[name]].owner \in {t, "none"}
  \/ name = "dog" /\ latch'[name] = latch[name] /\ IsIn(t)' /\ Frees(Top(t))'
OnlyOwn(t) ==
  \A h \in 1..MaxHandles :
    /\ streams'[h] = streams[h] \/ streams[h].owner \in {t, "none"}
    /\ fds'[h] = fds[h] \/ fds[h].owner \in {t, "none"}

LEMMA OneAlone ==
  ASSUME SuiteInv, \A t \in Threads : IdleAt(t), suite.alone,
         NEW t \in Threads, NEW u \in Threads, IsIn(t), IsIn(u)
  PROVE  t = u
<1>1. IsAlone(suite.of)
  BY DEF SuiteInv
<1>2. PICK w \in Threads : \A x \in Threads \ {w} : Suites[suite.of].calls[x] = {}
  BY <1>1 DEF IsAlone
<1>3. \A x \in Threads \ {w} : ~IsIn(x)
  BY <1>2 DEF IdleAt, IsIn
<1> QED
  BY <1>3

\* Over its write a generator closes nothing.
LEMMA WrittenAbove ==
  ASSUME FrameInv, NEW t \in Threads, IsIn(t), NEW i \in 1..Len(frames[t]),
         frames[t][i].pc = "written", i # Len(frames[t])
  PROVE  Top(t).fn = "fwrite"
<1>1. frames[t] \in Seq(Frames(game)) /\ Len(frames[t]) \in Nat \ {0}
      /\ Top(t) = frames[t][Len(frames[t])]
  BY TopIsFrame
<1>2. i < Len(frames[t]) /\ i + 1 \in 1..Len(frames[t])
  BY <1>1
<1>3. frames[t][i + 1].fn = "fwrite"
  BY <1>2 DEF FrameInv, Calls, CalledAt
<1>4. CASE i + 1 = Len(frames[t])
  BY <1>1, <1>3, <1>4
<1>5. CASE i + 1 < Len(frames[t])
  <2>1. frames[t][i + 1].pc \in GenPcs
    BY <1>2, <1>5 DEF FrameInv, Calls
  <2>2. frames[t][i + 1] \in Frames(game)
    BY <1>1, <1>2, ElementOfSeq
  <2>3. frames[t][i + 1].fn = "fopen"
    BY <2>1, <2>2 DEF Frames, IsGenerator
  <2> QED
    BY <1>3, <2>3
<1> QED
  BY <1>1, <1>2, <1>4, <1>5

LEMMA OthersKeep ==
  ASSUME Inv, NEW t \in Threads, UNCHANGED suite, frames' = [frames EXCEPT ![t] = frames'[t]],
         errno' = [errno EXCEPT ![t] = errno'[t]], OnlyOwn(t),
         latch' = latch \/ IsIn(t), \A name \in LatchNames : latch'[name] # 0 => LatchStep(t, name),
         is_creating_file' = is_creating_file \/ IsIn(t), NEW u \in Threads, u # t
  PROVE  ThreadInv(u)'
<1>1. /\ frames'[u] = frames[u] /\ errno'[u] = errno[u] /\ Top(u)' = Top(u) /\ IsIn(u)' = IsIn(u)
      /\ game' = game
  BY DEF Inv, FrameInv, RestInv, Top, IsIn, game
<1>2. ThreadInv(u) /\ u \notin {t, "none"}
  BY ThreadsOwn DEF Inv
<1>3. \A h : Mine(u, streams, h) => Mine(u, streams', h) /\ streams'[h] = streams[h]
  BY <1>2 DEF OnlyOwn, Mine
<1>4. \A h : Mine(u, fds, h) => Mine(u, fds', h) /\ fds'[h] = fds[h]
  BY <1>2 DEF OnlyOwn, Mine
<1>5. ReturnAt(u)' /\ DogAt(u)' /\ DepthAt(u)' /\ IdleAt(u)'
  BY <1>1, <1>2 DEF ThreadInv, ReturnAt, DogAt, DepthAt, IdleAt
<1>6. HoldsAt(u)'
  <2> SUFFICES ASSUME IsIn(u) PROVE HoldsAt(u)'
    BY <1>1 DEF HoldsAt
  <2>1. HoldsAt(u)
    BY <1>2 DEF ThreadInv
  <2>2. Closes(Top(u)) => Mine(u, HandlesOf(Top(u)), Top(u).irp.h)'
    BY <1>1, <1>3, <1>4, <2>1 DEF HoldsAt, HandlesOf, Mine
  <2>3. Opened_(u, Top(u))'
    BY <1>1, <1>3, <2>1 DEF HoldsAt, Opened_, Mine
  <2>4. Top(u).fn = "fopen" /\ Top(u).going = "done" /\ Top(u).ret # 0 => Mine(u, streams', Top(u).ret)
    BY <1>3, <2>1 DEF HoldsAt
  <2>5. Top(u).pc \in {"older", "created"} /\ Top(u).got # 0 => Mine(u, streams', Top(u).got)
    BY <1>3, <2>1 DEF HoldsAt
  <2>6. \A i \in 1..Len(frames[u]) :
          frames[u][i].pc = "written" => Mine(u, streams', frames[u][i].held)
    BY <1>3, <2>1 DEF HoldsAt
  <2> QED
    BY <1>1, <2>2, <2>3, <2>4, <2>5, <2>6 DEF HoldsAt, Closes, Mine
<1>7. LatchAt(u)'
  <2> SUFFICES ASSUME IsIn(u) PROVE LatchAt(u)'
    BY <1>1 DEF LatchAt
  <2>1. LatchAt(u) /\ HoldsAt(u)
    BY <1>2 DEF ThreadInv
  <2>2. ASSUME Closes(Top(u)), NEW name \in LatchesOf(Top(u)), latch'[name] = Top(u).irp.h
        PROVE  latch[name] = Top(u).irp.h
    <3>1. Mine(u, HandlesOf(Top(u)), Top(u).irp.h)
      BY <2>1, <2>2 DEF HoldsAt
    <3>2. HandlesOf(Top(u)) = HandlesFor(name) /\ name \in LatchNames
      BY <2>2 DEF HandlesOf, HandlesFor, LatchesOf, StreamLatches, FdLatches, LatchNames
    <3>3. latch'[name] # 0 /\ HandlesFor(name)[latch'[name]].owner = u
      BY <2>2, <3>1, <3>2, HandlesAreNumbers DEF Mine
    <3>4. LatchStep(t, name)
      BY <3>2, <3>3
    <3> QED
      BY <1>2, <2>2, <3>3, <3>4 DEF LatchStep
  <2>3. ASSUME Frees(Top(u)) PROVE latch'["dog"] = latch["dog"]
    <3>1. CASE IsIn(t) /\ latch["dog"] # 0
      BY <3>1, OneAlone DEF Inv, LatchOpen, LatchNames, FdLatches, ThreadInv
    <3>2. CASE IsIn(t) /\ latch["dog"] = 0 /\ latch'["dog"] # 0
      <4>1. LatchStep(t, "dog")
        BY <3>2 DEF LatchNames, FdLatches
      <4>2. suite.alone => t = u
        BY <3>2, OneAlone DEF Inv, ThreadInv
      <4> QED
        BY <4>1, <4>2 DEF LatchStep
    <3>3. CASE ~IsIn(t) \/ latch["dog"] = latch'["dog"]
      BY <3>3
    <3> QED
      BY <3>1, <3>2, <3>3
  <2>4. Closes(Top(u)) => \A name \in LatchesOf(Top(u)) :
          latch'[name] = Top(u).irp.h => Ahead(game, Top(u), HandlerOf(name))
    BY <2>1, <2>2 DEF LatchAt
  <2>5. Frees(Top(u)) => latch'["dog"] = Top(u).irp.h
    BY <2>1, <2>3 DEF LatchAt
  <2> QED
    BY <1>1, <2>4, <2>5 DEF LatchAt, Closes, Frees, LatchesOf
<1>8. GenAt(u)'
  <2>1. GenAt(u)
    BY <1>2 DEF ThreadInv
  <2>2. CASE is_creating_file' = is_creating_file
    BY <1>1, <2>1, <2>2 DEF GenAt
  <2>3. CASE IsIn(t) /\ suite.alone
    <3>1. frames[u] = <<>>
      BY <2>3, OneAlone DEF Inv, ThreadInv, IsIn
    <3> QED
      BY <1>1, <3>1 DEF GenAt
  <2>4. CASE ~suite.alone
    BY <2>4 DEF GenAt
  <2> QED
    BY <2>2, <2>3, <2>4
<1> QED
  BY <1>5, <1>6, <1>7, <1>8 DEF ThreadInv

LEMMA LatchesKeep ==
  ASSUME Inv, NEW t \in Threads, UNCHANGED suite, frames' = [frames EXCEPT ![t] = frames'[t]],
         latch' \in [LatchNames -> 0..MaxHandles],
         \A name \in LatchNames : latch'[name] # 0 => LatchStep(t, name)
  PROVE  LatchOpen'
<1>1. game' = game /\ suite.alone' = suite.alone
  BY DEF game
<1>2. ASSUME NEW name \in LatchNames, latch'[name] # 0
      PROVE  /\ Listed(name)' /\ (name = "dog" => suite.alone)
             /\ \/ IsFor(name, HandlesFor(name)'[latch'[name]])
                \/ name = "dog" /\ \E w \in Threads : IsIn(w)' /\ Frees(Top(w))'
  <2>1. LatchStep(t, name)
    BY <1>2
  <2>2. latch[name] # 0 => /\ Listed(name) /\ (name = "dog" => suite.alone)
                           /\ \/ IsFor(name, HandlesFor(name)[latch[name]])
                              \/ name = "dog" /\ \E w \in Threads : IsIn(w) /\ Frees(Top(w))
    BY DEF Inv, LatchOpen
  <2>3. Listed(name) => Listed(name)'
    BY <1>1 DEF Listed
  <2>4. CASE /\ latch'[name] = latch[name]
             /\ HandlesFor(name)'[latch[name]] = HandlesFor(name)[latch[name]]
             /\ name = "dog" /\ IsIn(t) => ~Frees(Top(t))
    <3>1. CASE IsFor(name, HandlesFor(name)[latch[name]])
      BY <1>2, <2>2, <2>3, <2>4, <3>1
    <3>2. CASE ~IsFor(name, HandlesFor(name)[latch[name]])
      <4>1. PICK w \in Threads : name = "dog" /\ IsIn(w) /\ Frees(Top(w))
        BY <1>2, <2>2, <2>4, <3>2
      <4>2. w # t
        BY <2>4, <4>1
      <4>3. IsIn(w)' /\ Frees(Top(w))'
        BY <4>1, <4>2 DEF IsIn, Frees, Top, Inv, FrameInv
      <4> QED
        BY <1>2, <2>2, <2>3, <2>4, <4>1, <4>3
    <3> QED
      BY <3>1, <3>2
  <2>5. CASE /\ IsIn(t) /\ Listed(name) /\ (name = "dog" => suite.alone)
             /\ IsFor(name, HandlesFor(name)'[latch'[name]])
    BY <2>3, <2>5
  <2>6. CASE name = "dog" /\ latch'[name] = latch[name] /\ IsIn(t)' /\ Frees(Top(t))'
    BY <1>2, <2>2, <2>3, <2>6
  <2> QED
    BY <2>1, <2>4, <2>5, <2>6 DEF LatchStep
<1> QED
  BY <1>1, <1>2 DEF LatchOpen, IsFor

LEMMA Preserves ==
  ASSUME Inv, NEW t \in Threads, UNCHANGED suite, frames' = [frames EXCEPT ![t] = frames'[t]],
         errno' = [errno EXCEPT ![t] = errno'[t]], OnlyOwn(t),
         latch' = latch \/ IsIn(t), latch' \in [LatchNames -> 0..MaxHandles],
         \A name \in LatchNames : latch'[name] # 0 => LatchStep(t, name),
         is_creating_file' = is_creating_file \/ IsIn(t),
         FrameInv', RestInv', ThreadInv(t)'
  PROVE  Inv'
<1>1. SuiteInv'
  BY DEF Inv, SuiteInv
<1>2. LatchOpen'
  BY LatchesKeep
<1>3. \A u \in Threads : ThreadInv(u)'
  <2>1. ASSUME NEW u \in Threads PROVE ThreadInv(u)'
    <3>1. CASE u # t
      BY <3>1, OthersKeep
    <3> QED
      BY <3>1
  <2> QED
    BY <2>1
<1> QED
  BY <1>1, <1>2, <1>3 DEF Inv

\* The innermost frame changes but neither its function nor what it was asked.
LEMMA BecomesKeep ==
  ASSUME Inv, UNCHANGED suite, NEW t \in Threads, IsIn(t), NEW f \in Frames(game), Become(t, f),
         f.fn = Top(t).fn, f.asked = Top(t).asked
  PROVE  /\ FrameInv' /\ IsIn(t)' /\ Top(t)' = f /\ frames' = [frames EXCEPT ![t] = frames'[t]]
         /\ Len(frames'[t]) = Len(frames[t]) /\ Len(frames[t]) \in Nat \ {0}
         /\ \A i \in 1..Len(frames[t]) - 1 : frames'[t][i] = frames[t][i]
         /\ frames'[t][Len(frames[t])] = f /\ frames[t][Len(frames[t])] = Top(t)
         /\ IdleAt(t)' /\ DogAt(t)' /\ DepthAt(t)' /\ ThreadInv(t)
<1>1. /\ FrameInv' /\ IsIn(t)' /\ Top(t)' = f /\ frames' = [frames EXCEPT ![t] = frames'[t]]
      /\ Len(frames'[t]) = Len(frames[t])
      /\ \A i \in 1..Len(frames[t]) - 1 : frames'[t][i] = frames[t][i]
  BY Becomes DEF Inv
<1>2. Len(frames[t]) \in Nat \ {0} /\ frames[t][Len(frames[t])] = Top(t)
  BY TopIsFrame DEF Inv
<1>3. frames'[t][Len(frames[t])] = f
  BY <1>1 DEF Top, Last
<1>4. IdleAt(t) /\ DogAt(t) /\ DepthAt(t) /\ ThreadInv(t)
  BY DEF Inv, ThreadInv
<1>5. IdleAt(t)' /\ DepthAt(t)'
  BY <1>1, <1>4 DEF IdleAt, DepthAt, IsIn
<1>6. \A i \in 1..Len(frames[t]) :
        frames'[t][i].fn = frames[t][i].fn /\ frames'[t][i].asked = frames[t][i].asked
  BY <1>1, <1>2, <1>3
<1>7. DogAt(t)'
  BY <1>1, <1>4, <1>6 DEF DogAt
<1> QED
  BY <1>1, <1>2, <1>3, <1>4, <1>5, <1>7

\* A handler passes the call on.
LEMMA PassStep ==
  ASSUME Inv, UNCHANGED suite, NEW t \in Threads, NEW name, IsIn(t), Turn(game, Top(t), name),
         NEW f \in Frames(game), Become(t, f), f.fn = Top(t).fn, f.asked = Top(t).asked,
         f.irp.h = Top(t).irp.h, f.going = "down", f.pc = "in",
         f.next_handler = Top(t).next_handler + 1, Top(t).pc # "closed",
         UNCHANGED <<errno, diskVars, hdd_fp, mount_eof>>,
         latch' \in [LatchNames -> 0..MaxHandles], \A n \in LatchNames : latch'[n] \in {0, latch[n]},
         \A n \in LatchesOf(Top(t)) :
           Closes(Top(t)) /\ latch'[n] = Top(t).irp.h => HandlerOf(n) # name,
         \/ is_creating_file' = is_creating_file
         \/ is_creating_file' = FALSE /\ Top(t).pc \in GenPcs
  PROVE  Inv'
<1>1. /\ FrameInv' /\ IsIn(t)' /\ Top(t)' = f /\ frames' = [frames EXCEPT ![t] = frames'[t]]
      /\ Len(frames'[t]) = Len(frames[t]) /\ Len(frames[t]) \in Nat \ {0}
      /\ \A i \in 1..Len(frames[t]) - 1 : frames'[t][i] = frames[t][i]
      /\ frames'[t][Len(frames[t])] = f /\ frames[t][Len(frames[t])] = Top(t)
      /\ IdleAt(t)' /\ DogAt(t)' /\ DepthAt(t)' /\ ThreadInv(t)
  BY BecomesKeep
<1>2. Top(t) \in Frames(game) /\ Top(t) \in FrameTypes /\ Top(t).going = "down" /\ game' = game
  BY TopIsFrame DEF Inv, Turn, game
<1>3. Closes(f) => Closes(Top(t))
  BY <1>2 DEF Closes, Frames, IsGenerator, FrameTypes
<1>4. ReturnAt(t)'
  BY <1>1 DEF ReturnAt
<1>5. HoldsAt(t)'
  <2>1. HoldsAt(t)
    BY <1>1 DEF ThreadInv
  <2>2. Closes(f) => Mine(t, HandlesOf(f), f.irp.h)'
    BY <1>3, <2>1 DEF HoldsAt, HandlesOf, Mine, diskVars
  <2>3. \A i \in 1..Len(frames'[t]) : frames'[t][i].pc = "written" => Mine(t, streams', frames'[t][i].held)
    BY <1>1, <2>1 DEF HoldsAt, diskVars
  <2> QED
    BY <1>1, <2>2, <2>3 DEF HoldsAt, Opened_, Closes, Mine
<1>6. LatchAt(t)'
  <2>1. LatchAt(t)
    BY <1>1 DEF ThreadInv
  <2>2. ASSUME Closes(f), NEW n \in LatchesOf(f), latch'[n] = f.irp.h
        PROVE  Ahead(game, f, HandlerOf(n))
    <3>1. n \in LatchesOf(Top(t)) /\ n \in LatchNames
      BY <2>2 DEF LatchesOf, LatchNames
    <3>2. latch[n] = Top(t).irp.h
      <4>1. f.irp.h # 0
        BY <1>3, <1>1, <2>2, HandlesAreNumbers DEF ThreadInv, HoldsAt, Mine
      <4> QED
        BY <2>2, <3>1, <4>1
    <3>3. Ahead(game, Top(t), HandlerOf(n)) /\ HandlerOf(n) # name
      BY <1>3, <2>1, <2>2, <3>1, <3>2 DEF LatchAt
    <3>4. PICK k \in DOMAIN HandlersOf(game, f.fn) :
            k >= Top(t).next_handler /\ HandlersOf(game, f.fn)[k] = HandlerOf(n)
      BY <3>3 DEF Ahead
    <3>5. DOMAIN HandlersOf(game, f.fn) = 1..Len(HandlersOf(game, f.fn))
          /\ Len(HandlersOf(game, f.fn)) \in Nat
      BY HandlerLists, GameIsGame, FrameParts DEF Inv, IsList
    <3>6. k # Top(t).next_handler /\ k \in Nat /\ Top(t).next_handler \in Nat
      BY <3>3, <3>4, <3>5 DEF Turn
    <3>7. k >= f.next_handler
      BY <3>4, <3>6
    <3> QED
      BY <3>4, <3>7 DEF Ahead
  <2> QED
    BY <1>1, <1>2, <2>2 DEF LatchAt, Closes, Frees, LatchesOf
<1>7. GenAt(t)'
  <2>1. GenAt(t)
    BY <1>1 DEF ThreadInv
  <2> SUFFICES ASSUME suite.alone PROVE GenAt(t)'
    BY DEF GenAt
  <2>2. \A i \in 1..Len(frames'[t]) : frames'[t][i].pc \in CreatingPcs => i \in 1..Len(frames[t]) - 1
    BY <1>1 DEF CreatingPcs, GenPcs
  <2>3. CASE is_creating_file' = is_creating_file
    BY <1>1, <2>1, <2>2, <2>3 DEF GenAt
  <2>4. CASE Top(t).pc \in GenPcs
    <3>1. Len(frames[t]) <= 2 /\ Len(frames[t]) # 2
      BY <2>1, <2>4 DEF GenAt, GenPcs
    <3>2. Len(frames[t]) - 1 = 0
      <4>1. Len(frames[t]) \in Nat \ {0}
        BY <1>1
      <4>2. \A n \in Nat \ {0} : n <= 2 /\ n # 2 => n - 1 = 0
        OBVIOUS
      <4> QED
        BY ONLY <3>1, <4>1, <4>2
    <3> QED
      BY <1>1, <2>1, <2>2, <3>1, <3>2 DEF GenAt
  <2> QED
    BY <2>3, <2>4
<1>8. RestInv'
  BY DEF Inv, RestInv, HandleTypes, diskVars, RealErrnos
<1>9. OnlyOwn(t) /\ errno' = [errno EXCEPT ![t] = errno'[t]]
  BY DEF OnlyOwn, diskVars, Inv, RestInv
<1>10. ASSUME NEW n \in LatchNames, latch'[n] # 0 PROVE LatchStep(t, n)
  <2>1. latch'[n] = latch[n] /\ HandlesFor(n)' = HandlesFor(n)
    BY <1>10 DEF HandlesFor, diskVars
  <2> QED
    BY <2>1 DEF LatchStep, Frees
<1> QED
  BY <1>1, <1>4, <1>5, <1>6, <1>7, <1>8, <1>9, <1>10, Preserves DEF ThreadInv

\* A handler or the real function answers the call, a handler that waited sees
\* the result, or the wrapper has it.
LEMMA UpStep ==
  ASSUME Inv, UNCHANGED <<suite, is_creating_file>>, NEW t \in Threads, IsIn(t),
         NEW f \in Frames(game), Become(t, f), f.fn = Top(t).fn, f.asked = Top(t).asked,
         f.pc = Top(t).pc, f.going \in {"up", "done"},
         errno' = [errno EXCEPT ![t] = errno'[t]], RestInv', OnlyOwn(t),
         latch' \in [LatchNames -> 0..MaxHandles],
         \A n \in LatchNames : latch'[n] # 0 => LatchStep(t, n),
         \A h \in 1..MaxHandles :
           Mine(t, streams, h) => Mine(t, streams', h) \/ Top(t).fn = "fclose",
         Opened_(t, f)',
         f.fn = "fopen" /\ f.going = "done" /\ f.ret # 0 => Mine(t, streams, f.ret)',
         ReturnAt(t)'
  PROVE  Inv'
<1>1. /\ FrameInv' /\ IsIn(t)' /\ Top(t)' = f /\ frames' = [frames EXCEPT ![t] = frames'[t]]
      /\ Len(frames'[t]) = Len(frames[t]) /\ Len(frames[t]) \in Nat \ {0}
      /\ \A i \in 1..Len(frames[t]) - 1 : frames'[t][i] = frames[t][i]
      /\ frames'[t][Len(frames[t])] = f /\ frames[t][Len(frames[t])] = Top(t)
      /\ IdleAt(t)' /\ DogAt(t)' /\ DepthAt(t)' /\ ThreadInv(t)
  BY BecomesKeep
<1>2. f.pc \notin GenPcs
  BY DEF Frames, IsGenerator
<1>3. HoldsAt(t)'
  <2>1. HoldsAt(t)
    BY <1>1 DEF ThreadInv
  <2>2. ASSUME NEW i \in 1..Len(frames[t]), frames'[t][i].pc = "written"
        PROVE  Mine(t, streams', frames'[t][i].held)
    <3>1. i # Len(frames[t]) /\ frames'[t][i] = frames[t][i]
      BY <1>1, <1>2, <2>2 DEF GenPcs
    <3>2. Top(t).fn = "fwrite"
      BY <2>2, <3>1, WrittenAbove DEF Inv
    <3>3. Mine(t, streams, frames[t][i].held)
      BY <2>1, <2>2, <3>1 DEF HoldsAt
    <3>4. frames[t][i].held \in 1..MaxHandles
      BY <3>3 DEF Mine
    <3> QED
      BY <3>1, <3>2, <3>3, <3>4
  <2> QED
    BY <1>1, <1>2, <2>2 DEF HoldsAt, Closes, GenPcs, Mine
<1>4. LatchAt(t)'
  BY <1>1 DEF LatchAt, Closes, Frees
<1>5. GenAt(t)'
  <2>1. \A i \in 1..Len(frames[t]) : frames'[t][i].pc = frames[t][i].pc
    BY <1>1
  <2>2. GenAt(t)
    BY <1>1 DEF ThreadInv
  <2> QED
    BY <1>1, <2>1, <2>2 DEF GenAt
<1> QED
  BY <1>1, <1>3, <1>4, <1>5, Preserves DEF ThreadInv

\* The game calls a function.
LEMMA StartStep ==
  ASSUME Inv, UNCHANGED suite, NEW t \in Threads, GameCalls(t)
  PROVE  Inv'
<1>1. PICK c \in Suites[suite.of].calls[t] :
        LET chain == hooked[c.fn].chain
            onHandle == hooked[c.fn].op # "OPEN" /\ chain # "fs"
        IN \/ onHandle /\ \E h \in Own(t, chain) : Call(t, c.fn, [c.irp EXCEPT !.h = h])
           \/ ~onHandle /\ Call(t, c.fn, c.irp)
           \/ c.irp.h = -1 /\ Call(t, c.fn, [c.irp EXCEPT !.h = 0])
  BY DEF GameCalls
<1>2. IsCall(c) /\ ~IsIn(t) /\ game \in Games /\ suite.of \in DOMAIN Suites
  BY SuitesAreCalls, GameIsGame DEF Inv, SuiteInv, GameCalls
<1>3. c.irp \in Requests /\ c.fn \in Fns
  BY <1>2, IrpsAreRequests DEF IsCall, Fns
<1>4. PICK irp : /\ Call(t, c.fn, irp) /\ irp \in {c.irp} \cup {[c.irp EXCEPT !.h = h] : h \in Int}
                 /\ ~IsNull(c.fn, irp) /\ c.fn \in {"fclose", "close"} =>
                      Mine(t, IF hooked[c.fn].chain = "file" THEN streams ELSE fds, irp.h)
  <2>1. CASE \E h \in Own(t, hooked[c.fn].chain) : Call(t, c.fn, [c.irp EXCEPT !.h = h])
    <3>1. PICK h \in Own(t, hooked[c.fn].chain) : Call(t, c.fn, [c.irp EXCEPT !.h = h])
      BY <2>1
    <3>2. Mine(t, IF hooked[c.fn].chain = "file" THEN streams ELSE fds, h) /\ h \in Int
      BY <3>1, HandlesAreNumbers DEF Own, Mine, Inv, RestInv, HandleTypes
    <3>3. [c.irp EXCEPT !.h = h].h = h
      BY <1>3 DEF Requests
    <3> QED
      BY <3>1, <3>2, <3>3
  <2>2. CASE Call(t, c.fn, c.irp) /\ (hooked[c.fn].op = "OPEN" \/ hooked[c.fn].chain = "fs")
    <3>1. c.fn \notin {"fclose", "close"}
      BY <2>2 DEF hooked, F, fclose, close
    <3> QED
      BY <2>2, <3>1
  <2>3. CASE c.irp.h = -1 /\ Call(t, c.fn, [c.irp EXCEPT !.h = 0])
    <3>1. hooked[c.fn].checked = "h" /\ [c.irp EXCEPT !.h = 0].h = 0
      BY <1>2, <1>3, <2>3 DEF IsCall, Requests
    <3>2. IsNull(c.fn, [c.irp EXCEPT !.h = 0])
      BY <3>1 DEF IsNull
    <3> QED
      BY <2>3, <3>2
  <2> QED
    BY <1>1, <2>1, <2>2, <2>3
<1>5. IsAsked(c.fn, irp) /\ irp.path = c.irp.path
  <2>1. irp \in Requests /\ irp.pos = c.irp.pos /\ irp.line = c.irp.line /\ irp.off = c.irp.off
        /\ irp.whence = c.irp.whence /\ irp.path = c.irp.path
    BY <1>3, <1>4 DEF Requests
  <2> QED
    BY <1>2, <1>3, <2>1 DEF IsAsked, IsCall, SeeksInside
<1> DEFINE g == IF IsNull(c.fn, irp)
                THEN [Frame(c.fn, irp) EXCEPT !.going = "done", !.ret = hooked[c.fn].bad,
                                              !.claimed = TRUE]
                ELSE Frame(c.fn, irp)
<1>6. g \in Frames(game)
  <2>1. Frame(c.fn, irp) \in Frames(game) /\ Refused(c.fn, irp) \in Frames(game)
    BY <1>2, <1>5, CallFrame
  <2> QED
    BY <2>1 DEF Refused
<1>7. frames' = [frames EXCEPT ![t] = Append(@, g)] /\ UNCHANGED <<diskVars, handlerVars>>
  BY <1>4 DEF Call
<1>8. /\ g.fn = c.fn /\ g.asked.path = irp.path /\ g.pc = "in" /\ g.irp = irp /\ g.next_handler = 1
      /\ ~IsNull(c.fn, irp) => g.going = "down"
      /\ IsNull(c.fn, irp) => g.going = "done" /\ g.claimed /\ g.ret = hooked[c.fn].bad
  BY DEF Frame
<1> HIDE DEF g
<1>9. /\ FrameInv' /\ IsIn(t)' /\ Top(t)' = g /\ frames' = [frames EXCEPT ![t] = frames'[t]]
      /\ Len(frames'[t]) = 1 /\ frames'[t][1] = g
  <2>1. /\ FrameInv' /\ IsIn(t)' /\ Top(t)' = g /\ frames' = [frames EXCEPT ![t] = frames'[t]]
        /\ Len(frames'[t]) = 1
    BY <1>2, <1>6, <1>7, Started DEF Inv
  <2> QED
    BY <2>1 DEF Top, Last
<1>10. RestInv' /\ errno' = [errno EXCEPT ![t] = errno'[t]]
  <2>1. cnh_result_to_errno("INVALID_PARAMETER") \in {OK, "EIO"} \cup DOMAIN known
    BY ResultsHaveErrors
  <2>2. /\ errno' = [errno EXCEPT ![t] = errno'[t]]
        /\ errno'[t] \in {OK, "EIO", "EBADF", "EMFILE"} \cup DOMAIN known \cup RealErrnos
    <3> HIDE DEF known
    <3> QED
      BY <1>4, <2>1 DEF Call, Inv, RestInv
  <2> QED
    BY <1>7, <2>2 DEF Inv, RestInv, HandleTypes, diskVars, handlerVars, RealErrnos
<1>11. ReturnAt(t)' /\ IdleAt(t)' /\ DepthAt(t)' /\ GenAt(t)'
  BY <1>2, <1>8, <1>9, HandlesAreNumbers
  DEF ReturnAt, IdleAt, DepthAt, GenAt, CreatingPcs, GenPcs, Inv, SuiteInv
<1>12. DogAt(t)'
  <2>1. c.fn = "open" /\ cnh_redir_check(c.irp.path) = usbdog => suite.alone
    BY <1>2, DogsAreAlone DEF Inv, SuiteInv
  <2> QED
    BY <1>5, <1>8, <1>9, <2>1 DEF DogAt
<1>13. HoldsAt(t)'
  <2>1. Closes(g) => Mine(t, HandlesOf(g), g.irp.h)'
    BY <1>4, <1>7, <1>8 DEF Closes, HandlesOf, Mine, diskVars
  <2>2. g.fn = "fopen" /\ g.going = "done" => g.ret = 0
    BY <1>8 DEF hooked, F, fopen
  <2> QED
    BY <1>8, <1>9, <2>1, <2>2 DEF HoldsAt, Opened_, Closes, Mine
<1>14. LatchAt(t)'
  <2>1. ASSUME Closes(g), NEW n \in LatchesOf(g), latch[n] = g.irp.h
        PROVE  Ahead(game, g, HandlerOf(n))
    <3>1. latch[n] # 0 /\ n \in LatchNames
      BY <1>4, <1>8, <2>1, HandlesAreNumbers DEF Closes, Mine, LatchesOf, LatchNames
    <3>2. Listed(n)
      BY <3>1 DEF Inv, LatchOpen
    <3>3. HandlersOf(game, g.fn) = IF n \in StreamLatches THEN file_handlers[game] ELSE io_handlers[game]
      BY <2>1 DEF Closes, HandlersOf, LatchesOf, StreamLatches, FdLatches, hooked, F, fclose, close
    <3>4. PICK k \in DOMAIN HandlersOf(game, g.fn) : HandlersOf(game, g.fn)[k] = HandlerOf(n)
      BY <3>2, <3>3 DEF Listed
    <3>5. k >= 1
      BY <1>2, <1>3, <1>8, HandlerLists DEF IsList
    <3> QED
      BY <1>8, <3>4, <3>5 DEF Ahead
  <2> QED
    BY <1>7, <1>8, <1>9, <2>1 DEF LatchAt, Closes, Frees, LatchesOf, handlerVars, game
<1>15. OnlyOwn(t) /\ latch' = latch /\ latch \in [LatchNames -> 0..MaxHandles]
       /\ is_creating_file' = is_creating_file
  BY <1>7 DEF OnlyOwn, diskVars, handlerVars, Inv, LatchOpen
<1>16. ASSUME NEW n \in LatchNames PROVE LatchStep(t, n)
  BY <1>2, <1>7 DEF LatchStep, HandlesFor, diskVars, handlerVars
<1> QED
  BY <1>9, <1>10, <1>11, <1>12, <1>13, <1>14, <1>15, <1>16, Preserves DEF ThreadInv

\* The innermost function returns, to a generator or to the game.
LEMMA LeaveStep ==
  ASSUME Inv, UNCHANGED suite, NEW t \in Threads, Leave(t)
  PROVE  Inv'
<1>1. IsIn(t) /\ Top(t).going = "done" /\ UNCHANGED <<errno, diskVars, handlerVars>>
  BY DEF Leave
<1>2. /\ FrameInv' /\ frames' = [frames EXCEPT ![t] = frames'[t]]
      /\ Len(frames[t]) = 1 => frames'[t] = <<>> /\ ~IsIn(t)'
      /\ Len(frames[t]) # 1 =>
           /\ IsIn(t)' /\ Len(frames'[t]) = Len(frames[t]) - 1 /\ Len(frames'[t]) \in Nat
           /\ Top(t)' = [frames[t][Len(frames[t]) - 1] EXCEPT !.got = Top(t).ret]
           /\ frames[t][Len(frames[t]) - 1] \in Frames(game)
           /\ Calls(frames[t][Len(frames[t]) - 1], Top(t))
           /\ \A i \in 1..Len(frames'[t]) - 1 : frames'[t][i] = frames[t][i]
  BY <1>1, Left DEF Inv
<1>3. Len(frames[t]) \in Nat \ {0} /\ ThreadInv(t) /\ game' = game
  BY <1>1, TopIsFrame DEF Inv, game
<1>4. RestInv' /\ errno' = [errno EXCEPT ![t] = errno'[t]] /\ OnlyOwn(t)
  BY <1>1 DEF Inv, RestInv, HandleTypes, OnlyOwn, diskVars, handlerVars, RealErrnos
<1>5. latch' = latch /\ latch \in [LatchNames -> 0..MaxHandles] /\ is_creating_file' = is_creating_file
  BY <1>1 DEF Inv, LatchOpen, handlerVars
<1>6. ASSUME NEW n \in LatchNames PROVE LatchStep(t, n)
  BY <1>1 DEF LatchStep, HandlesFor, Frees, diskVars, handlerVars
<1>7. ThreadInv(t)'
  <2>1. CASE Len(frames[t]) = 1
    <3>1. frames'[t] = <<>> /\ Len(frames'[t]) = 0 /\ ~IsIn(t)'
      BY <1>2, <2>1
    <3>2. ReturnAt(t)' /\ HoldsAt(t)' /\ LatchAt(t)' /\ IdleAt(t)'
      BY <3>1 DEF ReturnAt, HoldsAt, LatchAt, IdleAt
    <3>3. GenAt(t)' /\ DogAt(t)' /\ DepthAt(t)'
      BY <3>1, HandlesAreNumbers DEF GenAt, DogAt, DepthAt
    <3> QED
      BY <3>2, <3>3 DEF ThreadInv
  <2>2. CASE Len(frames[t]) # 1
    <3> DEFINE f == frames[t][Len(frames[t]) - 1]
               n == Len(frames[t]) - 1
    <3>1. /\ IsIn(t)' /\ Len(frames'[t]) = n /\ Top(t)' = [f EXCEPT !.got = Top(t).ret]
          /\ f \in Frames(game) /\ f.pc \in GenPcs /\ Top(t).fn = CalledAt[f.pc]
          /\ \A i \in 1..n - 1 : frames'[t][i] = frames[t][i]
      BY <1>2, <2>2 DEF Calls
    <3>2. n \in Nat \ {0} /\ n + 1 = Len(frames[t]) /\ Top(t)' = frames'[t][n]
          /\ \A i \in 1..n : i \in 1..Len(frames[t])
      <4>1. n \in Nat \ {0} /\ n + 1 = Len(frames[t]) /\ \A i \in 1..n : i \in 1..Len(frames[t])
        BY ONLY <1>3, <2>2
      <4> QED
        BY <3>1, <4>1 DEF Top, Last
    <3>3. f.going = "down" /\ f \in FrameTypes /\ f.fn = "fopen"
      BY <3>1 DEF Frames, IsGenerator
    <3>4. LET h == Top(t)'
          IN /\ h.fn = f.fn /\ h.asked = f.asked /\ h.pc = f.pc /\ h.going = "down"
             /\ h.held = f.held /\ h.got = Top(t).ret
      BY <3>1, <3>3 DEF FrameTypes
    <3>5. \A i \in 1..n : /\ frames'[t][i].fn = frames[t][i].fn /\ frames'[t][i].pc = frames[t][i].pc
                          /\ frames'[t][i].asked = frames[t][i].asked
                          /\ frames'[t][i].held = frames[t][i].held
      <4>1. ASSUME NEW i \in 1..n, i # n PROVE i \in 1..n - 1
        BY <3>2, <4>1
      <4>2. frames'[t][n] = Top(t)' /\ frames[t][n] = f
        BY <3>2
      <4> HIDE DEF f, n
      <4> QED
        BY <3>1, <3>4, <4>1, <4>2
    <3> HIDE DEF f, n
    <3>6. ReturnAt(t)' /\ LatchAt(t)'
      BY <3>1, <3>3, <3>4 DEF ReturnAt, LatchAt, Closes, Frees, GenPcs
    <3>7. IdleAt(t)' /\ DepthAt(t)' /\ DogAt(t)'
      <4>1. IdleAt(t) /\ DepthAt(t) /\ DogAt(t)
        BY <1>3 DEF ThreadInv
      <4>2. DogAt(t)'
        BY <3>1, <3>2, <3>5, <4>1 DEF DogAt
      <4>3. n <= MaxDepth
        BY <3>2, <4>1, HandlesAreNumbers DEF DepthAt
      <4> QED
        BY <1>1, <3>1, <4>1, <4>2, <4>3 DEF IdleAt, DepthAt, IsIn
    <3>8. GenAt(t)'
      <4> SUFFICES ASSUME suite.alone PROVE GenAt(t)'
        BY DEF GenAt
      <4>1. GenAt(t)
        BY <1>3 DEF ThreadInv
      <4>2. n <= 1
        BY <3>2, <4>1 DEF GenAt
      <4>3. \A i \in 1..n : frames'[t][i].pc \in CreatingPcs => is_creating_file'
        BY <1>5, <3>2, <3>5, <4>1 DEF GenAt
      <4> QED
        BY <3>1, <3>2, <4>2, <4>3 DEF GenAt
    <3>9. HoldsAt(t)'
      <4>1. HoldsAt(t)
        BY <1>3 DEF ThreadInv
      <4>2. f.pc \in {"older", "created"} /\ Top(t).ret # 0 => Mine(t, streams, Top(t).ret)
        BY <1>1, <3>1, <4>1 DEF HoldsAt, CalledAt
      <4>3. \A i \in 1..n : frames'[t][i].pc = "written" => Mine(t, streams, frames'[t][i].held)
        BY <3>2, <3>5, <4>1, <1>1 DEF HoldsAt
      <4> QED
        BY <1>1, <3>1, <3>3, <3>4, <4>2, <4>3 DEF HoldsAt, Opened_, Closes, Mine, diskVars
    <3> QED
      BY <3>6, <3>7, <3>8, <3>9 DEF ThreadInv
  <2> QED
    BY <2>1, <2>2
<1> QED
  BY <1>2, <1>4, <1>5, <1>6, <1>7, Preserves

\* The wrapper gives the result to its caller.
LEMMA DoneStep ==
  ASSUME Inv, UNCHANGED suite, NEW t \in Threads, Done(t)
  PROVE  Inv'
<1> DEFINE f == Top(t)
           good == f.result = SUCCESS
           ret == IF good THEN Given(hooked[f.fn].good, f.irp) ELSE hooked[f.fn].bad
           u == [f EXCEPT !.going = "done", !.ret = ret]
<1>1. /\ IsIn(t) /\ f.going = "up" /\ Become(t, u) /\ UNCHANGED <<diskVars, handlerVars>>
      /\ errno' = [errno EXCEPT ![t] =
              IF good THEN IF f.fn = "rewind" THEN @ ELSE OK
              ELSE IF f.fn = "feof" THEN "EBADF" ELSE cnh_result_to_errno(f.result)]
  BY DEF Done
<1>2. f \in Frames(game) /\ f \in FrameTypes /\ ThreadInv(t)
  BY <1>1, TopIsFrame DEF Inv
<1>3. ret \in Int
  BY <1>2, FrameParts, GivenTyped, HookedTable
<1>4. u \in Frames(game)
  <2>1. game \in Games
    BY GameIsGame DEF Inv
  <2> HIDE DEF f, ret
  <2> QED
    <3>1. Finished(f, ret) \in Frames(game)
      BY <1>1, <1>2, <1>3, <2>1, DoneFrame
    <3> QED
      BY <3>1 DEF u, Finished
<1>15. /\ u.fn = f.fn /\ u.asked = f.asked /\ u.pc = f.pc /\ u.going = "done" /\ u.irp = f.irp
      /\ u.ret = ret /\ u.claimed = f.claimed /\ u.real = f.real /\ u.errn = f.errn
  <2> HIDE DEF f, ret
  <2> QED
    BY <1>2 DEF FrameTypes
<1> HIDE DEF u
<1>5. PICK w \in Frames(game) :
        /\ Become(t, w) /\ w.fn = f.fn /\ w.asked = f.asked /\ w.pc = f.pc /\ w.going = "done"
        /\ w.irp = f.irp /\ w.ret = ret /\ w.claimed = f.claimed /\ w.real = f.real /\ w.errn = f.errn
  BY <1>1, <1>4, <1>15
<1>6. errno'[t] = (IF good THEN IF f.fn = "rewind" THEN errno[t] ELSE OK
                   ELSE IF f.fn = "feof" THEN "EBADF" ELSE cnh_result_to_errno(f.result))
      /\ errno' = [errno EXCEPT ![t] = errno'[t]]
  BY <1>1 DEF Inv, RestInv
<1>7. RestInv'
  <2>1. errno'[t] \in {OK, "EIO", "EBADF", "EMFILE"} \cup DOMAIN known \cup RealErrnos
    <3>1. cnh_result_to_errno(f.result) \in {OK, "EIO"} \cup DOMAIN known
      BY ResultsHaveErrors
    <3> HIDE DEF known, f
    <3> QED
      BY <1>6, <3>1 DEF Inv, RestInv
  <2> QED
    BY <1>1, <1>6, <2>1 DEF Inv, RestInv, HandleTypes, diskVars, handlerVars, RealErrnos
<1>8. OnlyOwn(t) /\ latch' = latch /\ latch \in [LatchNames -> 0..MaxHandles]
      /\ is_creating_file' = is_creating_file
  BY <1>1 DEF OnlyOwn, diskVars, handlerVars, Inv, LatchOpen
<1>9. ASSUME NEW n \in LatchNames PROVE LatchStep(t, n)
  BY <1>1 DEF LatchStep, HandlesFor, Frees, diskVars, handlerVars
<1>10. Top(t)' = w
  BY <1>1, <1>5, BecomesKeep
<1>11. ReturnAt(t)'
  <2> SUFFICES ASSUME ~f.claimed
               PROVE  /\ ret = f.real
                      /\ f.errn # OK =>
                           errno'[t] = IF f.errn \in DOMAIN known THEN f.errn ELSE "EIO"
    <3> HIDE DEF f, ret
    <3> QED
      BY <1>5, <1>10 DEF ReturnAt
  <2>1. \/ f.errn = OK /\ f.result = SUCCESS /\ f.real = Given(hooked[f.fn].good, f.irp)
        \/ /\ f.errn # OK /\ f.result = cnh_errno_to_result(f.errn) /\ f.real = hooked[f.fn].bad
           /\ f.fn # "feof"
    BY <1>1, <1>2 DEF Frames, IsReal
  <2>2. f.errn # OK => /\ cnh_errno_to_result(f.errn) # SUCCESS
                       /\ cnh_result_to_errno(cnh_errno_to_result(f.errn)) =
                            IF f.errn \in DOMAIN known THEN f.errn ELSE "EIO"
    BY ErrorsHaveResults
  <2> HIDE DEF f
  <2> QED
    BY <1>6, <2>1, <2>2
<1>12. w.fn = "fopen" /\ w.ret # 0 => Mine(t, streams', w.ret)
  <2>1. hooked["fopen"].bad = 0 /\ hooked["fopen"].good = "h"
    BY DEF hooked, F, fopen
  <2>2. f.fn = "fopen" /\ ret # 0 => ret = f.irp.h /\ good
    BY <2>1 DEF Given
  <2>3. f.fn = "fopen" /\ good /\ f.irp.h # 0 => Mine(t, streams, f.irp.h)
    BY <1>1, <1>2 DEF ThreadInv, HoldsAt, Opened_
  <2> HIDE DEF f, ret
  <2> QED
    BY <1>1, <1>5, <2>2, <2>3 DEF diskVars
<1> HIDE DEF f
<1>13. Opened_(t, w)'
  BY <1>5 DEF Opened_
<1>14. \A h : Mine(t, streams, h) => Mine(t, streams', h)
  BY <1>1 DEF diskVars
<1> QED
  BY <1>1, <1>5, <1>6, <1>7, <1>8, <1>9, <1>11, <1>12, <1>13, <1>14, UpStep DEF f, Mine

-----------------------------------------------------------------------------
(* Handlers that forward.                                                     *)

LEMMA PassedFields ==
  ASSUME NEW f \in FrameTypes, NEW irp
  PROVE  LET p == Passed(f, irp)
         IN /\ p.fn = f.fn /\ p.asked = f.asked /\ p.irp = irp /\ p.going = f.going /\ p.pc = "in"
            /\ p.next_handler = f.next_handler + 1
BY DEF FrameTypes, Passed
LEMMA WaitsFields ==
  ASSUME NEW f \in FrameTypes, NEW name
  PROVE  LET p == Waits(f, name)
         IN /\ p.fn = f.fn /\ p.asked = f.asked /\ p.irp = f.irp /\ p.going = f.going /\ p.pc = f.pc
            /\ p.next_handler = f.next_handler + 1
BY DEF FrameTypes, Waits

\* Between the two steps of a close only the handler of the dongle has the call.
LEMMA OnlyDogFrees ==
  ASSUME Inv, NEW t \in Threads, NEW name, Has(t, name), name \notin {"none", "dog34"}
  PROVE  Top(t).pc # "closed"
<1>1. /\ IsIn(t) /\ Top(t) \in Frames(game) /\ Top(t).going = "down" /\ game \in Games
      /\ name # "real" => Turn(game, Top(t), name)
      /\ name = "real" => AtReal(game, Top(t))
  BY HasTurn, GameIsGame DEF Inv
<1>2. CASE name = "real"
  BY <1>1, <1>2, BehindHandlers
<1>3. CASE name # "real"
  BY <1>1, <1>3 DEF Frames, IsPlaced, Turn
<1> QED
  BY <1>2, <1>3

\* Who closes a handle owns it, so that it is one.
LEMMA ClosesOwn ==
  ASSUME Inv, NEW t \in Threads, IsIn(t), Closes(Top(t))
  PROVE  Mine(t, HandlesOf(Top(t)), Top(t).irp.h) /\ Top(t).irp.h # 0
<1>1. Mine(t, HandlesOf(Top(t)), Top(t).irp.h)
  BY DEF Inv, ThreadInv, HoldsAt
<1> QED
  BY <1>1, HandlesAreNumbers DEF Mine

LEMMA ForwardKeep ==
  ASSUME Inv, UNCHANGED suite, NEW t \in Threads, NEW name, Has(t, name), name \notin {"real", "none"},
         NEW irp, Passed(Top(t), irp) \in Frames(game), irp.h = Top(t).irp.h, invoke_next(t, irp),
         name = "dog34" => Top(t).pc = "in",
         UNCHANGED <<errno, diskVars, hdd_fp, mount_eof>>,
         latch' \in [LatchNames -> 0..MaxHandles], \A n \in LatchNames : latch'[n] \in {0, latch[n]},
         \A n \in LatchesOf(Top(t)) :
           Closes(Top(t)) /\ latch'[n] = Top(t).irp.h => HandlerOf(n) # name,
         \/ is_creating_file' = is_creating_file
         \/ is_creating_file' = FALSE /\ Top(t).pc \in GenPcs
  PROVE  Inv'
<1>1. IsIn(t) /\ Top(t) \in FrameTypes /\ Top(t).going = "down" /\ Turn(game, Top(t), name)
  BY HasTurn DEF Inv, Frames
<1>2. Top(t).pc # "closed"
  BY OnlyDogFrees
<1>3. PICK f \in Frames(game) : f = Passed(Top(t), irp)
  OBVIOUS
<1>4. Become(t, f)
  BY <1>3 DEF invoke_next, Passed
<1>5. /\ f.fn = Top(t).fn /\ f.asked = Top(t).asked /\ f.irp.h = Top(t).irp.h /\ f.going = "down"
      /\ f.pc = "in" /\ f.next_handler = Top(t).next_handler + 1
  BY <1>1, <1>3, PassedFields
<1> QED
  BY <1>1, <1>2, <1>4, <1>5, PassStep

LEMMA PassesKeep ==
  ASSUME Inv, UNCHANGED suite, NEW t \in Threads, NEW name, Has(t, name),
         name \notin {"real", "none", "redir"}, name = "dog34" => Top(t).pc = "in", Passes(t),
         \A n \in LatchesOf(Top(t)) :
           Closes(Top(t)) /\ latch[n] = Top(t).irp.h => HandlerOf(n) # name
  PROVE  Inv'
<1>1. game \in Games /\ Top(t) \in Frames(game) /\ Turn(game, Top(t), name)
  BY HasTurn, GameIsGame DEF Inv
<1>2. Passed(Top(t), Top(t).irp) \in Frames(game)
  BY <1>1, PassFrame
<1>3. latch' = latch /\ latch \in [LatchNames -> 0..MaxHandles]
  BY DEF Passes, handlerVars, Inv, LatchOpen
<1> QED
  BY <1>2, <1>3, ForwardKeep DEF Passes, handlerVars

LEMMA ClearsKeep ==
  ASSUME Inv, UNCHANGED suite, NEW t \in Threads, NEW latched \in LatchNames \ {"dog"},
         Has(t, HandlerOf(latched)), clears(t, latched),
         \A n \in LatchesOf(Top(t)) : HandlerOf(n) = HandlerOf(latched) => n = latched
  PROVE  Inv'
<1> DEFINE name == HandlerOf(latched)
<1>1. name \notin {"real", "none", "redir", "dog34"}
  BY DEF HandlerOf, LatchNames, StreamLatches, FdLatches
<1> HIDE DEF name
<1>2. game \in Games /\ Top(t) \in Frames(game) /\ Turn(game, Top(t), name) /\ IsIn(t)
  BY <1>1, HasTurn, GameIsGame DEF Inv, name
<1>3. Passed(Top(t), Top(t).irp) \in Frames(game)
  BY <1>1, <1>2, PassFrame
<1>4. /\ latch' \in [LatchNames -> 0..MaxHandles] /\ latch'[latched] = 0
      /\ \A n \in LatchNames : latch'[n] \in {0, latch[n]}
  BY HandlesAreNumbers DEF clears, Inv, LatchOpen
<1>5. ASSUME NEW n \in LatchesOf(Top(t)), Closes(Top(t)), latch'[n] = Top(t).irp.h
      PROVE  HandlerOf(n) # name
  BY <1>2, <1>4, <1>5, ClosesOwn DEF name
<1> QED
  BY <1>1, <1>3, <1>4, <1>5, ForwardKeep DEF clears, name

LEMMA RedirectsKeep ==
  ASSUME Inv, UNCHANGED suite, NEW t \in Threads, NEW chain, Redirects(t, chain)
  PROVE  Inv'
<1>1. game \in Games /\ Top(t) \in Frames(game) /\ Turn(game, Top(t), "redir") /\ Has(t, "redir")
  BY HasTurn, GameIsGame DEF Inv, Redirects
<1>2. Passed(Top(t), redirected(Op(t), Top(t).irp)) \in Frames(game)
  BY <1>1, RedirFrame DEF Op
<1>3. redirected(Op(t), Top(t).irp).h = Top(t).irp.h
  BY <1>1, FrameParts DEF redirected, Requests
<1>4. latch' = latch /\ latch \in [LatchNames -> 0..MaxHandles]
  BY DEF Redirects, handlerVars, Inv, LatchOpen
<1>5. \A n \in LatchesOf(Top(t)) : HandlerOf(n) # "redir"
  BY DEF LatchesOf, HandlerOf, StreamLatches, FdLatches
<1> QED
  BY <1>1, <1>2, <1>3, <1>4, <1>5, ForwardKeep DEF Redirects, handlerVars

LEMMA WaitKeeps ==
  ASSUME Inv, UNCHANGED suite, NEW t \in Threads, Has(t, "unlock"), hooked[Top(t).fn].op # "CLOSE",
         invoke_next_and(t, "unlock"), UNCHANGED handlerVars
  PROVE  Inv'
<1>1. /\ game \in Games /\ Top(t) \in Frames(game) /\ Turn(game, Top(t), "unlock") /\ IsIn(t)
      /\ Top(t) \in FrameTypes /\ Top(t).pc # "closed" /\ Top(t).going = "down"
  BY HasTurn, GameIsGame, OnlyDogFrees DEF Inv, Frames
<1>2. hooked[Top(t).fn].chain = "file"
  BY <1>1, UnlockIsFile, FrameParts
<1>3. Top(t).pc = "in"
  BY <1>1, TurnIsAt DEF FrameTypes
<1>4. Waits(Top(t), "unlock") \in Frames(game)
  BY <1>1, <1>2, PassFrame
<1>5. PICK f \in Frames(game) : f = Waits(Top(t), "unlock")
  BY <1>4
<1>6. Become(t, f)
  BY <1>5 DEF invoke_next_and, Waits
<1>7. /\ f.fn = Top(t).fn /\ f.asked = Top(t).asked /\ f.irp.h = Top(t).irp.h /\ f.going = "down"
      /\ f.pc = "in" /\ f.next_handler = Top(t).next_handler + 1
  BY <1>1, <1>3, <1>5, WaitsFields
<1>8. ~Closes(Top(t))
  BY DEF Closes, hooked, F, fclose, close
<1>9. latch' = latch /\ latch \in [LatchNames -> 0..MaxHandles]
  BY DEF handlerVars, Inv, LatchOpen
<1> QED
  BY <1>1, <1>6, <1>7, <1>8, <1>9, PassStep DEF invoke_next_and, handlerVars

-----------------------------------------------------------------------------
(* Handlers that answer.                                                      *)

LEMMA ReverseProperties ==
  ASSUME NEW S, NEW s \in Seq(S)
  PROVE  /\ Reverse(s) \in Seq(S) /\ Len(Reverse(s)) = Len(s)
         /\ \A i \in 1..Len(s) : Reverse(s)[i] = s[Len(s) - i + 1]
<1>1. Len(s) \in Nat /\ \A i \in 1..Len(s) : s[i] \in S
  BY ElementOfSeq, LenProperties
<1>2. \A i \in 1..Len(s) : (Len(s) - i) + 1 \in 1..Len(s) /\ (Len(s) - i) + 1 = Len(s) - i + 1
  BY <1>1
<1>3. Reverse(s) \in [1..Len(s) -> S]
  BY <1>1, <1>2 DEF Reverse
<1>4. \A n \in Nat : \A r \in [1..n -> S] : r \in Seq(S) /\ Len(r) = n
  OBVIOUS
<1> QED
  BY <1>1, <1>2, <1>3, <1>4 DEF Reverse

LEMMA EndsWith ==
  ASSUME NEW S, NEW p \in Seq(S), NEW name, util_str_ends_with(p, name)
  PROVE  p # <<>> /\ Last(p) = name
<1> DEFINE r == Reverse(p)
           one == <<name>>
           q == Reverse(one)
<1>1. one \in Seq({name}) /\ Len(one) = 1
  BY ShortSeqs
<1>2. q \in Seq({name}) /\ Len(q) = 1 /\ q[1] = name
  <2> HIDE DEF one
  <2>1. q \in Seq({name}) /\ Len(q) = Len(one)
    BY <1>1, ReverseProperties
  <2>2. 1 \in 1..Len(q)
    BY <1>1, <2>1
  <2> HIDE DEF q
  <2>3. q[1] \in {name}
    BY ONLY <2>1, <2>2, ElementOfSeq
  <2> QED
    BY <1>1, <2>1, <2>3
<1>3. r \in Seq(S) /\ Len(r) = Len(p) /\ \A i \in 1..Len(p) : r[i] = p[Len(p) - i + 1]
  BY ReverseProperties
<1>4. Len(q) <= Len(r) /\ SubSeq(q, 1, Len(q)) = SubSeq(r, 1, Len(q))
  BY DEF util_str_ends_with, IsSuffix, IsPrefix
<1> HIDE DEF q, r
<1>5. Len(p) \in Nat \ {0} /\ Len(r) \in Nat
  BY <1>2, <1>3, <1>4, LenProperties
<1>6. \A i \in 1..1 : q[i] \in {name} /\ r[i] \in S
  BY <1>2, <1>3, <1>5, ElementOfSeq
<1>7. SubSeq(q, 1, 1)[1] = q[1] /\ SubSeq(r, 1, 1)[1] = r[1]
  <2>1. \A i \in 1..1 - 1 + 1 : SubSeq(q, 1, 1)[i] = q[1 + i - 1]
    BY ONLY <1>2, <1>6, SubSeqProperties
  <2>2. \A i \in 1..1 - 1 + 1 : SubSeq(r, 1, 1)[i] = r[1 + i - 1]
    BY ONLY <1>3, <1>5, <1>6, SubSeqProperties
  <2> QED
    BY <2>1, <2>2
<1>8. r[1] = p[Len(p)]
  BY <1>3, <1>5
<1> QED
  BY <1>2, <1>4, <1>5, <1>7, <1>8 DEF Last

LEMMA ClaimedFields ==
  ASSUME NEW f \in FrameTypes, NEW result, NEW irp
  PROVE  LET p == Claimed(f, result, irp)
         IN /\ p.fn = f.fn /\ p.asked = f.asked /\ p.irp = irp /\ p.going = "up" /\ p.pc = f.pc
            /\ p.claimed /\ p.result = result
BY DEF FrameTypes, Claimed

LEMMA ClaimKeep ==
  ASSUME Inv, UNCHANGED <<suite, is_creating_file>>, NEW t \in Threads, NEW name, Has(t, name),
         name \notin {"real", "none", "gen"}, NEW result \in Results, NEW irp \in Requests,
         Same(irp, Top(t)), Claims(t, result, irp), RestInv', OnlyOwn(t),
         latch' \in [LatchNames -> 0..MaxHandles],
         \A n \in LatchNames : latch'[n] # 0 => LatchStep(t, n),
         \A h \in 1..MaxHandles : Mine(t, streams, h) => Mine(t, streams', h),
         Top(t).fn = "fopen" /\ result = SUCCESS =>
           irp.path \in {hdd, mounts} /\ (irp.h # 0 => Mine(t, streams', irp.h))
  PROVE  Inv'
<1>1. game \in Games /\ Top(t) \in Frames(game) /\ Turn(game, Top(t), name) /\ IsIn(t)
      /\ Top(t) \in FrameTypes
  BY HasTurn, GameIsGame DEF Inv, Frames
<1>2. PICK f \in Frames(game) : f = Claimed(Top(t), result, irp)
  BY <1>1, ClaimFrame
<1>3. Become(t, f) /\ errno' = errno
  BY <1>2 DEF Claims, Claimed
<1>4. /\ f.fn = Top(t).fn /\ f.asked = Top(t).asked /\ f.irp = irp /\ f.going = "up"
      /\ f.pc = Top(t).pc /\ f.claimed /\ f.result = result
  BY <1>1, <1>2, ClaimedFields
<1>5. Top(t)' = f
  BY <1>1, <1>3, <1>4, BecomesKeep
<1>6. ReturnAt(t)'
  BY <1>4, <1>5 DEF ReturnAt
<1>7. Opened_(t, f)'
  BY <1>4 DEF Opened_, Mine
<1>8. errno' = [errno EXCEPT ![t] = errno'[t]]
  BY <1>3 DEF Inv, RestInv
<1> QED
  BY <1>1, <1>3, <1>4, <1>6, <1>7, <1>8, UpStep

\* Nothing is opened or closed.
LEMMA QuietKeep ==
  ASSUME Inv, UNCHANGED <<suite, is_creating_file, diskVars, latch>>, NEW t \in Threads, NEW name,
         Has(t, name), name \notin {"real", "none", "gen"}, NEW result \in Results,
         NEW irp \in Requests, Same(irp, Top(t)), Claims(t, result, irp),
         hdd_fp' \in 0..HddSize, mount_eof' \in BOOLEAN, Top(t).pc # "closed",
         Top(t).fn = "fopen" => result # SUCCESS
  PROVE  Inv'
<1>1. RestInv'
  BY DEF Claims, Inv, RestInv, HandleTypes, diskVars, RealErrnos
<1>2. OnlyOwn(t) /\ latch' \in [LatchNames -> 0..MaxHandles]
      /\ \A h \in 1..MaxHandles : Mine(t, streams, h) => Mine(t, streams', h)
  BY DEF OnlyOwn, diskVars, Inv, LatchOpen
<1>3. ASSUME NEW n \in LatchNames PROVE LatchStep(t, n)
  BY DEF LatchStep, HandlesFor, Frees, diskVars
<1> QED
  BY <1>1, <1>2, <1>3, ClaimKeep

\* A file that is open for a handler is not one of the closed ones.
LEMMA NotLatched ==
  ASSUME Inv, NEW t \in Threads, IsIn(t), ~Frees(Top(t)), NEW n \in LatchNames, latch[n] # 0,
         HandlesFor(n)[latch[n]].kind = "closed"
  PROVE  FALSE
<1>1. \/ IsFor(n, HandlesFor(n)[latch[n]])
      \/ n = "dog" /\ suite.alone /\ \E w \in Threads : IsIn(w) /\ Frees(Top(w))
  BY DEF Inv, LatchOpen
<1>2. ~(n = "dog" /\ suite.alone /\ \E w \in Threads : IsIn(w) /\ Frees(Top(w)))
  BY OneAlone DEF Inv, ThreadInv
<1>3. latch[n] \in 1..MaxHandles
  BY HandlesAreNumbers DEF Inv, LatchOpen
<1>4. HandlesFor(n)[latch[n]].path = NoPath
  BY <1>3 DEF HandlesFor, Inv, RestInv, HandleTypes
<1>5. \A m : ~util_str_ends_with(NoPath, m)
  <2>1. <<>> \in Seq({})
    BY EmptySeq
  <2> QED
    BY <2>1, EndsWith DEF NoPath
<1>6. n # "closed"
  BY DEF LatchNames, StreamLatches, FdLatches
<1> QED
  BY <1>1, <1>2, <1>4, <1>5, <1>6 DEF IsFor

\* A handle is opened.
LEMMA OpenedHandle ==
  ASSUME NEW handles, HandleTypes(handles), NEW t \in Threads, NEW h \in Free(handles),
         NEW file \in Files, file.owner = t, file.kind # "closed"
  PROVE  /\ h \in 1..MaxHandles /\ HandleTypes([handles EXCEPT ![h] = file])
         /\ handles[h].owner = "none" /\ handles[h].kind = "closed"
BY ThreadsOwn DEF HandleTypes, Free

LEMMA LowestIsFree ==
  ASSUME NEW handles, NEW h \in Lowest(handles) PROVE h = 0 \/ h \in Free(handles)
BY DEF Lowest

LEMMA OpenFileKeep ==
  ASSUME Inv, UNCHANGED <<suite, is_creating_file, hdd_fp>>, mount_eof' \in BOOLEAN,
         NEW t \in Threads, NEW name, Has(t, name), name \notin {"real", "none", "gen"},
         NEW latched \in {"hdd_file", "mounts"}, Listed(latched), Top(t).pc # "closed",
         open_dummy_file_handle(t, latched),
         Top(t).fn = "fopen" => Top(t).irp.path \in {hdd, mounts}
  PROVE  Inv'
<1>1. game \in Games /\ Top(t) \in Frames(game) /\ IsIn(t) /\ Top(t) \in FrameTypes
      /\ Top(t).irp \in Requests
  BY HasTurn, GameIsGame, FrameParts DEF Inv, Frames
<1>2. PICK h \in Lowest(streams) :
        /\ Answers(t, [Top(t).irp EXCEPT !.h = h, !.stream = h])
        /\ latch' = [latch EXCEPT ![latched] = h]
        /\ streams' = IF h = 0 THEN streams ELSE [streams EXCEPT ![h] = Opened(t, latched, Irp)]
        /\ UNCHANGED <<tree, fds>>
  BY Zenon DEF open_dummy_file_handle
<1>3. h = 0 \/ h \in Free(streams)
  BY LowestIsFree
<1> DEFINE irp == [Top(t).irp EXCEPT !.h = h, !.stream = h]
           file == Opened(t, latched, Irp)
<1>4. HandleTypes(streams) /\ h \in 0..MaxHandles /\ h \in Int
  BY <1>3, HandlesAreNumbers DEF Free, Inv, RestInv, HandleTypes
<1>5. file \in Files /\ file.owner = t /\ file.kind = latched
  <2>1. NoPath \in Paths
    BY EmptySeq DEF NoPath, Paths
  <2> QED
    BY <1>1, <2>1 DEF Opened, Irp, Files, Modes, FrameTypes
<1>6. irp \in Requests /\ Same(irp, Top(t)) /\ irp.h = h /\ irp.path = Top(t).irp.path
  BY <1>1, <1>4 DEF Requests, Same
<1> HIDE DEF irp, file
<1>7. /\ HandleTypes(streams')
      /\ h # 0 => /\ h \in 1..MaxHandles /\ streams[h].owner = "none" /\ streams[h].kind = "closed"
                  /\ streams' = [streams EXCEPT ![h] = file] /\ streams'[h] = file
  <2>1. CASE h = 0
    BY <1>2, <1>4, <2>1
  <2>2. CASE h # 0
    <3>1. /\ h \in 1..MaxHandles /\ HandleTypes([streams EXCEPT ![h] = file])
          /\ streams[h].owner = "none" /\ streams[h].kind = "closed"
      BY <1>3, <1>4, <1>5, <2>2, OpenedHandle
    <3> QED
      BY <1>2, <1>4, <2>2, <3>1 DEF file, HandleTypes
  <2> QED
    BY <2>1, <2>2
<1>8. RestInv'
  BY <1>2, <1>7 DEF Answers, Claims, Inv, RestInv, HandleTypes, RealErrnos
<1>9. OnlyOwn(t) /\ latch' \in [LatchNames -> 0..MaxHandles]
  <2>1. \A k \in 1..MaxHandles : streams'[k] = streams[k] \/ streams[k].owner = "none"
    BY <1>2, <1>4, <1>7 DEF HandleTypes
  <2> QED
    BY <1>2, <1>4, <2>1 DEF OnlyOwn, Inv, LatchOpen
<1>10. ASSUME NEW k \in 1..MaxHandles, Mine(t, streams, k) PROVE Mine(t, streams', k)
  BY <1>2, <1>4, <1>5, <1>7, <1>10 DEF Mine, HandleTypes
<1>11. ASSUME NEW n \in LatchNames, latch'[n] # 0 PROVE LatchStep(t, n)
  <2>1. CASE n = latched
    <3>1. latch'[n] = h /\ h # 0 /\ n \in StreamLatches /\ n # "dog"
      BY <1>2, <1>11, <2>1 DEF Inv, LatchOpen, StreamLatches
    <3>2. IsFor(n, streams'[h])
      BY <1>5, <1>7, <2>1, <3>1 DEF IsFor
    <3> QED
      BY <1>1, <1>7, <2>1, <3>1, <3>2 DEF LatchStep, HandlesFor
  <2>2. CASE n # latched
    <3>1. latch'[n] = latch[n]
      BY <1>2, <2>2 DEF Inv, LatchOpen
    <3>2. HandlesFor(n)'[latch[n]] = HandlesFor(n)[latch[n]]
      <4>1. CASE n \notin StreamLatches
        BY <1>2, <4>1 DEF HandlesFor
      <4>2. CASE n \in StreamLatches
        <5>1. h # 0 => latch[n] # h
          BY <1>1, <1>7, <1>11, <3>1, <4>2, NotLatched DEF HandlesFor, Frees
        <5> QED
          BY <1>2, <1>7, <4>2, <5>1 DEF HandlesFor, Inv, RestInv, HandleTypes
      <4> QED
        BY <4>1, <4>2
    <3> QED
      BY <3>1, <3>2 DEF LatchStep, Frees
  <2> QED
    BY <2>1, <2>2
<1>12. SUCCESS \in Results
  BY DEF Results
<1>13. irp.h # 0 => Mine(t, streams', irp.h)
  BY <1>5, <1>6, <1>7 DEF Mine
<1>14. Claims(t, SUCCESS, irp)
  BY <1>2 DEF Answers, irp
<1> QED
  BY <1>6, <1>8, <1>9, <1>10, <1>11, <1>12, <1>13, <1>14, ClaimKeep

LEMMA OpenFdKeep ==
  ASSUME Inv, UNCHANGED <<suite, is_creating_file, hdd_fp, mount_eof>>,
         NEW t \in Threads, NEW name, Has(t, name), name \notin {"real", "none", "gen"},
         NEW latched \in {"hdd_fd", "dog"}, Listed(latched), latched = "dog" => suite.alone,
         Top(t).pc # "closed", open_dummy_fd(t, latched), Top(t).fn # "fopen"
  PROVE  Inv'
<1>1. game \in Games /\ Top(t) \in Frames(game) /\ IsIn(t) /\ Top(t) \in FrameTypes
      /\ Top(t).irp \in Requests
  BY HasTurn, GameIsGame, FrameParts DEF Inv, Frames
<1>2. PICK h \in Lowest(fds) :
        /\ Answers(t, [Top(t).irp EXCEPT !.h = h])
        /\ latch' = [latch EXCEPT ![latched] = h]
        /\ fds' = IF h = 0 THEN fds ELSE [fds EXCEPT ![h] = Opened(t, latched, Irp)]
        /\ UNCHANGED <<tree, streams>>
  BY Zenon DEF open_dummy_fd
<1>3. h = 0 \/ h \in Free(fds)
  BY LowestIsFree
<1> DEFINE irp == [Top(t).irp EXCEPT !.h = h]
           file == Opened(t, latched, Irp)
<1>4. HandleTypes(fds) /\ h \in 0..MaxHandles /\ h \in Int
  BY <1>3, HandlesAreNumbers DEF Free, Inv, RestInv, HandleTypes
<1>5. file \in Files /\ file.owner = t /\ file.kind = latched
  <2>1. NoPath \in Paths
    BY EmptySeq DEF NoPath, Paths
  <2> QED
    BY <1>1, <2>1 DEF Opened, Irp, Files, Modes, FrameTypes
<1>6. irp \in Requests /\ Same(irp, Top(t))
  BY <1>1, <1>4 DEF Requests, Same
<1> HIDE DEF irp, file
<1>7. /\ HandleTypes(fds')
      /\ h # 0 => /\ h \in 1..MaxHandles /\ fds[h].owner = "none" /\ fds[h].kind = "closed"
                  /\ fds' = [fds EXCEPT ![h] = file] /\ fds'[h] = file
  <2>1. CASE h = 0
    BY <1>2, <1>4, <2>1
  <2>2. CASE h # 0
    <3>1. /\ h \in 1..MaxHandles /\ HandleTypes([fds EXCEPT ![h] = file])
          /\ fds[h].owner = "none" /\ fds[h].kind = "closed"
      BY <1>3, <1>4, <1>5, <2>2, OpenedHandle
    <3> QED
      BY <1>2, <1>4, <2>2, <3>1 DEF file, HandleTypes
  <2> QED
    BY <2>1, <2>2
<1>8. RestInv'
  BY <1>2, <1>7 DEF Answers, Claims, Inv, RestInv, HandleTypes, RealErrnos
<1>9. OnlyOwn(t) /\ latch' \in [LatchNames -> 0..MaxHandles]
  <2>1. \A k \in 1..MaxHandles : fds'[k] = fds[k] \/ fds[k].owner = "none"
    BY <1>2, <1>4, <1>7 DEF HandleTypes
  <2> QED
    BY <1>2, <1>4, <2>1 DEF OnlyOwn, Inv, LatchOpen
<1>10. \A k \in 1..MaxHandles : Mine(t, streams, k) => Mine(t, streams', k)
  BY <1>2
<1>11. ASSUME NEW n \in LatchNames, latch'[n] # 0 PROVE LatchStep(t, n)
  <2>1. CASE n = latched
    <3>1. latch'[n] = h /\ h # 0 /\ n \notin StreamLatches
      BY <1>2, <1>11, <2>1 DEF Inv, LatchOpen, StreamLatches
    <3>2. IsFor(n, fds'[h])
      BY <1>5, <1>7, <2>1, <3>1 DEF IsFor
    <3> QED
      BY <1>1, <1>7, <2>1, <3>1, <3>2 DEF LatchStep, HandlesFor
  <2>2. CASE n # latched
    <3>1. latch'[n] = latch[n]
      BY <1>2, <2>2 DEF Inv, LatchOpen
    <3>2. HandlesFor(n)'[latch[n]] = HandlesFor(n)[latch[n]]
      <4>1. CASE n \in StreamLatches
        BY <1>2, <4>1 DEF HandlesFor
      <4>2. CASE n \notin StreamLatches
        <5>1. h # 0 => latch[n] # h
          BY <1>1, <1>7, <1>11, <3>1, <4>2, NotLatched DEF HandlesFor, Frees
        <5> QED
          BY <1>2, <1>7, <4>2, <5>1 DEF HandlesFor, Inv, RestInv, HandleTypes
      <4> QED
        BY <4>1, <4>2
    <3> QED
      BY <3>1, <3>2 DEF LatchStep, Frees
  <2> QED
    BY <2>1, <2>2
<1>12. SUCCESS \in Results
  BY DEF Results
<1>13. Claims(t, SUCCESS, irp)
  BY <1>2 DEF Answers, irp
<1> QED
  BY <1>6, <1>8, <1>9, <1>10, <1>11, <1>12, <1>13, ClaimKeep

LEMMA OpsOfFns ==
  ASSUME NEW fn \in Fns
  PROVE  /\ hooked[fn].op # "OPEN" => fn \notin {"fopen", "open"}
         /\ hooked[fn].op # "CLOSE" => fn \notin {"fclose", "close"}
         /\ hooked[fn].chain = "file" => fn \notin {"open", "close"}
         /\ hooked[fn].chain # "file" => fn \notin {"fopen", "fclose"}
         /\ hooked[fn].chain = "fs" => fn \notin {"fopen", "fclose", "open", "close"}
BY DEF hooked, F, fopen, fclose, open, close

LEMMA StubsKeep ==
  ASSUME Inv, UNCHANGED suite, NEW t \in Threads, NEW name, Has(t, name),
         name \notin {"real", "none", "gen"}, NEW irp \in Requests, Same(irp, Top(t)),
         Stubs(t, irp), Top(t).pc # "closed", Top(t).fn # "fopen"
  PROVE  Inv'
<1>1. SUCCESS \in Results /\ hdd_fp' \in 0..HddSize /\ mount_eof' \in BOOLEAN
  BY DEF Results, Stubs, handlerVars, Inv, RestInv
<1> QED
  BY <1>1, QuietKeep DEF Stubs, handlerVars, Answers

LEMMA MonitorsKeep ==
  ASSUME Inv, UNCHANGED suite, NEW t \in Threads, NEW name \in {"mon", "open_mon"}, Has(t, name),
         Passes(t)
  PROVE  Inv'
<1>1. \A n \in LatchesOf(Top(t)) : HandlerOf(n) # name
  BY DEF LatchesOf, HandlerOf, StreamLatches, FdLatches
<1> QED
  BY <1>1, PassesKeep

LEMMA HidesKeep ==
  ASSUME Inv, UNCHANGED suite, NEW t \in Threads, NEW name \in {"ram_wipe", "usb_updates"},
         Has(t, name),
         \/ Claims(t, "NO_SUCH_FILE_OR_DIR", Top(t).irp) /\ UNCHANGED <<diskVars, handlerVars>>
         \/ Passes(t)
  PROVE  Inv'
<1>1. CASE Passes(t)
  <2>1. \A n \in LatchesOf(Top(t)) : HandlerOf(n) # name
    BY DEF LatchesOf, HandlerOf, StreamLatches, FdLatches
  <2> QED
    BY <1>1, <2>1, PassesKeep
<1>2. CASE Claims(t, "NO_SUCH_FILE_OR_DIR", Top(t).irp) /\ UNCHANGED <<diskVars, handlerVars>>
  <2>1. Top(t).irp \in Requests /\ Top(t).pc # "closed"
    BY HasTurn, FrameParts, OnlyDogFrees DEF Inv
  <2>2. "NO_SUCH_FILE_OR_DIR" \in Results /\ "NO_SUCH_FILE_OR_DIR" # SUCCESS
    BY DEF Results, SUCCESS
  <2>3. hdd_fp' \in 0..HddSize /\ mount_eof' \in BOOLEAN
    BY <1>2 DEF handlerVars, Inv, RestInv
  <2> QED
    BY <1>2, <2>1, <2>2, <2>3, QuietKeep DEF handlerVars, Same
<1> QED
  BY <1>1, <1>2

\* The position in the faked disk.
LEMMA ReadInside ==
  ASSUME NEW fp \in 0..HddSize, NEW irp \in Requests
  PROVE  readable(fp, nbytes(irp)) \in Nat /\ fp + readable(fp, nbytes(irp)) \in 0..HddSize
<1>1. nbytes(irp) \in Nat
  BY DEF nbytes, Requests
<1> QED
  BY <1>1, DiskIsLarge DEF readable

LEMMA SoughtInside ==
  ASSUME NEW fp \in 0..HddSize, NEW irp \in Requests,
         \/ irp.whence = "SET" /\ irp.off \in 0..HddSize
         \/ irp.whence = "CUR" /\ irp.off = 0
         \/ irp.whence = "END" /\ irp.off \in -HddSize..0
  PROVE  Sought(irp, fp) \in 0..HddSize
BY DiskIsLarge DEF Sought, Requests

LEMMA HddReadKeep ==
  ASSUME Inv, UNCHANGED suite, NEW t \in Threads, Has(t, "hdd"), hddRead(t, Top(t).irp),
         Top(t).fn # "fopen"
  PROVE  Inv'
<1>1. Top(t).irp \in Requests /\ Top(t).pc # "closed"
  BY HasTurn, FrameParts, OnlyDogFrees DEF Inv
<1> DEFINE len == readable(hdd_fp, nbytes(Top(t).irp))
           irp == [Top(t).irp EXCEPT !.pos = len]
<1>2. len \in Nat /\ hdd_fp + len \in 0..HddSize
  BY <1>1, ReadInside DEF Inv, RestInv
<1>3. hdd_fp' = hdd_fp + len /\ Claims(t, SUCCESS, irp)
      /\ UNCHANGED <<diskVars, latch, mount_eof, is_creating_file>>
  BY DEF hddRead, Answers
<1> HIDE DEF len
<1>4. irp \in Requests /\ Same(irp, Top(t))
  BY <1>1, <1>2 DEF Requests, Same
<1>5. SUCCESS \in Results /\ mount_eof' \in BOOLEAN
  BY <1>3 DEF Results, Inv, RestInv
<1> HIDE DEF irp
<1> QED
  BY <1>1, <1>2, <1>3, <1>4, <1>5, QuietKeep

LEMMA HddSeekKeep ==
  ASSUME Inv, UNCHANGED suite, NEW t \in Threads, Has(t, "hdd"), NEW asked,
         hddSeek(t, Top(t).irp, asked), Sought(asked, hdd_fp) \in 0..HddSize, Top(t).fn # "fopen"
  PROVE  Inv'
<1>1. Top(t).irp \in Requests /\ Top(t).pc # "closed"
  BY HasTurn, FrameParts, OnlyDogFrees DEF Inv
<1> DEFINE off == Sought(asked, hdd_fp)
           irp == [Top(t).irp EXCEPT !.off = off]
<1>2. hdd_fp' = off /\ Claims(t, SUCCESS, irp)
      /\ UNCHANGED <<diskVars, latch, mount_eof, is_creating_file>>
  BY DEF hddSeek, Answers
<1>3. off \in 0..HddSize /\ off \in Int
  BY DiskIsLarge
<1> HIDE DEF off
<1>4. irp \in Requests /\ Same(irp, Top(t))
  BY <1>1, <1>3 DEF Requests, Same
<1>5. SUCCESS \in Results /\ mount_eof' \in BOOLEAN
  BY <1>2 DEF Results, Inv, RestInv
<1> HIDE DEF irp
<1> QED
  BY <1>1, <1>2, <1>3, <1>4, <1>5, QuietKeep

\* The handler that has a call of a chain is listed there.
LEMMA TurnIsListed ==
  ASSUME Inv, NEW t \in Threads, NEW name, Has(t, name), name \notin {"real", "none"}
  PROVE  /\ Chain(t) = "file" => \E k \in DOMAIN file_handlers[game] : file_handlers[game][k] = name
         /\ Chain(t) = "io" => \E k \in DOMAIN io_handlers[game] : io_handlers[game][k] = name
<1>1. /\ IsIn(t) /\ Top(t) \in Frames(game) /\ game \in Games /\ Turn(game, Top(t), name)
      /\ Top(t).fn \in Fns
  BY HasTurn, GameIsGame, FrameParts DEF Inv
<1>2. IsList(HandlersOf(game, Top(t).fn), RedirAt(game))
  BY <1>1, HandlerLists
<1>3. Chain(t) = "file" => HandlersOf(game, Top(t).fn) = file_handlers[game]
  BY DEF Chain, HandlersOf
<1>4. Chain(t) = "io" => HandlersOf(game, Top(t).fn) = io_handlers[game]
  BY DEF Chain, HandlersOf
<1> QED
  BY <1>1, <1>2, <1>3, <1>4 DEF Turn, IsList

LEMMA HddFileStep ==
  ASSUME Inv, UNCHANGED suite, NEW t \in Threads, patch_hdd_check_filehook(t)
  PROVE  Inv'
<1> DEFINE irp == Top(t).irp
           faked == IF irp.off \in DOMAIN FakedOffsets
                    THEN [irp EXCEPT !.off = FakedOffsets[@], !.whence = "SET"] ELSE irp
<1>1. Has(t, "hdd") /\ Chain(t) = "file" /\ game \in Games /\ Top(t) \in Frames(game) /\ IsIn(t)
      /\ irp \in Requests /\ Top(t).pc # "closed" /\ Top(t).fn \in Fns /\ Top(t).going = "down"
  BY HasTurn, GameIsGame, FrameParts, OnlyDogFrees DEF Inv, patch_hdd_check_filehook
<1>2. LatchesOf(Top(t)) = StreamLatches /\ Op(t) = hooked[Top(t).fn].op
  BY <1>1 DEF LatchesOf, Chain, Op
<1>3. \A n \in StreamLatches : HandlerOf(n) = "hdd" <=> n = "hdd_file"
  BY DEF StreamLatches, HandlerOf
<1>4. Op(t) # "OPEN" => Top(t).fn # "fopen"
  BY <1>1, <1>2, OpsOfFns
<1>5. CASE Opens(t, hdd) /\ open_dummy_file_handle(t, "hdd_file")
           /\ UNCHANGED <<hdd_fp, mount_eof, is_creating_file>>
  <2>1. Listed("hdd_file")
    BY <1>1, TurnIsListed DEF Listed, StreamLatches, HandlerOf
  <2>2. mount_eof' \in BOOLEAN /\ irp.path = hdd
    BY <1>5 DEF Inv, RestInv, Opens
  <2> QED
    BY <1>1, <1>5, <2>1, <2>2, OpenFileKeep
<1>6. CASE /\ Op(t) = "OPEN" \/ latch["hdd_file"] = 0 \/ irp.h # latch["hdd_file"]
           /\ Passes(t)
  <2>1. ASSUME NEW n \in LatchesOf(Top(t)), Closes(Top(t)), latch[n] = irp.h
        PROVE  HandlerOf(n) # "hdd"
    <3>1. Op(t) # "OPEN"
      BY <1>1, <1>2, <2>1 DEF Closes, hooked, F, fclose, close
    <3>2. irp.h # 0
      BY <1>1, <2>1, ClosesOwn
    <3> QED
      BY <1>2, <1>3, <1>6, <2>1, <3>1, <3>2
  <2> QED
    BY <1>1, <1>6, <2>1, PassesKeep
<1>7. CASE Op(t) = "READ" /\ hddRead(t, irp)
  BY <1>1, <1>4, <1>7, HddReadKeep
<1>8. CASE Op(t) = "SEEK" /\ hddSeek(t, irp, faked)
  <2>1. SeeksInside(Top(t).fn, irp)
    BY <1>1, <1>2, <1>8 DEF Frames, IsUntouched
  <2>2. Sought(faked, hdd_fp) \in 0..HddSize
    <3>1. CASE irp.off \in DOMAIN FakedOffsets
      <4>1. FakedOffsets[irp.off] \in 0..HddSize
        BY <3>1, DiskIsLarge DEF FakedOffsets
      <4>2. faked.whence = "SET" /\ faked.off = FakedOffsets[irp.off]
        BY <1>1, <3>1 DEF Requests
      <4> QED
        BY <4>1, <4>2 DEF Sought
    <3>2. CASE irp.off \notin DOMAIN FakedOffsets
      <4>1. faked = irp
        BY <3>2
      <4>2. hdd_fp \in 0..HddSize
        BY DEF Inv, RestInv
      <4> HIDE DEF irp, faked
      <4> QED
        BY <1>1, <2>1, <3>2, <4>1, <4>2, SoughtInside DEF SeeksInside
    <3> QED
      BY <3>1, <3>2
  <2> QED
    BY <1>1, <1>4, <1>8, <2>2, HddSeekKeep
<1>9. CASE Op(t) = "CLOSE" /\ clears(t, "hdd_file")
  BY <1>1, <1>2, <1>3, <1>9, ClearsKeep DEF LatchNames, StreamLatches
<1>10. CASE Op(t) = "TELL" /\ Stubs(t, [irp EXCEPT !.off = 0])
  <2>1. [irp EXCEPT !.off = 0] \in Requests /\ Same([irp EXCEPT !.off = 0], Top(t))
    BY <1>1 DEF Requests, Same
  <2> QED
    BY <1>1, <1>4, <1>10, <2>1, StubsKeep
<1>11. CASE Op(t) \in {"WRITE", "FGETS", "EOF"} /\ Stubs(t, irp)
  BY <1>1, <1>4, <1>11, StubsKeep DEF Same
<1> QED
  BY <1>5, <1>6, <1>7, <1>8, <1>9, <1>10, <1>11 DEF patch_hdd_check_filehook

LEMMA HddFdStep ==
  ASSUME Inv, UNCHANGED suite, NEW t \in Threads, patch_hdd_check_iohook(t)
  PROVE  Inv'
<1> DEFINE irp == Top(t).irp
<1>1. Has(t, "hdd") /\ Chain(t) = "io" /\ game \in Games /\ Top(t) \in Frames(game) /\ IsIn(t)
      /\ irp \in Requests /\ Top(t).pc # "closed" /\ Top(t).fn \in Fns /\ Top(t).going = "down"
  BY HasTurn, GameIsGame, FrameParts, OnlyDogFrees DEF Inv, patch_hdd_check_iohook
<1>2. LatchesOf(Top(t)) = FdLatches /\ Op(t) = hooked[Top(t).fn].op
  BY <1>1 DEF LatchesOf, Chain, Op
<1>3. \A n \in FdLatches : HandlerOf(n) = "hdd" <=> n = "hdd_fd"
  BY DEF FdLatches, HandlerOf
<1>4. Top(t).fn # "fopen"
  BY <1>1, OpsOfFns DEF Chain
<1>5. CASE Opens(t, hdd) /\ open_dummy_fd(t, "hdd_fd")
           /\ UNCHANGED <<hdd_fp, mount_eof, is_creating_file>>
  <2>1. Listed("hdd_fd")
    BY <1>1, TurnIsListed DEF Listed, StreamLatches, HandlerOf
  <2> QED
    BY <1>1, <1>4, <1>5, <2>1, OpenFdKeep
<1>6. CASE (Op(t) = "OPEN" \/ irp.h # latch["hdd_fd"]) /\ Passes(t)
  <2>1. ASSUME NEW n \in LatchesOf(Top(t)), Closes(Top(t)), latch[n] = irp.h
        PROVE  HandlerOf(n) # "hdd"
    <3>1. Op(t) # "OPEN"
      BY <1>1, <1>2, <2>1 DEF Closes, hooked, F, fclose, close
    <3> QED
      BY <1>2, <1>3, <1>6, <2>1, <3>1
  <2> QED
    BY <1>1, <1>6, <2>1, PassesKeep
<1>7. CASE /\ Op(t) = "FDOPEN" /\ open_dummy_file_handle(t, "hdd_file")
           /\ UNCHANGED <<hdd_fp, mount_eof, is_creating_file>>
  <2>1. Listed("hdd_file")
    <3>1. \E k \in DOMAIN io_handlers[game] : io_handlers[game][k] = "hdd"
      BY <1>1, TurnIsListed
    <3>2. \E k \in DOMAIN file_handlers[game] : file_handlers[game][k] = "hdd"
      <4>1. CASE game = "x2"
        BY <3>1, <4>1 DEF io_handlers
      <4>2. CASE game = "zero"
        BY <4>2 DEF file_handlers
      <4>3. CASE game = "nx"
        BY <4>3 DEF file_handlers
      <4>4. CASE game = "nx2"
        BY <4>4 DEF file_handlers
      <4>5. CASE game = "nxa"
        BY <4>5 DEF file_handlers
      <4>6. CASE game = "pri"
        BY <4>6 DEF file_handlers
      <4> QED
        BY <1>1, <4>1, <4>2, <4>3, <4>4, <4>5, <4>6, GamesListed
    <3> QED
      BY <3>2 DEF Listed, StreamLatches, HandlerOf
  <2>2. mount_eof' \in BOOLEAN
    BY <1>7 DEF Inv, RestInv
  <2> QED
    BY <1>1, <1>4, <1>7, <2>1, <2>2, OpenFileKeep
<1>8. CASE Op(t) = "READ" /\ hddRead(t, irp)
  BY <1>1, <1>4, <1>8, HddReadKeep
<1>9. CASE Op(t) = "SEEK" /\ hddSeek(t, irp, irp)
  <2>1. SeeksInside(Top(t).fn, irp) /\ hooked[Top(t).fn].chain # "file"
    BY <1>1, <1>2, <1>9 DEF Frames, IsUntouched, Chain
  <2>2. Sought(irp, hdd_fp) \in 0..HddSize
    <3>1. hdd_fp \in 0..HddSize
      BY DEF Inv, RestInv
    <3> HIDE DEF irp
    <3> QED
      BY <1>1, <2>1, <3>1, SoughtInside DEF SeeksInside
  <2> QED
    BY <1>1, <1>4, <1>9, <2>2, HddSeekKeep
<1>10. CASE Op(t) = "CLOSE" /\ clears(t, "hdd_fd")
  BY <1>1, <1>2, <1>3, <1>10, ClearsKeep DEF LatchNames, FdLatches
<1>11. CASE Op(t) \in {"WRITE", "IOCTL"} /\ Stubs(t, irp)
  BY <1>1, <1>4, <1>11, StubsKeep DEF Same
<1> QED
  BY <1>5, <1>6, <1>7, <1>8, <1>9, <1>10, <1>11 DEF patch_hdd_check_iohook

\* Which chain a handler is in, and that it is behind the redirections.
HasName(list, name) == \E k \in 1..Len(list) : list[k] = name

LEMMA WhoIsWhere ==
  ASSUME NEW g \in Games
  PROVE  /\ ~HasName(io_handlers[g], "mounts") /\ ~HasName(io_handlers[g], "gen")
         /\ ~HasName(file_handlers[g], "dog34")
         /\ \A name \in {"mounts", "gen", "dog34"} : ~HasName(fs_handlers[g], name)
<1>1. CASE g = "x2"
  BY <1>1 DEF HasName, io_handlers, file_handlers, fs_handlers
<1>2. CASE g = "zero"
  BY <1>2 DEF HasName, io_handlers, file_handlers, fs_handlers
<1>3. CASE g = "nx"
  BY <1>3 DEF HasName, io_handlers, file_handlers, fs_handlers
<1>4. CASE g = "nx2"
  BY <1>4 DEF HasName, io_handlers, file_handlers, fs_handlers
<1>5. CASE g = "nxa"
  BY <1>5 DEF HasName, io_handlers, file_handlers, fs_handlers
<1>6. CASE g = "pri"
  BY <1>6 DEF HasName, io_handlers, file_handlers, fs_handlers
<1> QED
  BY <1>1, <1>2, <1>3, <1>4, <1>5, <1>6, GamesListed

LEMMA TurnIsWhere ==
  ASSUME NEW g \in Games, NEW f \in Frames(g), NEW name, Turn(g, f, name)
  PROVE  /\ name \in {"mounts", "gen"} => hooked[f.fn].chain = "file"
         /\ name = "dog34" => hooked[f.fn].chain = "io"
         /\ name \notin {"redir", "mon", "open_mon"} => f.next_handler > RedirAt(g)
<1>1. f.fn \in Fns /\ f.next_handler \in Nat
  BY FrameParts
<1>2. IsList(HandlersOf(g, f.fn), RedirAt(g)) /\ HasName(HandlersOf(g, f.fn), name)
  BY <1>1, HandlerLists DEF Turn, HasName
<1>3. HandlersOf(g, f.fn) = CASE hooked[f.fn].chain = "file" -> file_handlers[g]
                              [] hooked[f.fn].chain = "io" -> io_handlers[g]
                              [] hooked[f.fn].chain = "fs" -> fs_handlers[g]
  BY DEF HandlersOf
<1>4. hooked[f.fn].chain \in {"file", "io", "fs"}
  BY <1>1, HookedTable
<1>5. name \notin {"redir", "mon", "open_mon"} => f.next_handler > RedirAt(g)
  BY <1>1, <1>2 DEF IsList, Turn, RedirAt
<1> QED
  BY <1>2, <1>3, <1>4, <1>5, WhoIsWhere

LEMMA MountsStep ==
  ASSUME Inv, UNCHANGED suite, NEW t \in Threads, patch_mounts_filehook(t)
  PROVE  Inv'
<1> DEFINE irp == Top(t).irp
<1>1. Has(t, "mounts") /\ game \in Games /\ Top(t) \in Frames(game) /\ IsIn(t)
      /\ irp \in Requests /\ Top(t).pc # "closed" /\ Top(t).fn \in Fns /\ Top(t).going = "down"
      /\ Turn(game, Top(t), "mounts")
  BY HasTurn, GameIsGame, FrameParts, OnlyDogFrees DEF Inv, patch_mounts_filehook
<1>2. LatchesOf(Top(t)) = StreamLatches /\ Op(t) = hooked[Top(t).fn].op /\ Chain(t) = "file"
  BY <1>1, TurnIsWhere DEF LatchesOf, Chain, Op
<1>3. \A n \in StreamLatches : HandlerOf(n) = "mounts" <=> n = "mounts"
  BY DEF StreamLatches, HandlerOf
<1>4. Op(t) # "OPEN" => Top(t).fn # "fopen"
  BY <1>1, <1>2, OpsOfFns
<1>5. CASE /\ Opens(t, mounts) /\ open_dummy_file_handle(t, "mounts") /\ mount_eof' = FALSE
           /\ UNCHANGED <<hdd_fp, is_creating_file>>
  <2>1. Listed("mounts")
    BY <1>1, <1>2, TurnIsListed DEF Listed, StreamLatches, HandlerOf
  <2>2. mount_eof' \in BOOLEAN /\ irp.path = mounts
    BY <1>5 DEF Opens
  <2> QED
    BY <1>1, <1>5, <2>1, <2>2, OpenFileKeep
<1>6. CASE (Op(t) = "OPEN" \/ irp.h # latch["mounts"]) /\ Passes(t)
  <2>1. ASSUME NEW n \in LatchesOf(Top(t)), Closes(Top(t)), latch[n] = irp.h
        PROVE  HandlerOf(n) # "mounts"
    <3>1. Op(t) # "OPEN"
      BY <1>1, <1>2, <2>1 DEF Closes, hooked, F, fclose, close
    <3> QED
      BY <1>2, <1>3, <1>6, <2>1, <3>1
  <2> QED
    BY <1>1, <1>6, <2>1, PassesKeep
<1>7. CASE /\ Op(t) = "FGETS" /\ Answers(t, [irp EXCEPT !.pos = @ + MountsSize])
           /\ mount_eof' = TRUE /\ UNCHANGED <<diskVars, latch, hdd_fp, is_creating_file>>
  <2>1. PICK r \in Requests : Same(r, Top(t)) /\ Claims(t, SUCCESS, r)
    <3>1. [irp EXCEPT !.pos = @ + MountsSize] \in Requests
          /\ Same([irp EXCEPT !.pos = @ + MountsSize], Top(t))
      BY <1>1 DEF Requests, Same, MountsSize
    <3> QED
      BY <1>7, <3>1 DEF Answers
  <2>2. SUCCESS \in Results /\ mount_eof' \in BOOLEAN /\ hdd_fp' \in 0..HddSize
    BY <1>7 DEF Results, Inv, RestInv
  <2> QED
    BY <1>1, <1>4, <1>7, <2>1, <2>2, QuietKeep
<1>8. CASE Op(t) = "TELL" /\ Stubs(t, [irp EXCEPT !.off = MountsSize])
  <2>1. [irp EXCEPT !.off = MountsSize] \in Requests
        /\ Same([irp EXCEPT !.off = MountsSize], Top(t))
    BY <1>1 DEF Requests, Same, MountsSize
  <2> QED
    BY <1>1, <1>4, <1>8, <2>1, StubsKeep
<1>9. CASE Op(t) = "EOF" /\ Stubs(t, [irp EXCEPT !.eof = IF mount_eof THEN 1 ELSE 0])
  <2>1. [irp EXCEPT !.eof = IF mount_eof THEN 1 ELSE 0] \in Requests
        /\ Same([irp EXCEPT !.eof = IF mount_eof THEN 1 ELSE 0], Top(t))
    BY <1>1 DEF Requests, Same
  <2> QED
    BY <1>1, <1>4, <1>9, <2>1, StubsKeep
<1>10. CASE Op(t) = "CLOSE" /\ clears(t, "mounts")
  BY <1>1, <1>2, <1>3, <1>10, ClearsKeep DEF LatchNames, StreamLatches
<1>11. CASE Op(t) \in {"SEEK", "READ", "WRITE"} /\ Stubs(t, irp)
  BY <1>1, <1>4, <1>11, StubsKeep DEF Same
<1> QED
  BY <1>5, <1>6, <1>7, <1>8, <1>9, <1>10, <1>11 DEF patch_mounts_filehook

LEMMA UnlocksStep ==
  ASSUME Inv, UNCHANGED suite, NEW t \in Threads, Unlocks(t)
  PROVE  Inv'
<1>1. Has(t, "unlock") /\ game \in Games /\ Top(t) \in Frames(game) /\ IsIn(t)
      /\ Top(t).fn \in Fns /\ Op(t) = hooked[Top(t).fn].op
  BY HasTurn, GameIsGame, FrameParts DEF Inv, Unlocks, Op
<1>2. \A n \in LatchesOf(Top(t)) : HandlerOf(n) = "unlock" <=> n = "settings"
  BY DEF LatchesOf, StreamLatches, FdLatches, HandlerOf
<1>3. CASE Op(t) \in {"OPEN", "READ"} /\ invoke_next_and(t, "unlock") /\ UNCHANGED handlerVars
  BY <1>1, <1>3, WaitKeeps
<1>4. CASE clears(t, "settings")
  <2>1. HandlerOf("settings") = "unlock" /\ "settings" \in LatchNames \ {"dog"}
    BY DEF HandlerOf, LatchNames, StreamLatches
  <2> QED
    BY <1>1, <1>2, <1>4, <2>1, ClearsKeep
<1>5. CASE (Concerns(t, "settings", Top(t).irp) => Op(t) \notin {"OPEN", "READ", "CLOSE"})
           /\ Passes(t)
  <2>1. Closes(Top(t)) => Op(t) = "CLOSE"
    BY <1>1 DEF Closes, hooked, F, fclose, close
  <2>2. \A n \in LatchesOf(Top(t)) :
          Closes(Top(t)) /\ latch[n] = Top(t).irp.h => HandlerOf(n) # "unlock"
    BY <1>2, <1>5, <2>1 DEF Concerns
  <2> QED
    BY <1>1, <1>5, <2>2, PassesKeep
<1> QED
  BY <1>3, <1>4, <1>5 DEF Unlocks

\* The first step of closing the descriptor of the dongle.
Frozen(f) == [f EXCEPT !.pc = "closed"]

LEMMA FrozenFrame ==
  ASSUME NEW g, NEW f \in Frames(g), f.fn = "close", Turn(g, f, "dog34")
  PROVE  /\ Frozen(f) \in Frames(g) /\ Frozen(f).fn = f.fn /\ Frozen(f).asked = f.asked
         /\ Frozen(f).irp = f.irp /\ Frozen(f).pc = "closed" /\ Frozen(f).going = "down"
<1> DEFINE u == [f EXCEPT !.pc = "closed"]
<1>1. f \in FrameTypes /\ IsRedirected(g, f) /\ IsUntouched(f) /\ f.going = "down"
      /\ IsPlaced(g, f)
  BY DEF Frames, Turn
<1>2. u \in FrameTypes
  BY <1>1 DEF FrameTypes
<1>3. /\ u.going = "down" /\ u.fn = f.fn /\ u.asked = f.asked /\ u.pc = "closed"
      /\ u.next_handler = f.next_handler /\ u.waiting = f.waiting /\ u.irp = f.irp
      /\ u.claimed = f.claimed /\ u.result = f.result /\ u.errn = f.errn
  BY <1>1 DEF FrameTypes
<1> HIDE DEF u
<1>4. IsRedirected(g, u)
  BY <1>1, <1>3 DEF IsRedirected, Rewritten
<1>5. IsUntouched(u)
  BY <1>1, <1>3 DEF IsUntouched
<1>6. IsReal(u) /\ IsGenerator(g, u)
  BY <1>3 DEF IsReal, IsGenerator, GenPcs
<1>7. IsPlaced(g, u)
  <2>1. Turn(g, u, "dog34")
    BY <1>3 DEF Turn
  <2> QED
    BY <1>1, <1>3, <2>1 DEF IsPlaced
<1> QED
  BY <1>2, <1>3, <1>4, <1>5, <1>6, <1>7 DEF Frames, u, Frozen

LEMMA DogCloses ==
  ASSUME Inv, UNCHANGED suite, NEW t \in Threads, Has(t, "dog34"), Op(t) = "CLOSE",
         Top(t).irp.h = latch["dog"], Top(t).pc = "in",
         fds' = [fds EXCEPT ![Top(t).irp.h] = Closed], Become(t, Frozen(Top(t))),
         UNCHANGED <<errno, tree, streams, handlerVars>>
  PROVE  Inv'
<1> DEFINE h == Top(t).irp.h
<1>1. game \in Games /\ Top(t) \in Frames(game) /\ IsIn(t) /\ Top(t).fn \in Fns
      /\ Top(t).going = "down" /\ Turn(game, Top(t), "dog34")
  BY HasTurn, GameIsGame, FrameParts DEF Inv
<1>2. Top(t).fn = "close" /\ hooked[Top(t).fn].chain = "io"
  BY <1>1, TurnIsWhere, HookedTable DEF Op
<1>3. Closes(Top(t)) /\ HandlesOf(Top(t)) = fds
  BY <1>1, <1>2 DEF Closes, HandlesOf
<1>4. Mine(t, fds, h) /\ h # 0 /\ h \in 1..MaxHandles /\ fds[h].owner = t
  BY <1>1, <1>3, ClosesOwn DEF Mine
<1>5. PICK f \in Frames(game) : f = Frozen(Top(t))
  BY <1>1, <1>2, FrozenFrame
<1>6. /\ f.fn = "close" /\ f.asked = Top(t).asked /\ f.irp.h = h /\ f.pc = "closed"
      /\ f.going = "down" /\ Become(t, f)
  BY <1>1, <1>2, <1>5, FrozenFrame
<1>7. /\ FrameInv' /\ IsIn(t)' /\ Top(t)' = f /\ frames' = [frames EXCEPT ![t] = frames'[t]]
      /\ Len(frames'[t]) = Len(frames[t]) /\ Len(frames[t]) \in Nat \ {0}
      /\ \A i \in 1..Len(frames[t]) - 1 : frames'[t][i] = frames[t][i]
      /\ frames'[t][Len(frames[t])] = f /\ frames[t][Len(frames[t])] = Top(t)
      /\ IdleAt(t)' /\ DogAt(t)' /\ DepthAt(t)' /\ ThreadInv(t)
  BY <1>1, <1>2, <1>6, BecomesKeep
<1> HIDE DEF h
<1>8. HandleTypes(fds') /\ OnlyOwn(t)
      /\ \A k \in 1..MaxHandles : k # h => fds'[k] = fds[k]
  <2>1. Closed \in Files
    <3>1. NoPath \in Paths
      BY EmptySeq DEF NoPath, Paths
    <3> QED
      BY <3>1 DEF Closed, Files, Modes
  <2>2. fds \in [1..MaxHandles -> Files] /\ HandleTypes(fds)
    BY DEF Inv, RestInv, HandleTypes
  <2>3. fds' = [fds EXCEPT ![h] = Closed]
    BY DEF h
  <2>4. fds'[h] = Closed /\ \A k \in 1..MaxHandles : k # h => fds'[k] = fds[k]
    BY <1>4, <2>2, <2>3
  <2>5. fds' \in [1..MaxHandles -> Files]
    BY <1>4, <2>1, <2>2, <2>3
  <2>6. HandleTypes(fds')
    BY <2>2, <2>4, <2>5 DEF HandleTypes, Closed
  <2> QED
    BY <1>4, <2>4, <2>6 DEF OnlyOwn
<1>9. RestInv'
  BY <1>8 DEF Inv, RestInv, HandleTypes, handlerVars, RealErrnos
<1>10. errno' = [errno EXCEPT ![t] = errno'[t]] /\ latch' = latch
       /\ latch \in [LatchNames -> 0..MaxHandles] /\ is_creating_file' = is_creating_file
  BY DEF Inv, RestInv, LatchOpen, handlerVars
<1>11. ASSUME NEW n \in LatchNames, latch[n] # 0 PROVE LatchStep(t, n)
  <2>1. CASE n = "dog"
    BY <1>6, <1>7, <1>10, <2>1 DEF LatchStep, Frees
  <2>2. CASE n \in StreamLatches
    <3>1. n # "dog"
      BY <2>2 DEF StreamLatches
    <3> QED
      BY <1>10, <2>2, <3>1 DEF LatchStep, HandlesFor
  <2>3. CASE n = "hdd_fd"
    <3>1. latch[n] # h
      <4> SUFFICES ASSUME latch[n] = h PROVE FALSE
        OBVIOUS
      <4>1. IsFor("hdd_fd", fds[h])
        BY <1>11, <2>3 DEF Inv, LatchOpen, HandlesFor, StreamLatches
      <4>2. latch["dog"] = h /\ "dog" \in LatchNames
        BY DEF h, LatchNames, FdLatches
      <4>3. suite.alone /\ (\/ IsFor("dog", fds[h])
                            \/ \E w \in Threads : IsIn(w) /\ Frees(Top(w)))
        BY <1>4, <4>2 DEF Inv, LatchOpen, HandlesFor, StreamLatches
      <4>4. ~IsFor("dog", fds[h])
        BY <4>1 DEF IsFor
      <4>5. PICK w \in Threads : IsIn(w) /\ Frees(Top(w))
        BY <4>3, <4>4
      <4>6. w = t
        BY <1>1, <4>3, <4>5, OneAlone DEF Inv, ThreadInv
      <4> QED
        BY <4>5, <4>6 DEF Frees
    <3>2. latch[n] \in 1..MaxHandles /\ n \notin StreamLatches
      BY <1>11, <2>3, HandlesAreNumbers DEF Inv, LatchOpen, StreamLatches
    <3> QED
      BY <1>8, <1>10, <2>3, <3>1, <3>2 DEF LatchStep, HandlesFor
  <2> QED
    BY <2>1, <2>2, <2>3 DEF LatchNames, FdLatches
<1>12. ReturnAt(t)' /\ HoldsAt(t)'
  <2>1. HoldsAt(t)
    BY <1>7 DEF ThreadInv
  <2>2. \A i \in 1..Len(frames[t]) :
          frames'[t][i].pc = "written" => Mine(t, streams', frames'[t][i].held)
    BY <1>6, <1>7, <2>1, <1>1 DEF HoldsAt
  <2> QED
    BY <1>6, <1>7, <2>2 DEF ReturnAt, HoldsAt, Closes, Opened_, Mine
<1>13. LatchAt(t)'
  BY <1>6, <1>7, <1>10 DEF LatchAt, Closes, Frees, h
<1>14. GenAt(t)'
  <2>1. GenAt(t)
    BY <1>7 DEF ThreadInv
  <2>2. Len(frames[t]) # 2
    <3> SUFFICES ASSUME Len(frames[t]) = 2 PROVE FALSE
      OBVIOUS
    <3>1. Calls(frames[t][1], frames[t][2]) /\ frames[t][2] = Top(t)
      <4>1. 1 \in 1..Len(frames[t]) /\ 1 < Len(frames[t]) /\ 1 + 1 = 2
        BY <1>7
      <4>2. Calls(frames[t][1], frames[t][1 + 1])
        BY <4>1 DEF Inv, FrameInv
      <4> QED
        BY <1>7, <4>1, <4>2
    <3> QED
      BY <1>2, <3>1 DEF Calls, CalledAt, GenPcs
  <2>3. \A i \in 1..Len(frames[t]) : frames'[t][i].pc \in CreatingPcs => is_creating_file'
                                     \/ ~suite.alone
    BY <1>6, <1>7, <1>10, <2>1 DEF GenAt, CreatingPcs, GenPcs
  <2> QED
    BY <1>7, <2>1, <2>2, <2>3 DEF GenAt
<1> QED
  BY <1>7, <1>8, <1>9, <1>10, <1>11, <1>12, <1>13, <1>14, Preserves DEF ThreadInv

LEMMA DogStep ==
  ASSUME Inv, UNCHANGED suite, NEW t \in Threads, patch_microdog34_iohook(t)
  PROVE  Inv'
<1> DEFINE irp == Top(t).irp
<1>1. Has(t, "dog34") /\ game \in Games /\ Top(t) \in Frames(game) /\ IsIn(t)
      /\ irp \in Requests /\ Top(t).fn \in Fns /\ Top(t).going = "down"
      /\ Turn(game, Top(t), "dog34")
  BY HasTurn, GameIsGame, FrameParts DEF Inv, patch_microdog34_iohook
<1>2. /\ LatchesOf(Top(t)) = FdLatches /\ Op(t) = hooked[Top(t).fn].op /\ Chain(t) = "io"
      /\ Top(t).fn # "fopen" /\ Top(t).next_handler > RedirAt(game)
  BY <1>1, TurnIsWhere, OpsOfFns DEF LatchesOf, Chain, Op
<1>3. Top(t).pc = "closed" => Top(t).fn = "close"
  BY <1>1 DEF Frames, IsPlaced
<1>4. \A n \in FdLatches : HandlerOf(n) = "dog34" <=> n = "dog"
  BY DEF FdLatches, HandlerOf
<1>5. CASE Opens(t, usbdog) /\ open_dummy_fd(t, "dog")
           /\ UNCHANGED <<hdd_fp, mount_eof, is_creating_file>>
  <2>1. Listed("dog")
    BY <1>1, <1>2, TurnIsListed DEF Listed, StreamLatches, HandlerOf
  <2>2. Top(t).fn = "open" /\ irp.path = usbdog
    <3>1. hooked[Top(t).fn].op = "OPEN" /\ hooked[Top(t).fn].chain = "io"
      BY <1>2, <1>5 DEF Opens, Chain
    <3> QED
      BY <1>1, <1>5, <3>1, HookedTable DEF Opens
  <2>3. cnh_redir_check(Top(t).asked.path) = usbdog
    BY <1>1, <1>2, <2>2 DEF Frames, IsRedirected, Rewritten
  <2>4. suite.alone
    <3>1. DogAt(t)
      BY DEF Inv, ThreadInv
    <3>2. Len(frames[t]) \in 1..Len(frames[t]) /\ Top(t) = frames[t][Len(frames[t])]
      BY <1>1, TopIsFrame DEF Inv
    <3> QED
      BY <2>2, <2>3, <3>1, <3>2 DEF DogAt
  <2> QED
    BY <1>1, <1>2, <1>3, <1>5, <2>1, <2>2, <2>4, OpenFdKeep
<1>6. CASE (Op(t) = "OPEN" \/ irp.h # latch["dog"]) /\ Top(t).pc = "in" /\ Passes(t)
  <2>1. ASSUME NEW n \in LatchesOf(Top(t)), Closes(Top(t)), latch[n] = irp.h
        PROVE  HandlerOf(n) # "dog34"
    <3>1. Op(t) # "OPEN"
      BY <1>1, <1>2, <2>1 DEF Closes, hooked, F, fclose, close
    <3> QED
      BY <1>2, <1>4, <1>6, <2>1, <3>1
  <2> QED
    BY <1>1, <1>6, <2>1, PassesKeep
<1>7. CASE /\ Op(t) = "CLOSE" /\ irp.h = latch["dog"] /\ Top(t).pc = "in"
           /\ fds' = [fds EXCEPT ![irp.h] = Closed] /\ Become(t, [Top(t) EXCEPT !.pc = "closed"])
           /\ UNCHANGED <<errno, tree, streams, handlerVars>>
  BY <1>1, <1>7, DogCloses DEF Frozen
<1>8. CASE /\ Top(t).pc = "closed" /\ latch' = [latch EXCEPT !["dog"] = 0] /\ Answers(t, irp)
           /\ UNCHANGED <<diskVars, hdd_fp, mount_eof, is_creating_file>>
  <2>1. Same(irp, Top(t)) /\ SUCCESS \in Results
    BY DEF Same, Results
  <2>2. RestInv' /\ OnlyOwn(t)
    BY <1>8 DEF Answers, Claims, Inv, RestInv, HandleTypes, diskVars, RealErrnos, OnlyOwn
  <2>3. latch' \in [LatchNames -> 0..MaxHandles] /\ latch'["dog"] = 0
        /\ \A n \in LatchNames : n # "dog" => latch'[n] = latch[n]
    BY <1>8, HandlesAreNumbers DEF Inv, LatchOpen, LatchNames, FdLatches
  <2>4. ASSUME NEW n \in LatchNames, latch'[n] # 0 PROVE LatchStep(t, n)
    BY <1>8, <2>3, <2>4 DEF LatchStep, HandlesFor, diskVars
  <2>5. Claims(t, SUCCESS, irp) /\ \A k \in 1..MaxHandles : Mine(t, streams, k) => Mine(t, streams', k)
    BY <1>8 DEF Answers, diskVars
  <2> QED
    BY <1>1, <1>2, <1>8, <2>1, <2>2, <2>3, <2>4, <2>5, ClaimKeep
<1>9. CASE Op(t) \in {"READ", "IOCTL"} /\ Stubs(t, irp)
  <2>1. Top(t).pc # "closed"
    BY <1>2, <1>3, <1>9 DEF hooked, F, close
  <2> QED
    BY <1>1, <1>2, <1>9, <2>1, StubsKeep DEF Same
<1> QED
  BY <1>5, <1>6, <1>7, <1>8, <1>9 DEF patch_microdog34_iohook

-----------------------------------------------------------------------------
(* The generators of profiles.                                                *)

At(f, pc) == [f EXCEPT !.pc = pc]
AtHolding(f, pc, held) == [f EXCEPT !.pc = pc, !.held = held]
\* A generator has the call of an open of one of its files.
Generates(g, f) ==
  /\ g \in {"nx2", "nxa"} /\ f \in Frames(g) /\ f.fn = "fopen" /\ f.going = "down"
  /\ f.next_handler = 4 /\ \E name \in generated[g] : util_str_ends_with(f.irp.path, name)

LEMMA AtFrame ==
  ASSUME NEW g, NEW f, Generates(g, f), NEW u \in FrameTypes, u.fn = f.fn, u.asked = f.asked,
         u.irp = f.irp, u.next_handler = f.next_handler, u.going = f.going,
         u.waiting = f.waiting, u.claimed = f.claimed, u.result = f.result, u.errn = f.errn,
         u.pc \in GenPcs, u.pc \in {"older", "is_older"} => g = "nxa"
  PROVE  u \in Frames(g)
<1>1. IsRedirected(g, f) /\ IsUntouched(f) /\ IsPlaced(g, f)
  BY DEF Generates, Frames
<1>2. IsRedirected(g, u)
  BY <1>1 DEF IsRedirected, Rewritten
<1>3. IsUntouched(u) /\ IsReal(u)
  BY <1>1 DEF IsUntouched, IsReal, Generates
<1>4. IsGenerator(g, u) /\ IsPlaced(g, u)
  BY <1>1 DEF IsGenerator, IsPlaced, Generates, GenPcs
<1> QED
  BY <1>2, <1>3, <1>4 DEF Frames

LEMMA AtFrames ==
  ASSUME NEW g, NEW f, Generates(g, f), NEW pc \in GenPcs, pc \in {"older", "is_older"} => g = "nxa",
         NEW held \in Int
  PROVE  /\ At(f, pc) \in Frames(g) /\ AtHolding(f, pc, held) \in Frames(g)
         /\ At(f, pc).fn = "fopen" /\ At(f, pc).pc = pc /\ At(f, pc).asked = f.asked
         /\ At(f, pc).held = f.held
         /\ LET w == AtHolding(f, pc, held)
            IN w.fn = "fopen" /\ w.pc = pc /\ w.asked = f.asked /\ w.held = held
<1> DEFINE u == At(f, pc)
           w == AtHolding(f, pc, held)
<1>1. f \in FrameTypes /\ f.fn = "fopen"
  BY DEF Generates, Frames
<1>2. u \in FrameTypes
  BY <1>1 DEF FrameTypes, At
<1>3. w \in FrameTypes
  BY <1>1 DEF FrameTypes, AtHolding
<1>4. /\ u.fn = f.fn /\ u.asked = f.asked /\ u.irp = f.irp /\ u.next_handler = f.next_handler
      /\ u.going = f.going /\ u.waiting = f.waiting /\ u.claimed = f.claimed /\ u.result = f.result
      /\ u.errn = f.errn /\ u.pc = pc /\ u.held = f.held
  BY <1>1 DEF FrameTypes, At
<1>5. /\ w.fn = f.fn /\ w.asked = f.asked /\ w.irp = f.irp /\ w.next_handler = f.next_handler
      /\ w.going = f.going /\ w.waiting = f.waiting /\ w.claimed = f.claimed /\ w.result = f.result
      /\ w.errn = f.errn /\ w.pc = pc /\ w.held = held
  BY <1>1 DEF FrameTypes, AtHolding
<1> HIDE DEF u, w
<1>6. u \in Frames(g)
  BY <1>2, <1>4, AtFrame
<1>7. w \in Frames(g)
  BY <1>3, <1>5, AtFrame
<1> QED
  BY <1>1, <1>4, <1>5, <1>6, <1>7 DEF u, w

\* Who has just called a function that closes a handle has all handlers ahead.
LEMMA AllAhead ==
  ASSUME Inv, NEW g \in Frames(game), g.next_handler = 1, Closes(g),
         NEW n \in LatchesOf(g), latch[n] = g.irp.h, g.irp.h # 0
  PROVE  Ahead(game, g, HandlerOf(n))
<1>1. n \in LatchNames /\ game \in Games /\ g.fn \in Fns
  BY GameIsGame, FrameParts DEF LatchesOf, LatchNames, Inv
<1>2. Listed(n)
  BY <1>1 DEF Inv, LatchOpen
<1>3. HandlersOf(game, g.fn) = IF n \in StreamLatches THEN file_handlers[game] ELSE io_handlers[game]
  BY DEF Closes, HandlersOf, LatchesOf, StreamLatches, FdLatches, hooked, F, fclose, close
<1>4. PICK k \in DOMAIN HandlersOf(game, g.fn) : HandlersOf(game, g.fn)[k] = HandlerOf(n)
  BY <1>2, <1>3 DEF Listed
<1>5. k >= 1
  BY <1>1, HandlerLists DEF IsList
<1> QED
  BY <1>4, <1>5 DEF Ahead

\* A generator calls a function.
LEMMA PushStep ==
  ASSUME Inv, UNCHANGED suite, NEW t \in Threads, IsIn(t), Top(t).fn = "fopen",
         NEW f \in Frames(game), f.fn = "fopen", f.asked = Top(t).asked, f.pc \in GenPcs,
         NEW g \in Frames(game), g.fn = CalledAt[f.pc], g.next_handler = 1, g.going = "down",
         g.pc = "in", g.fn = "fclose" => Mine(t, streams, g.irp.h),
         f.pc = "written" => Mine(t, streams, f.held),
         frames' = [frames EXCEPT ![t] = Append(Append(Front(@), f), g)],
         Len(frames[t]) < MaxDepth, suite.alone => Len(frames[t]) = 1,
         UNCHANGED <<errno, diskVars, latch, hdd_fp, mount_eof>>,
         is_creating_file' = is_creating_file \/ is_creating_file' = TRUE,
         suite.alone /\ f.pc \in CreatingPcs => is_creating_file'
  PROVE  Inv'
<1>1. Calls(f, g)
  BY DEF Calls
<1>2. /\ FrameInv' /\ IsIn(t)' /\ Top(t)' = g /\ frames' = [frames EXCEPT ![t] = frames'[t]]
      /\ Len(frames'[t]) = Len(frames[t]) + 1 /\ frames'[t][Len(frames[t])] = f
      /\ \A i \in 1..Len(frames[t]) - 1 : frames'[t][i] = frames[t][i]
  BY <1>1, Pushed DEF Inv
<1>3. /\ Len(frames[t]) \in Nat \ {0} /\ frames[t][Len(frames[t])] = Top(t)
      /\ frames'[t][Len(frames[t]) + 1] = g /\ ThreadInv(t)
  BY <1>2, TopIsFrame DEF Inv, Top, Last
<1>4. g.fn \in {"access", "fopen", "fclose", "fwrite"}
  BY DEF GenPcs, CalledAt
<1>5. RestInv' /\ errno' = [errno EXCEPT ![t] = errno'[t]] /\ OnlyOwn(t) /\ latch' = latch
      /\ latch \in [LatchNames -> 0..MaxHandles]
  BY DEF Inv, RestInv, HandleTypes, OnlyOwn, diskVars, RealErrnos, LatchOpen
<1>6. ASSUME NEW n \in LatchNames PROVE LatchStep(t, n)
  <2>1. Top(t) \in Frames(game)
    BY TopIsFrame DEF Inv
  <2>2. ~Frees(Top(t))
    BY <2>1 DEF Frees, Frames, IsPlaced
  <2> QED
    BY <2>2 DEF LatchStep, HandlesFor, diskVars
<1> DEFINE n == Len(frames[t])
<1>7. \A i \in 1..n + 1 : i \in 1..n - 1 \/ i = n \/ i = n + 1
  BY <1>3
<1>8. ReturnAt(t)' /\ IdleAt(t)' /\ DepthAt(t)'
  <2>1. n + 1 <= MaxDepth
    BY <1>3, HandlesAreNumbers
  <2>2. Suites[suite.of].calls[t] # {}
    BY <1>3 DEF ThreadInv, IdleAt, IsIn
  <2> QED
    BY <1>2, <2>1, <2>2 DEF ReturnAt, IdleAt, DepthAt
<1>9. DogAt(t)'
  <2>1. DogAt(t)
    BY <1>3 DEF ThreadInv
  <2>2. ASSUME NEW i \in 1..n + 1, frames'[t][i].fn = "open" PROVE i \in 1..n - 1
    BY <1>2, <1>3, <1>4, <1>7, <2>2
  <2> HIDE DEF n
  <2>3. \A i \in 1..n - 1 : i \in 1..n
    BY <1>3 DEF n
  <2> QED
    BY <1>2, <2>1, <2>2, <2>3 DEF DogAt, n
<1>10. HoldsAt(t)'
  <2>1. HoldsAt(t) /\ UNCHANGED streams
    BY <1>3 DEF ThreadInv, diskVars
  <2>2. ASSUME NEW i \in 1..n + 1, frames'[t][i].pc = "written"
        PROVE  Mine(t, streams, frames'[t][i].held)
    <3>1. CASE i \in 1..n - 1
      <4>1. i \in 1..n
        BY <1>3, <3>1
      <4> QED
        BY <1>2, <2>1, <2>2, <3>1, <4>1 DEF HoldsAt
    <3>2. CASE i = n
      BY <1>2, <2>2, <3>2
    <3>3. CASE i = n + 1
      BY <1>3, <2>2, <3>3
    <3> QED
      BY <1>7, <3>1, <3>2, <3>3
  <2>3. g.fn # "close" /\ (g.fn = "fclose" => hooked[g.fn].chain = "file")
    BY <1>4 DEF hooked, F, fclose
  <2> QED
    BY <1>2, <2>1, <2>2, <2>3 DEF HoldsAt, Closes, HandlesOf, Opened_, Mine
<1>11. LatchAt(t)'
  <2>1. Closes(g) => g.irp.h # 0
    BY <1>4, HandlesAreNumbers DEF Closes, Mine
  <2>2. \A m \in LatchesOf(g) : Closes(g) /\ latch[m] = g.irp.h => Ahead(game, g, HandlerOf(m))
    BY <2>1, AllAhead
  <2>3. game' = game /\ ~Frees(g)
    BY DEF game, Frees
  <2> QED
    BY <1>2, <1>5, <2>2, <2>3 DEF LatchAt, Closes, Frees, LatchesOf
<1>12. GenAt(t)'
  <2> SUFFICES ASSUME suite.alone PROVE GenAt(t)'
    BY DEF GenAt
  <2>1. n = 1 /\ Len(frames'[t]) = 2
    <3>1. n = 1
      BY Zenon
    <3> QED
      BY <1>2, <3>1
  <2>2. \A i \in 1..2 : frames'[t][i].pc \in CreatingPcs => is_creating_file'
    <3>1. frames'[t][1] = f /\ frames'[t][2] = g
      BY <1>2, <1>3, <2>1
    <3>2. g.pc \notin CreatingPcs
      BY DEF CreatingPcs, GenPcs
    <3> QED
      BY <3>1, <3>2
  <2> QED
    BY <1>2, <2>1, <2>2 DEF GenAt
<1> QED
  BY <1>2, <1>5, <1>6, <1>8, <1>9, <1>10, <1>11, <1>12, Preserves DEF ThreadInv

LEMMA FourthGenerates ==
  ASSUME NEW g \in {"nx2", "nxa"}, NEW f \in Frames(g), Turn(g, f, "gen")
  PROVE  f.next_handler = 4
<1>1. g \in Games
  BY GamesListed
<1>2. HandlersOf(g, f.fn) = file_handlers[g]
  BY <1>1, TurnIsWhere DEF HandlersOf
<1>3. Len(file_handlers[g]) = 4 /\ \A k \in 1..4 : file_handlers[g][k] = "gen" => k = 4
  <2>1. CASE g = "nx2"
    BY <2>1 DEF file_handlers
  <2>2. CASE g = "nxa"
    BY <2>2 DEF file_handlers
  <2> QED
    BY <2>1, <2>2
<1> QED
  BY <1>2, <1>3 DEF Turn

LEMMA WhoGenerates ==
  ASSUME Inv, NEW t \in Threads, Has(t, "gen"), game \in {"nx2", "nxa"},
         \/ Top(t).pc \in GenPcs
         \/ Op(t) = "OPEN" /\ \E name \in generated[game] : util_str_ends_with(Top(t).irp.path, name)
  PROVE  Generates(game, Top(t))
<1>1. game \in Games /\ Top(t) \in Frames(game) /\ Top(t).going = "down" /\ Turn(game, Top(t), "gen")
      /\ Top(t).fn \in Fns
  BY HasTurn, GameIsGame, FrameParts DEF Inv
<1>2. Top(t).next_handler = 4 /\ hooked[Top(t).fn].chain = "file"
  BY <1>1, FourthGenerates, TurnIsWhere
<1>3. CASE Top(t).pc \in GenPcs
  BY <1>1, <1>2, <1>3 DEF Frames, IsGenerator, Generates
<1>4. CASE Op(t) = "OPEN" /\ \E name \in generated[game] : util_str_ends_with(Top(t).irp.path, name)
  <2>1. Top(t).fn = "fopen"
    <3>1. hooked[Top(t).fn].op = "OPEN"
      BY <1>4 DEF Op
    <3> QED
      BY <1>1, <1>2, <3>1, HookedTable
  <2> QED
    BY <1>1, <1>2, <1>4, <2>1 DEF Generates
<1> QED
  BY <1>3, <1>4

\* Where one thread makes all calls, only the call of the game is generated for.
LEMMA FirstGenerates ==
  ASSUME Inv, NEW t \in Threads, IsIn(t), Generates(game, Top(t)),
         Top(t).pc \in GenPcs \/ ~is_creating_file, suite.alone
  PROVE  Len(frames[t]) = 1
<1>1. Len(frames[t]) \in Nat \ {0} /\ Top(t) = frames[t][Len(frames[t])]
  BY TopIsFrame DEF Inv
<1>2. /\ Len(frames[t]) <= 2
      /\ \A i \in 1..Len(frames[t]) : frames[t][i].pc \in CreatingPcs => is_creating_file
      /\ Len(frames[t]) = 2 => Top(t).pc = "in"
  BY Zenon DEF Inv, ThreadInv, GenAt
<1>3. ASSUME Len(frames[t]) = 2 PROVE FALSE
  <2>1. ~is_creating_file
    BY <1>2, <1>3 DEF GenPcs
  <2>2. 1 \in 1..Len(frames[t]) /\ 1 < Len(frames[t]) /\ 1 + 1 = 2
    BY <1>3
  <2>3. Calls(frames[t][1], frames[t][1 + 1])
    BY <2>2 DEF Inv, FrameInv
  <2>4. frames[t][1].pc \in GenPcs /\ CalledAt[frames[t][1].pc] = "fopen"
    BY <1>1, <1>3, <2>2, <2>3 DEF Calls, Generates
  <2>5. frames[t][1].pc \in CreatingPcs
    BY <2>4 DEF CreatingPcs, CalledAt
  <2> QED
    BY <1>2, <2>1, <2>2, <2>5
<1>4. \A n \in Nat \ {0} : n <= 2 /\ n # 2 => n = 1
  OBVIOUS
<1>5. Len(frames[t]) # 2 /\ Len(frames[t]) <= 2
  BY Zenon, <1>2, <1>3
<1> QED
  BY ONLY <1>1, <1>4, <1>5

LEMMA IrpsOfGenerator ==
  /\ \A p \in Paths : OnPath(p) \in Requests /\ OnPath(p).pos = 0 /\ OnPath(p).line = 1
                      /\ [OnPath(p) EXCEPT !.mode = "w"] \in Requests
                      /\ [OnPath(p) EXCEPT !.mode = "w"].pos = 0
                      /\ [OnPath(p) EXCEPT !.mode = "w"].line = 1
  /\ \A h \in Int : OnFile(h) \in Requests /\ OnFile(h).pos = 0 /\ OnFile(h).line = 1
                    /\ OnFile(h).h = h
<1>1. NoPath \in Paths
  BY EmptySeq DEF NoPath, Paths
<1>2. Irp \in Requests /\ Irp.pos = 0 /\ Irp.line = 1
  BY <1>1 DEF Irp, Requests
<1>3. ASSUME NEW p \in Paths
      PROVE  /\ OnPath(p) \in Requests /\ OnPath(p).pos = 0 /\ OnPath(p).line = 1
             /\ [OnPath(p) EXCEPT !.mode = "w"] \in Requests
             /\ [OnPath(p) EXCEPT !.mode = "w"].pos = 0
             /\ [OnPath(p) EXCEPT !.mode = "w"].line = 1
  <2>1. OnPath(p) \in Requests /\ OnPath(p).pos = 0 /\ OnPath(p).line = 1
    BY <1>2 DEF OnPath, Requests
  <2> QED
    BY <2>1 DEF Requests
<1>4. ASSUME NEW h \in Int
      PROVE  OnFile(h) \in Requests /\ OnFile(h).pos = 0 /\ OnFile(h).line = 1 /\ OnFile(h).h = h
  BY <1>2 DEF OnFile, Requests
<1> QED
  BY <1>3, <1>4

\* A generator calls a function and goes on at pc; it remembers the stream that
\* it writes.
LEMMA GeneratorCalls ==
  ASSUME Inv, UNCHANGED suite, NEW t \in Threads, IsIn(t), Generates(game, Top(t)),
         Top(t).pc \in GenPcs \/ ~is_creating_file,
         NEW pc \in GenPcs, pc \in {"older", "is_older"} => game = "nxa",
         NEW irp \in Requests, irp.pos = 0, irp.line = 1,
         CalledAt[pc] = "fclose" => Mine(t, streams, irp.h),
         NEW u \in {At(Top(t), pc)} \cup {AtHolding(Top(t), pc, held) : held \in 1..MaxHandles},
         pc = "written" => Mine(t, streams, u.held),
         frames' = [frames EXCEPT ![t] = Append(Append(Front(@), u), Frame(CalledAt[pc], irp))],
         Len(frames[t]) < MaxDepth,
         UNCHANGED <<errno, diskVars, latch, hdd_fp, mount_eof>>,
         is_creating_file' = is_creating_file \/ is_creating_file' = TRUE,
         suite.alone /\ pc \in CreatingPcs => is_creating_file'
  PROVE  Inv'
<1>1. game \in Games
  BY GameIsGame DEF Inv
<1>2. u \in Frames(game) /\ u.fn = "fopen" /\ u.pc = pc /\ u.asked = Top(t).asked
  BY AtFrames, SMTT(30)
<1>3. CalledAt[pc] \in Fns /\ hooked[CalledAt[pc]].op # "SEEK"
  BY DEF GenPcs, CalledAt, Fns, hooked, F, access, fopen, fclose, fwrite
<1>4. Frame(CalledAt[pc], irp) \in Frames(game)
  <2>1. IsAsked(CalledAt[pc], irp)
    BY <1>3 DEF IsAsked
  <2> QED
    BY <1>1, <2>1, CallFrame
<1>5. PICK g \in Frames(game) : g = Frame(CalledAt[pc], irp)
  BY <1>4
<1>6. g.fn = CalledAt[pc] /\ g.irp = irp /\ g.next_handler = 1 /\ g.going = "down" /\ g.pc = "in"
  BY <1>5 DEF Frame
<1>7. suite.alone => Len(frames[t]) = 1
  BY FirstGenerates
<1>8. Top(t).fn = "fopen"
  BY DEF Generates
<1> QED
  BY <1>2, <1>5, <1>6, <1>7, <1>8, PushStep

LEMMA CallingKeep ==
  ASSUME Inv, UNCHANGED suite, NEW t \in Threads, IsIn(t), Generates(game, Top(t)),
         Top(t).pc \in GenPcs \/ ~is_creating_file,
         NEW pc \in GenPcs \ {"written"}, pc \in {"older", "is_older"} => game = "nxa",
         NEW irp \in Requests, irp.pos = 0, irp.line = 1,
         CalledAt[pc] = "fclose" => Mine(t, streams, irp.h),
         Calling(t, pc, CalledAt[pc], irp), UNCHANGED <<latch, hdd_fp, mount_eof>>,
         \/ is_creating_file' = TRUE
         \/ is_creating_file' = is_creating_file /\ (pc = "checked" \/ Top(t).pc \in CreatingPcs)
  PROVE  Inv'
<1>1. PICK u \in {At(Top(t), pc)} : u = At(Top(t), pc)
  OBVIOUS
<1>2. /\ frames' = [frames EXCEPT ![t] = Append(Append(Front(@), u), Frame(CalledAt[pc], irp))]
      /\ Len(frames[t]) < MaxDepth /\ UNCHANGED <<errno, diskVars>>
  BY <1>1 DEF Calling, At
<1>3. suite.alone /\ pc \in CreatingPcs => is_creating_file'
  <2> SUFFICES ASSUME suite.alone, pc \in CreatingPcs, ~(is_creating_file' = TRUE)
               PROVE  is_creating_file'
    OBVIOUS
  <2>1. Top(t).pc \in CreatingPcs /\ is_creating_file' = is_creating_file
    BY DEF CreatingPcs
  <2>2. Len(frames[t]) \in 1..Len(frames[t]) /\ Top(t) = frames[t][Len(frames[t])]
    BY TopIsFrame DEF Inv
  <2>3. GenAt(t)
    BY DEF Inv, ThreadInv
  <2> QED
    BY <2>1, <2>2, <2>3 DEF GenAt
<1>4. pc \in GenPcs /\ pc # "written"
  OBVIOUS
<1> QED
  BY <1>1, <1>2, <1>3, <1>4, GeneratorCalls

LEMMA EndsKeep ==
  ASSUME Inv, UNCHANGED suite, NEW t \in Threads, Has(t, "gen"), Top(t).pc \in GenPcs, ends(t)
  PROVE  Inv'
<1>1. game \in Games /\ Top(t) \in Frames(game) /\ Turn(game, Top(t), "gen")
  BY HasTurn, GameIsGame DEF Inv
<1>2. Passed(Top(t), Top(t).irp) \in Frames(game)
  BY <1>1, PassFrame
<1>3. latch' = latch /\ latch \in [LatchNames -> 0..MaxHandles] /\ is_creating_file' = FALSE
      /\ UNCHANGED <<errno, diskVars, hdd_fp, mount_eof>> /\ invoke_next(t, Top(t).irp)
  BY DEF ends, Creating, Inv, LatchOpen
<1>4. \A n \in LatchesOf(Top(t)) : HandlerOf(n) # "gen"
  BY DEF LatchesOf, HandlerOf, StreamLatches, FdLatches
<1> QED
  BY <1>2, <1>3, <1>4, ForwardKeep

LEMMA GenPassesKeep ==
  ASSUME Inv, UNCHANGED suite, NEW t \in Threads, Has(t, "gen"), Passes(t)
  PROVE  Inv'
<1>1. \A n \in LatchesOf(Top(t)) : HandlerOf(n) # "gen"
  BY DEF LatchesOf, HandlerOf, StreamLatches, FdLatches
<1> QED
  BY <1>1, PassesKeep

LEMMA SaveKeeps ==
  ASSUME Inv, UNCHANGED suite, NEW t \in Threads, Has(t, "gen"), game \in {"nx2", "nxa"},
         Top(t).pc \in GenPcs, Save(t), UNCHANGED <<latch, hdd_fp, mount_eof>>,
         \/ is_creating_file' = TRUE
         \/ is_creating_file' = is_creating_file /\ Top(t).pc \in CreatingPcs
  PROVE  Inv'
<1>1. Generates(game, Top(t)) /\ IsIn(t)
  BY WhoGenerates DEF Has
<1>2. Top(t).irp.path \in Paths
  BY <1>1, FrameParts DEF Generates, Requests
<1>3. PICK irp \in Requests :
        irp = [OnPath(Top(t).irp.path) EXCEPT !.mode = "w"] /\ irp.pos = 0 /\ irp.line = 1
  BY <1>2, IrpsOfGenerator
<1>4. CalledAt["created"] = "fopen" /\ "created" \in GenPcs \ {"written"}
  BY DEF CalledAt, GenPcs
<1>5. Calling(t, "created", CalledAt["created"], irp)
  BY <1>3, <1>4 DEF Save
<1> QED
  BY <1>1, <1>3, <1>4, <1>5, CallingKeep

LEMMA ChecksStep ==
  ASSUME Inv, UNCHANGED suite, NEW t \in Threads, Has(t, "gen"), game \in {"nx2", "nxa"},
         check_if_exists(t)
  PROVE  Inv'
<1>1. CASE Passes(t)
  BY <1>1, GenPassesKeep
<1>2. CASE /\ Op(t) = "OPEN" /\ ~is_creating_file
           /\ \E name \in generated[game] : util_str_ends_with(Top(t).irp.path, name)
           /\ Calling(t, "checked", "access", OnPath(Top(t).irp.path)) /\ UNCHANGED handlerVars
  <2>1. Generates(game, Top(t)) /\ IsIn(t)
    BY <1>2, WhoGenerates DEF Has
  <2>2. Top(t).irp.path \in Paths
    BY <2>1, FrameParts DEF Generates, Requests
  <2>3. PICK irp \in Requests : irp = OnPath(Top(t).irp.path) /\ irp.pos = 0 /\ irp.line = 1
    BY <2>2, IrpsOfGenerator
  <2>4. CalledAt["checked"] = "access" /\ "checked" \in GenPcs \ {"written"}
    BY DEF CalledAt, GenPcs
  <2>5. Calling(t, "checked", CalledAt["checked"], irp)
    BY <1>2, <2>3, <2>4
  <2> QED
    BY <1>2, <2>1, <2>3, <2>4, <2>5, CallingKeep DEF handlerVars
<1> QED
  BY <1>1, <1>2 DEF check_if_exists

LEMMA StartsStep ==
  ASSUME Inv, UNCHANGED suite, NEW t \in Threads, Has(t, "gen"), game \in {"nx2", "nxa"}, starts(t)
  PROVE  Inv'
<1>1. Top(t).pc = "checked" /\ Top(t).pc \in GenPcs
  BY DEF starts, GenPcs
<1>2. Generates(game, Top(t)) /\ IsIn(t)
  BY <1>1, WhoGenerates DEF Has
<1>3. CASE Passes(t)
  BY <1>3, GenPassesKeep
<1>4. CASE Creating(TRUE) /\ Save(t)
  BY <1>1, <1>4, SaveKeeps DEF Creating
<1> DEFINE path == Top(t).irp.path
           old == Append(Front(path), older["nxa"][Last(path)])
<1>5. CASE Creating(TRUE) /\ game = "nxa" /\ Calling(t, "older", "fopen", OnPath(old))
  <2>1. path \in Paths
    BY <1>2, FrameParts DEF Generates, Requests
  <2>2. PICK name \in generated["nxa"] : util_str_ends_with(path, name)
    BY <1>2, <1>5 DEF Generates
  <2>3. path # <<>> /\ Last(path) = name
    BY <2>1, <2>2, EndsWith DEF Paths
  <2>4. older["nxa"][name] \in Parts
    BY DEF older, generated, Parts
  <2>5. Front(path) \in Paths
    BY <2>1, <2>3, FrontAndLast DEF Paths
  <2>6. old \in Paths
    BY <2>3, <2>4, <2>5, AppendProperties DEF Paths
  <2> HIDE DEF old
  <2>7. PICK irp \in Requests : irp = OnPath(old) /\ irp.pos = 0 /\ irp.line = 1
    BY <2>6, IrpsOfGenerator
  <2>8. CalledAt["older"] = "fopen" /\ "older" \in GenPcs \ {"written"}
    BY DEF CalledAt, GenPcs
  <2>9. Calling(t, "older", CalledAt["older"], irp)
    BY <1>5, <2>7, <2>8
  <2> QED
    BY <1>1, <1>2, <1>5, <2>7, <2>8, <2>9, CallingKeep DEF Creating
<1> QED
  BY <1>3, <1>4, <1>5 DEF starts

\* A generator closes a stream of its own.
LEMMA ClosesKeep ==
  ASSUME Inv, UNCHANGED suite, NEW t \in Threads, Has(t, "gen"), game \in {"nx2", "nxa"},
         Top(t).pc \in CreatingPcs, NEW pc \in {"is_older", "saved"}, pc = "is_older" => game = "nxa",
         NEW h, Mine(t, streams, h), Calling(t, pc, "fclose", OnFile(h)), UNCHANGED handlerVars
  PROVE  Inv'
<1>1. Generates(game, Top(t)) /\ IsIn(t) /\ Top(t).pc \in GenPcs
  BY WhoGenerates DEF Has, CreatingPcs
<1>2. h \in Int
  BY HandlesAreNumbers DEF Mine
<1>3. PICK irp \in Requests : irp = OnFile(h) /\ irp.pos = 0 /\ irp.line = 1 /\ irp.h = h
  BY <1>2, IrpsOfGenerator
<1>4. CalledAt[pc] = "fclose" /\ pc \in GenPcs \ {"written"}
  BY DEF CalledAt, GenPcs
<1>5. Calling(t, pc, CalledAt[pc], irp)
  BY <1>3, <1>4
<1> QED
  BY <1>1, <1>3, <1>4, <1>5, CallingKeep DEF handlerVars

LEMMA MigratesStep ==
  ASSUME Inv, UNCHANGED suite, NEW t \in Threads, Has(t, "gen"), game = "nxa", migrates(t)
  PROVE  Inv'
<1>1. IsIn(t)
  BY DEF Has
<1>2. CASE Top(t).pc = "older" /\ UNCHANGED handlerVars /\ Save(t)
  <2>1. Top(t).pc \in GenPcs /\ Top(t).pc \in CreatingPcs
    BY <1>2 DEF GenPcs, CreatingPcs
  <2> QED
    BY <1>2, <2>1, SaveKeeps DEF handlerVars
<1>3. CASE /\ Top(t).pc = "older" /\ UNCHANGED handlerVars /\ Top(t).got # 0
           /\ Calling(t, "is_older", "fclose", OnFile(Top(t).got))
  <2>1. Top(t).pc \in CreatingPcs
    BY <1>3 DEF GenPcs, CreatingPcs
  <2>2. Mine(t, streams, Top(t).got)
    BY <1>1, <1>3 DEF Inv, ThreadInv, HoldsAt
  <2> QED
    BY <1>3, <2>1, <2>2, ClosesKeep
<1>4. CASE Top(t).pc = "is_older" /\ ends(t)
  BY <1>4, EndsKeep DEF GenPcs
<1> QED
  BY <1>2, <1>3, <1>4 DEF migrates

LEMMA SavesStep ==
  ASSUME Inv, UNCHANGED suite, NEW t \in Threads, Has(t, "gen"), game \in {"nx2", "nxa"},
         util_file_save(t)
  PROVE  Inv'
<1>1. IsIn(t)
  BY DEF Has
<1>2. CASE Top(t).pc \in {"created", "saved"} /\ ends(t)
  BY <1>2, EndsKeep DEF GenPcs
<1>3. CASE /\ Top(t).pc = "created" /\ Top(t).got # 0
           /\ frames' = [frames EXCEPT ![t] = Append(Append(Front(@),
                  [Top(t) EXCEPT !.pc = "written", !.held = Top(t).got]),
                  Frame("fwrite", OnFile(Top(t).got)))]
           /\ Len(frames[t]) < MaxDepth
           /\ UNCHANGED <<errno, diskVars, handlerVars>>
  <2>1. Top(t).pc \in GenPcs /\ Top(t).pc \in CreatingPcs
    BY <1>3 DEF GenPcs, CreatingPcs
  <2>2. Mine(t, streams, Top(t).got)
    BY <1>1, <1>3 DEF Inv, ThreadInv, HoldsAt
  <2>3. Generates(game, Top(t))
    BY <2>1, WhoGenerates
  <2>4. Top(t).got \in 1..MaxHandles /\ Top(t).got \in Int
    BY <2>2, HandlesAreNumbers DEF Mine
  <2>5. PICK irp \in Requests : irp = OnFile(Top(t).got) /\ irp.pos = 0 /\ irp.line = 1
    BY <2>4, IrpsOfGenerator
  <2>6. CalledAt["written"] = "fwrite" /\ "written" \in GenPcs
    BY DEF CalledAt, GenPcs
  <2>7. PICK u \in {AtHolding(Top(t), "written", held) : held \in 1..MaxHandles} :
          u = AtHolding(Top(t), "written", Top(t).got)
    BY <2>4
  <2>8. u.held = Top(t).got
    BY <2>3, <2>4, <2>6, <2>7, AtFrames
  <2>9. frames' = [frames EXCEPT ![t] = Append(Append(Front(@), u), Frame(CalledAt["written"], irp))]
    <3>1. u = [Top(t) EXCEPT !.pc = "written", !.held = Top(t).got]
      BY Zenon, <2>7 DEF AtHolding
    <3> QED
      BY Zenon, <1>3, <2>5, <2>6, <3>1
  <2>10. suite.alone => is_creating_file
    <3>1. Len(frames[t]) \in 1..Len(frames[t]) /\ Top(t) = frames[t][Len(frames[t])]
      BY <1>1, TopIsFrame DEF Inv
    <3> QED
      BY <2>1, <3>1 DEF Inv, ThreadInv, GenAt
  <2>11. UNCHANGED <<errno, diskVars, latch, hdd_fp, mount_eof, is_creating_file>>
    BY <1>3 DEF handlerVars
  <2>12. u \in {At(Top(t), "written")} \cup {AtHolding(Top(t), "written", held) : held \in 1..MaxHandles}
    OBVIOUS
  <2>13. suite.alone /\ "written" \in CreatingPcs => is_creating_file'
    BY Zenon, <2>10, <2>11
  <2>14. CalledAt["written"] # "fclose" /\ Mine(t, streams, u.held) /\ Len(frames[t]) < MaxDepth
    BY <1>3, <2>2, <2>6, <2>8
  <2> QED
    BY <1>1, <2>1, <2>3, <2>5, <2>6, <2>9, <2>11, <2>12, <2>13, <2>14, GeneratorCalls
<1>4. CASE /\ Top(t).pc = "written" /\ UNCHANGED handlerVars
           /\ Calling(t, "saved", "fclose", OnFile(Top(t).held))
  <2>1. Top(t).pc \in CreatingPcs
    BY <1>4 DEF GenPcs, CreatingPcs
  <2>2. Mine(t, streams, Top(t).held)
    <3>1. Len(frames[t]) \in 1..Len(frames[t]) /\ Top(t) = frames[t][Len(frames[t])]
      BY <1>1, TopIsFrame DEF Inv
    <3> QED
      BY <1>1, <1>4, <3>1 DEF Inv, ThreadInv, HoldsAt
  <2> QED
    BY <1>4, <2>1, <2>2, ClosesKeep
<1> QED
  BY <1>2, <1>3, <1>4 DEF util_file_save

LEMMA GeneratorsStep ==
  ASSUME Inv, UNCHANGED suite, NEW t \in Threads,
         nx2hook_profile_gen_filehook(t) \/ nxahook_profile_gen_filehook(t)
  PROVE  Inv'
<1>1. Has(t, "gen") /\ game \in {"nx2", "nxa"}
  BY DEF nx2hook_profile_gen_filehook, nxahook_profile_gen_filehook
<1> QED
  BY <1>1, ChecksStep, StartsStep, MigratesStep, SavesStep
  DEF nx2hook_profile_gen_filehook, nxahook_profile_gen_filehook

-----------------------------------------------------------------------------
(* The unlocking of the settings.                                             *)

LEMMA SeenFields ==
  ASSUME NEW f \in FrameTypes
  PROVE  LET p == Seen(f)
         IN /\ p.fn = f.fn /\ p.asked = f.asked /\ p.irp = f.irp /\ p.going = f.going /\ p.pc = f.pc
            /\ p.result = f.result
BY DEF FrameTypes, Seen

LEMMA SettingsAreNoDevices ==
  ASSUME NEW path \in Paths, NEW name \in SettingsNames, util_str_ends_with(path, name)
  PROVE  path \notin {hdd, mounts}
<1>1. path # <<>> /\ Last(path) = name
  BY EndsWith DEF Paths
<1>2. name \notin {"/dev/hdd", "/proc/mounts"}
  BY DEF SettingsNames, ASSET_X2_SETTINGS_FILE_NAME, ASSET_ZERO_SETTINGS_FILE_NAME,
         ASSET_NX_SETTINGS_FILE_NAME
<1>3. Last(hdd) = "/dev/hdd" /\ Last(mounts) = "/proc/mounts"
  BY DEF Last, hdd, mounts
<1> QED
  BY <1>1, <1>2, <1>3

LEMMA UnlockListed ==
  ASSUME game \in {"x2", "zero", "nx"} PROVE Listed("settings")
<1>1. /\ file_handlers["x2"][2] = "unlock" /\ 2 \in DOMAIN file_handlers["x2"]
      /\ file_handlers["zero"][2] = "unlock" /\ 2 \in DOMAIN file_handlers["zero"]
      /\ file_handlers["nx"][4] = "unlock" /\ 4 \in DOMAIN file_handlers["nx"]
  BY DEF file_handlers
<1> QED
  BY <1>1 DEF Listed, HandlerOf, StreamLatches

LEMMA UnlockReturnsKeep ==
  ASSUME Inv, UNCHANGED suite, NEW t \in Threads, NEW name \in SettingsNames,
         game \in {"x2", "zero", "nx"}, UnlockReturns(t, name)
  PROVE  Inv'
<1>1. /\ IsIn(t) /\ Top(t).going = "up" /\ Top(t).waiting # <<>> /\ Become(t, Seen(Top(t)))
      /\ latch' = (IF /\ Op(t) = "OPEN" /\ Top(t).result = SUCCESS
                      /\ util_str_ends_with(Top(t).irp.path, name)
                   THEN [latch EXCEPT !["settings"] = Top(t).irp.h] ELSE latch)
      /\ UNCHANGED <<errno, diskVars, hdd_fp, mount_eof, is_creating_file>>
  BY DEF UnlockReturns, Seen
<1>2. game \in Games /\ Top(t) \in Frames(game) /\ Top(t) \in FrameTypes /\ Top(t).fn \in Fns
      /\ Top(t).irp.path \in Paths
  BY <1>1, TopIsFrame, GameIsGame, FrameParts DEF Inv, Requests
<1>3. PICK f \in Frames(game) : f = Seen(Top(t))
  BY <1>1, <1>2, SeenFrame
<1>4. /\ Become(t, f) /\ f.fn = Top(t).fn /\ f.asked = Top(t).asked /\ f.irp = Top(t).irp
      /\ f.going = "up" /\ f.pc = Top(t).pc /\ f.result = Top(t).result
  BY <1>1, <1>2, <1>3, SeenFields
<1>5. RestInv' /\ OnlyOwn(t) /\ errno' = [errno EXCEPT ![t] = errno'[t]]
  BY <1>1 DEF Inv, RestInv, HandleTypes, diskVars, RealErrnos, OnlyOwn
<1>6. hooked[Top(t).fn].chain = "file"
  BY <1>1, <1>2 DEF Frames, IsPlaced
<1>7. ASSUME Op(t) = "OPEN", Top(t).result = SUCCESS, util_str_ends_with(Top(t).irp.path, name)
      PROVE  /\ Mine(t, streams, Top(t).irp.h) /\ Top(t).irp.h \in 0..MaxHandles
             /\ streams[Top(t).irp.h].path = Top(t).irp.path
  <2>1. Top(t).fn = "fopen"
    <3>1. hooked[Top(t).fn].op = "OPEN"
      BY <1>7 DEF Op
    <3> QED
      BY <1>2, <1>6, <3>1, HookedTable
  <2>2. Top(t).irp.path \notin {hdd, mounts}
    BY <1>2, <1>7, SettingsAreNoDevices
  <2>3. Opened_(t, Top(t))
    BY <1>1 DEF Inv, ThreadInv, HoldsAt
  <2>4. Mine(t, streams, Top(t).irp.h) /\ streams[Top(t).irp.h].path = Top(t).irp.path
    BY <1>1, <1>7, <2>1, <2>2, <2>3 DEF Opened_
  <2> QED
    BY <2>4, HandlesAreNumbers DEF Mine
<1>8. /\ latch' \in [LatchNames -> 0..MaxHandles]
      /\ \A n \in LatchNames : n # "settings" => latch'[n] = latch[n]
  <2>1. latch \in [LatchNames -> 0..MaxHandles]
    BY DEF Inv, LatchOpen
  <2> QED
    BY <1>1, <1>7, <2>1
<1>9. ASSUME NEW n \in LatchNames, latch'[n] # 0 PROVE LatchStep(t, n)
  <2>1. CASE latch'[n] = latch[n]
    BY <1>1, <2>1 DEF LatchStep, HandlesFor, Frees, diskVars
  <2>2. CASE latch'[n] # latch[n]
    <3>1. /\ n = "settings" /\ Op(t) = "OPEN" /\ Top(t).result = SUCCESS
          /\ util_str_ends_with(Top(t).irp.path, name)
      BY <1>1, <1>8, <2>2
    <3>2. latch'[n] = Top(t).irp.h
      BY <1>1, <3>1 DEF Inv, LatchOpen
    <3>3. HandlesFor(n) = streams /\ HandlesFor(n)' = streams' /\ streams' = streams
      BY <1>1, <3>1 DEF HandlesFor, StreamLatches, diskVars
    <3>4. IsFor(n, streams[latch'[n]]) /\ streams[latch'[n]].owner = t
      BY <1>7, <3>1, <3>2 DEF IsFor, Mine
    <3> QED
      BY <1>1, <3>1, <3>3, <3>4, UnlockListed DEF LatchStep
  <2> QED
    BY <2>1, <2>2
<1>10. Opened_(t, f)'
  <2>1. Opened_(t, Top(t))
    BY <1>1 DEF Inv, ThreadInv, HoldsAt
  <2> QED
    BY <1>1, <1>4, <2>1 DEF Opened_, Mine, diskVars
<1>11. ReturnAt(t)'
  <2>1. Top(t)' = f
    BY <1>1, <1>4, BecomesKeep
  <2> QED
    BY <1>4, <2>1 DEF ReturnAt
<1>12. \A h : Mine(t, streams, h) => Mine(t, streams', h)
  BY <1>1 DEF diskVars
<1> QED
  BY <1>1, <1>4, <1>5, <1>8, <1>9, <1>10, <1>11, <1>12, UpStep

LEMMA UnlockStep ==
  ASSUME Inv, UNCHANGED suite, NEW t \in Threads,
         \/ _hook_x2_unlock_filehook(t) \/ _hook_zerounlock_filehook(t)
         \/ _hook_nx_unlock_filehook(t)
  PROVE  Inv'
BY UnlocksStep, UnlockReturnsKeep
DEF _hook_x2_unlock_filehook, _hook_zerounlock_filehook, _hook_nx_unlock_filehook, SettingsNames

-----------------------------------------------------------------------------
(* The real functions.                                                        *)

LEMMA ReturnedFields ==
  ASSUME NEW f \in FrameTypes, NEW real, NEW irp
  PROVE  LET p == Returned(f, real, irp)
         IN /\ p.fn = f.fn /\ p.asked = f.asked /\ p.irp = irp /\ p.going = "up" /\ p.pc = f.pc
            /\ p.result = f.result
BY DEF FrameTypes, Returned
LEMMA FailedFields ==
  ASSUME NEW f \in FrameTypes, NEW real, NEW e
  PROVE  LET p == Failed(f, real, e)
         IN /\ p.fn = f.fn /\ p.asked = f.asked /\ p.going = "up" /\ p.pc = f.pc
            /\ p.result = cnh_errno_to_result(e)
BY DEF FrameTypes, Failed

\* What a real function does to the disk: it changes no handle of another thread
\* and none that a handler answers for.
DiskStep(t) ==
  /\ tree' \in [Disk -> {"absent", "partial", "complete"}]
  /\ HandleTypes(streams') /\ HandleTypes(fds') /\ OnlyOwn(t)
  /\ \A n \in LatchNames :
       latch[n] # 0 => HandlesFor(n)'[latch[n]] = HandlesFor(n)[latch[n]]
  /\ \A h \in 1..MaxHandles :
       Mine(t, streams, h) => Mine(t, streams', h) \/ Top(t).fn = "fclose"

LEMMA QuietDisk == ASSUME Inv, NEW t \in Threads, UNCHANGED diskVars PROVE DiskStep(t)
BY DEF DiskStep, Inv, RestInv, HandleTypes, OnlyOwn, HandlesFor, diskVars, Mine

LEMMA RealUp ==
  ASSUME Inv, UNCHANGED suite, NEW t \in Threads, Has(t, "real"), UNCHANGED handlerVars, DiskStep(t),
         NEW f \in Frames(game), Become(t, f), f.fn = Top(t).fn, f.asked = Top(t).asked,
         f.pc = Top(t).pc, f.going = "up", errno' = [errno EXCEPT ![t] = errno'[t]],
         errno'[t] \in {OK, "EIO", "EBADF", "EMFILE"} \cup DOMAIN known \cup RealErrnos,
         Opened_(t, f)'
  PROVE  Inv'
<1>1. IsIn(t) /\ Top(t).going = "down" /\ Top(t).pc # "closed"
  BY HasTurn, OnlyDogFrees DEF Inv
<1>2. RestInv'
  <2>1. errno' \in [Threads -> {OK, "EIO", "EBADF", "EMFILE"} \cup DOMAIN known \cup RealErrnos]
    <3> HIDE DEF known
    <3> QED
      BY DEF Inv, RestInv
  <2> QED
    BY <2>1 DEF DiskStep, Inv, RestInv, HandleTypes, handlerVars, RealErrnos
<1>3. latch' = latch /\ latch \in [LatchNames -> 0..MaxHandles] /\ is_creating_file' = is_creating_file
  BY DEF handlerVars, Inv, LatchOpen
<1>4. ASSUME NEW n \in LatchNames, latch'[n] # 0 PROVE LatchStep(t, n)
  BY <1>1, <1>3, <1>4 DEF LatchStep, DiskStep, Frees
<1>5. ReturnAt(t)'
  <2>1. Top(t)' = f
    BY <1>1, BecomesKeep
  <2> QED
    BY <2>1 DEF ReturnAt
<1>6. OnlyOwn(t) /\ \A h \in 1..MaxHandles :
                      Mine(t, streams, h) => Mine(t, streams', h) \/ Top(t).fn = "fclose"
  BY DEF DiskStep
<1> QED
  BY <1>1, <1>2, <1>3, <1>4, <1>5, <1>6, UpStep

LEMMA ReturnsKeep ==
  ASSUME Inv, UNCHANGED suite, NEW t \in Threads, Has(t, "real"), UNCHANGED handlerVars, DiskStep(t),
         NEW real \in Int, NEW irp \in Requests, Same(irp, Top(t)), Returns(t, real, irp),
         real = Given(hooked[Top(t).fn].good, irp),
         Top(t).fn = "fopen" => Mine(t, streams', irp.h) /\ irp.h # 0 /\ streams'[irp.h].path = irp.path
  PROVE  Inv'
<1>1. game \in Games /\ Top(t) \in Frames(game) /\ Top(t) \in FrameTypes /\ AtReal(game, Top(t))
      /\ IsIn(t)
  BY HasTurn, GameIsGame DEF Inv, Frames
<1>2. PICK f \in Frames(game) : f = Returned(Top(t), real, irp)
  BY <1>1, ReturnFrame
<1>3. /\ Become(t, f) /\ f.fn = Top(t).fn /\ f.asked = Top(t).asked /\ f.irp = irp
      /\ f.pc = Top(t).pc /\ f.going = "up"
  BY <1>1, <1>2, ReturnedFields DEF Returns, Returned
<1>4. errno' = [errno EXCEPT ![t] = errno'[t]]
      /\ errno'[t] \in {OK, "EIO", "EBADF", "EMFILE"} \cup DOMAIN known \cup RealErrnos
  <2> HIDE DEF known
  <2> QED
    BY DEF Returns, Inv, RestInv
<1>5. Opened_(t, f)'
  BY <1>3 DEF Opened_, Mine
<1> QED
  BY <1>3, <1>4, <1>5, RealUp

LEMMA ErrorsTyped ==
  ASSUME Inv, NEW e \in RealErrnos \cup {"ENOENT", "EMFILE"}
  PROVE  /\ e \in Errors /\ e # OK
         /\ e \in {OK, "EIO", "EBADF", "EMFILE"} \cup DOMAIN known \cup RealErrnos
<1>1. RealErrnos \subseteq STRING \ {OK}
  BY SuitesAreCalls DEF Inv, SuiteInv, RealErrnos
<1>2. "ENOENT" \in DOMAIN known
  BY DEF known
<1>3. "ENOENT" # OK /\ "EMFILE" # OK
  BY DEF OK
<1> HIDE DEF known
<1> QED
  BY <1>1, <1>2, <1>3 DEF Errors

LEMMA FailsKeep ==
  ASSUME Inv, UNCHANGED suite, NEW t \in Threads, Has(t, "real"), UNCHANGED handlerVars, DiskStep(t),
         NEW e, e \in RealErrnos \cup {"ENOENT", "EMFILE"} \/ (e = errno[t] /\ e # OK),
         NEW real, real = hooked[Top(t).fn].bad, Fails(t, real, e), Top(t).fn # "feof"
  PROVE  Inv'
<1>1. game \in Games /\ Top(t) \in Frames(game) /\ Top(t) \in FrameTypes /\ AtReal(game, Top(t))
      /\ IsIn(t)
  BY HasTurn, GameIsGame DEF Inv, Frames
<1>2. /\ e \in Errors /\ e # OK
      /\ e \in {OK, "EIO", "EBADF", "EMFILE"} \cup DOMAIN known \cup RealErrnos
  <2>1. CASE e \in RealErrnos \cup {"ENOENT", "EMFILE"}
    BY <2>1, ErrorsTyped
  <2>2. CASE e = errno[t] /\ e # OK
    <3>1. e \in {OK, "EIO", "EBADF", "EMFILE"} \cup DOMAIN known \cup RealErrnos
      <4> HIDE DEF known
      <4> QED
        BY <2>2 DEF Inv, RestInv
    <3>2. RealErrnos \subseteq Errors
      BY ErrorsTyped
    <3> HIDE DEF known
    <3> QED
      BY <2>2, <3>1, <3>2 DEF Errors
  <2> QED
    BY <2>1, <2>2
<1>3. PICK f \in Frames(game) : f = Failed(Top(t), real, e)
  BY <1>1, <1>2, FailFrame
<1>4. /\ Become(t, f) /\ f.fn = Top(t).fn /\ f.asked = Top(t).asked
      /\ f.pc = Top(t).pc /\ f.going = "up" /\ f.result = cnh_errno_to_result(e)
  BY <1>1, <1>3, FailedFields DEF Fails, Failed
<1>5. errno' = [errno EXCEPT ![t] = errno'[t]] /\ errno'[t] = e
  BY DEF Fails, Inv, RestInv
<1>6. Opened_(t, f)'
  <2>1. f.result # SUCCESS
    BY <1>2, <1>4, ErrorsHaveResults
  <2> QED
    BY <2>1 DEF Opened_
<1> QED
  BY <1>2, <1>4, <1>5, <1>6, RealUp

\* What the wrappers of each operation give after a success and after a failure.
LEMMA OpTable ==
  ASSUME NEW fn \in Fns
  PROVE  LET w == hooked[fn]
         IN /\ w.op \in {"READ", "WRITE"} /\ w.chain = "file" => w.good = "items" /\ w.bad = 0
            /\ w.op \in {"READ", "WRITE"} /\ w.chain = "io" => w.good = "pos" /\ w.bad = -1
            /\ w.op = "FGETS" => w.good = "line" /\ w.bad = 0
            /\ w.op = "SEEK" /\ w.chain = "file" =>
                 IF fn = "rewind" THEN w.good = "nothing" /\ w.bad = 0 ELSE w.good = "zero" /\ w.bad = -1
            /\ w.op = "SEEK" /\ w.chain = "io" => w.good = "off" /\ w.bad = -1
            /\ w.op = "TELL" => w.good = "off" /\ w.bad = -1
            /\ w.op = "EOF" => w.good = "eof"
            /\ w.op = "OPEN" => w.good = "h" /\ w.bad = 0
            /\ w.op = "CLOSE" => w.good = "zero" /\ w.bad = -1
            /\ w.op = "FDOPEN" => w.bad = 0
            /\ w.op = "IOCTL" => w.good = "pos" /\ w.bad = -1
            /\ w.op = "DIR_OPEN" => w.good = "dir" /\ w.bad = 0
            /\ w.op \in {"LXSTAT", "XSTAT", "ACCESS", "RENAME", "REMOVE"} => w.good = "zero" /\ w.bad = -1
<1>1. CASE fn \in {"fopen", "fclose", "fread", "fwrite", "fgets"}
  BY <1>1 DEF hooked, F, fopen, fclose, fread, fwrite, fgets
<1>2. CASE fn \in {"fseek", "rewind", "ftell", "feof"}
  BY <1>2 DEF hooked, F, fseek, rewind, ftell, feof
<1>3. CASE fn \in {"open", "fdopen", "close", "read", "write", "lseek", "ioctl"}
  BY <1>3 DEF hooked, F, open, fdopen, close, read, write, lseek, ioctl
<1>4. CASE fn \in {"opendir", "__lxstat", "__xstat", "rename", "remove", "access"}
  BY <1>4 DEF hooked, F, opendir, __lxstat, __xstat, rename, remove, access
<1>5. \/ fn \in {"fopen", "fclose", "fread", "fwrite", "fgets"}
      \/ fn \in {"fseek", "rewind", "ftell", "feof"}
      \/ fn \in {"open", "fdopen", "close", "read", "write", "lseek", "ioctl"}
      \/ fn \in {"opendir", "__lxstat", "__xstat", "rename", "remove", "access"}
  BY DEF Fns, hooked
<1> QED
  BY <1>1, <1>2, <1>3, <1>4, <1>5

LEMMA AtRealCall ==
  ASSUME Inv, NEW t \in Threads, NEW op, Real(t, op)
  PROVE  /\ Has(t, "real") /\ UNCHANGED handlerVars /\ IsIn(t) /\ Top(t) \in Frames(game)
         /\ game \in Games /\ Top(t) \in FrameTypes
         /\ Top(t).fn \in Fns /\ hooked[Top(t).fn].op = op /\ Top(t).irp \in Requests
         /\ Top(t).irp.pos = 0 /\ Top(t).irp.line = 1 /\ Top(t).going = "down" /\ Top(t).pc = "in"
         /\ AtReal(game, Top(t))
<1>1. Has(t, "real") /\ UNCHANGED handlerVars /\ Op(t) = op
  BY DEF Real
<1>2. /\ IsIn(t) /\ Top(t) \in Frames(game) /\ Top(t).going = "down" /\ AtReal(game, Top(t))
      /\ game \in Games
  BY <1>1, HasTurn, GameIsGame DEF Inv
<1>3. Top(t).pc = "in"
  BY <1>2, BehindHandlers
<1>4. Top(t).irp.pos = 0 /\ Top(t).irp.line = 1
  BY <1>2 DEF Frames, IsUntouched
<1> QED
  BY <1>1, <1>2, <1>3, <1>4, FrameParts DEF Op, Frames

LEMMA MayFailKeep ==
  ASSUME Inv, UNCHANGED suite, NEW t \in Threads, NEW op, Real(t, op), NEW real,
         real = hooked[Top(t).fn].bad, MayFail(t, real), Top(t).fn # "feof"
  PROVE  Inv'
<1>1. PICK e \in RealErrnos : Fails(t, real, e)
  BY DEF MayFail
<1>2. DiskStep(t)
  BY QuietDisk DEF MayFail
<1>3. Has(t, "real") /\ UNCHANGED handlerVars
  BY AtRealCall
<1>4. e \in RealErrnos \cup {"ENOENT", "EMFILE"}
  OBVIOUS
<1>5. e \in RealErrnos \cup {"ENOENT", "EMFILE"} \/ (e = errno[t] /\ e # OK)
  BY Zenon, <1>4
<1>6. /\ real = hooked[Top(t).fn].bad /\ Fails(t, real, e) /\ Top(t).fn # "feof"
      /\ Inv /\ UNCHANGED suite
  BY <1>1
<1> HIDE DEF RealErrnos
<1> QED
  BY ONLY <1>2, <1>3, <1>5, <1>6, FailsKeep, t \in Threads

\* A call that leaves the disk alone returns.
LEMMA QuietReturns ==
  ASSUME Inv, UNCHANGED suite, NEW t \in Threads, NEW op, Real(t, op), UNCHANGED diskVars,
         NEW real \in Int, NEW irp \in Requests, Same(irp, Top(t)), Returns(t, real, irp),
         real = Given(hooked[Top(t).fn].good, irp), Top(t).fn # "fopen"
  PROVE  Inv'
BY QuietDisk, AtRealCall, ReturnsKeep

LEMMA NotOpened ==
  ASSUME NEW fn \in Fns, hooked[fn].op # "OPEN" PROVE fn # "fopen"
BY DEF hooked, F, fopen
LEMMA NotEof ==
  ASSUME NEW fn \in Fns, hooked[fn].op # "EOF" PROVE fn # "feof"
BY DEF hooked, F, feof

LEMMA ItemsOf == \A n \in Int : \A size \in Nat \ {0} : (n * size) \div size = n /\ n * size \in Int
<1>1. \A n \in Int : \A size \in Nat \ {0} : (n * size) \div size = n
  BY Z3
<1>2. \A n \in Int : \A size \in Nat \ {0} : n * size \in Int
  OBVIOUS
<1> QED
  BY <1>1, <1>2

LEMMA ItemsKeep ==
  ASSUME Inv, UNCHANGED suite, NEW t \in Threads, NEW op \in {"READ", "WRITE"}, Real(t, op),
         Chain(t) = "file", NEW n \in Int, Returns(t, n, [Top(t).irp EXCEPT !.pos = n * Top(t).irp.size]),
         UNCHANGED diskVars
  PROVE  Inv'
<1> DEFINE irp == [Top(t).irp EXCEPT !.pos = n * Top(t).irp.size]
<1>1. Top(t).irp \in Requests /\ Top(t).fn \in Fns /\ hooked[Top(t).fn].op = op
  BY AtRealCall
<1>2. Top(t).irp.size \in Nat \ {0}
  BY <1>1 DEF Requests
<1>3. n * Top(t).irp.size \in Int /\ (n * Top(t).irp.size) \div Top(t).irp.size = n
  BY <1>2, ItemsOf
<1>4. irp \in Requests /\ Same(irp, Top(t)) /\ irp.pos = n * Top(t).irp.size
      /\ irp.size = Top(t).irp.size
  BY <1>1, <1>3 DEF Requests, Same
<1> HIDE DEF irp
<1>5. hooked[Top(t).fn].good = "items" /\ Top(t).fn # "fopen"
  BY <1>1, OpTable, NotOpened DEF Chain
<1>6. Given("items", irp) = n
  BY <1>3, <1>4 DEF Given
<1>7. Returns(t, n, irp)
  BY DEF irp
<1> QED
  BY <1>4, <1>5, <1>6, <1>7, QuietReturns

LEMMA ReadWriteStep ==
  ASSUME Inv, UNCHANGED suite, NEW t \in Threads,
         _cnh_filehook_invoke_real_fread(t) \/ _cnh_filehook_invoke_real_fwrite(t)
  PROVE  Inv'
<1>1. PICK op \in {"READ", "WRITE"} :
        /\ Real(t, op) /\ Chain(t) = "file"
        /\ \/ /\ \E n \in {0, Top(t).irp.nmemb - 1, Top(t).irp.nmemb} :
                   Returns(t, n, [Top(t).irp EXCEPT !.pos = n * Top(t).irp.size])
              /\ UNCHANGED diskVars
           \/ MayFail(t, 0)
  <2>1. CASE _cnh_filehook_invoke_real_fread(t)
    BY Zenon, <2>1 DEF _cnh_filehook_invoke_real_fread
  <2>2. CASE _cnh_filehook_invoke_real_fwrite(t)
    BY Zenon, <2>2 DEF _cnh_filehook_invoke_real_fwrite
  <2> QED
    BY <2>1, <2>2
<1>2. Top(t).irp \in Requests /\ Top(t).fn \in Fns /\ hooked[Top(t).fn].op = op
  BY <1>1, AtRealCall
<1>3. hooked[Top(t).fn].bad = 0 /\ Top(t).fn # "feof"
  BY <1>1, <1>2, OpTable, NotEof DEF Chain
<1>4. CASE MayFail(t, 0)
  BY <1>1, <1>3, <1>4, MayFailKeep
<1>5. CASE /\ \E n \in {0, Top(t).irp.nmemb - 1, Top(t).irp.nmemb} :
                Returns(t, n, [Top(t).irp EXCEPT !.pos = n * Top(t).irp.size])
           /\ UNCHANGED diskVars
  <2>1. PICK n \in {0, Top(t).irp.nmemb - 1, Top(t).irp.nmemb} :
          Returns(t, n, [Top(t).irp EXCEPT !.pos = n * Top(t).irp.size])
    BY <1>5
  <2>2. n \in Int
    BY <1>2 DEF Requests
  <2> QED
    BY <1>1, <1>5, <2>1, <2>2, ItemsKeep
<1> QED
  BY <1>1, <1>4, <1>5

\* read and write of a descriptor, and ioctl.
LEMMA CountKeep ==
  ASSUME Inv, UNCHANGED suite, NEW t \in Threads, NEW op \in {"READ", "WRITE", "IOCTL"}, Real(t, op),
         op # "IOCTL" => Chain(t) = "io", NEW n \in Int, NEW irp,
         irp \in {[Top(t).irp EXCEPT !.pos = n], [Top(t).irp EXCEPT !.pos = @ + n]},
         Returns(t, n, irp), UNCHANGED diskVars
  PROVE  Inv'
<1>1. Top(t).irp \in Requests /\ Top(t).fn \in Fns /\ hooked[Top(t).fn].op = op
      /\ Top(t).irp.pos = 0
  BY AtRealCall
<1>2. irp \in Requests /\ Same(irp, Top(t)) /\ irp.pos = n
  <2>1. CASE irp = [Top(t).irp EXCEPT !.pos = n]
    BY <1>1, <2>1 DEF Requests, Same
  <2>2. CASE irp = [Top(t).irp EXCEPT !.pos = @ + n]
    BY <1>1, <2>2 DEF Requests, Same
  <2> QED
    BY <2>1, <2>2
<1>3. hooked[Top(t).fn].good = "pos" /\ Top(t).fn # "fopen"
  BY <1>1, OpTable, NotOpened DEF Chain
<1>4. Given("pos", irp) = n
  BY <1>2 DEF Given
<1> QED
  BY <1>2, <1>3, <1>4, QuietReturns

LEMMA CountStep ==
  ASSUME Inv, UNCHANGED suite, NEW t \in Threads,
         \/ _cnh_iohook_invoke_real_read(t) \/ _cnh_iohook_invoke_real_write(t)
         \/ _cnh_iohook_invoke_real_ioctl(t)
  PROVE  Inv'
<1>1. PICK op \in {"READ", "WRITE", "IOCTL"} :
        /\ Real(t, op)
        /\ op # "IOCTL" => Chain(t) = "io"
        /\ \/ /\ \E n \in {0, 1, nbytes(Top(t).irp)} :
                   \/ Returns(t, n, [Top(t).irp EXCEPT !.pos = n])
                   \/ Returns(t, n, [Top(t).irp EXCEPT !.pos = @ + n])
              /\ UNCHANGED diskVars
           \/ MayFail(t, -1)
  <2>1. CASE _cnh_iohook_invoke_real_read(t)
    BY Zenon, <2>1 DEF _cnh_iohook_invoke_real_read
  <2>2. CASE _cnh_iohook_invoke_real_write(t)
    BY Zenon, <2>2 DEF _cnh_iohook_invoke_real_write
  <2>3. CASE _cnh_iohook_invoke_real_ioctl(t)
    BY Zenon, <2>3 DEF _cnh_iohook_invoke_real_ioctl
  <2> QED
    BY <2>1, <2>2, <2>3
<1>2. Top(t).irp \in Requests /\ Top(t).fn \in Fns /\ hooked[Top(t).fn].op = op
  BY <1>1, AtRealCall
<1>3. hooked[Top(t).fn].bad = -1 /\ Top(t).fn # "feof"
  BY <1>1, <1>2, OpTable, NotEof DEF Chain
<1>4. CASE MayFail(t, -1)
  BY <1>1, <1>3, <1>4, MayFailKeep
<1>5. CASE /\ \E n \in {0, 1, nbytes(Top(t).irp)} :
                \/ Returns(t, n, [Top(t).irp EXCEPT !.pos = n])
                \/ Returns(t, n, [Top(t).irp EXCEPT !.pos = @ + n])
           /\ UNCHANGED diskVars
  <2>1. PICK n \in {0, 1, nbytes(Top(t).irp)} :
                \/ Returns(t, n, [Top(t).irp EXCEPT !.pos = n])
                \/ Returns(t, n, [Top(t).irp EXCEPT !.pos = @ + n])
    BY <1>5
  <2>2. n \in Int
    BY <1>2 DEF Requests, nbytes
  <2> QED
    BY <1>1, <1>5, <2>1, <2>2, CountKeep
<1> QED
  BY <1>1, <1>4, <1>5

LEMMA FgetsStep ==
  ASSUME Inv, UNCHANGED suite, NEW t \in Threads, _cnh_filehook_invoke_real_fgets(t)
  PROVE  Inv'
<1>1. Real(t, "FGETS")
  BY DEF _cnh_filehook_invoke_real_fgets
<1>2. Top(t).irp \in Requests /\ Top(t).fn \in Fns /\ hooked[Top(t).fn].op = "FGETS"
      /\ Top(t).irp.line = 1 /\ Has(t, "real") /\ UNCHANGED handlerVars
  BY <1>1, AtRealCall
<1>3. /\ hooked[Top(t).fn].bad = 0 /\ hooked[Top(t).fn].good = "line" /\ Top(t).fn # "feof"
      /\ Top(t).fn # "fopen"
  BY <1>2, OpTable, NotEof, NotOpened
<1>4. CASE Returns(t, 1, Top(t).irp) /\ UNCHANGED diskVars
  <2>1. Given("line", Top(t).irp) = 1
    BY <1>2 DEF Given
  <2> QED
    BY <1>1, <1>2, <1>3, <1>4, <2>1, QuietReturns DEF Same
<1>5. CASE Returns(t, 0, [Top(t).irp EXCEPT !.line = 0]) /\ UNCHANGED diskVars
  <2>1. PICK irp \in Requests : irp = [Top(t).irp EXCEPT !.line = 0]
    <3>1. [Top(t).irp EXCEPT !.line = 0] \in Requests
      BY <1>2 DEF Requests
    <3> QED
      BY Zenon, <3>1
  <2>2. Same(irp, Top(t)) /\ irp.line = 0
    BY <1>2, <2>1 DEF Requests, Same
  <2>3. Given("line", irp) = 0
    BY <2>2 DEF Given
  <2>4. Returns(t, 0, irp)
    BY <1>5, <2>1
  <2> QED
    BY <1>1, <1>3, <1>5, <2>2, <2>3, <2>4, QuietReturns
<1>6. CASE errno[t] # OK /\ Fails(t, 0, errno[t]) /\ UNCHANGED diskVars
  <2>1. DiskStep(t)
    BY <1>6, QuietDisk
  <2>2. PICK e : e = errno[t] /\ e # OK
    BY <1>6
  <2>3. Fails(t, 0, e)
    BY <1>6, <2>2
  <2> QED
    BY <1>2, <1>3, <2>1, <2>2, <2>3, FailsKeep
<1>7. CASE MayFail(t, 0)
  BY <1>1, <1>3, <1>7, MayFailKeep
<1> QED
  BY <1>4, <1>5, <1>6, <1>7 DEF _cnh_filehook_invoke_real_fgets

LEMMA SeekStep ==
  ASSUME Inv, UNCHANGED suite, NEW t \in Threads,
         _cnh_filehook_invoke_real_fseek(t) \/ _cnh_iohook_invoke_real_seek(t)
  PROVE  Inv'
<1>1. Real(t, "SEEK")
  BY DEF _cnh_filehook_invoke_real_fseek, _cnh_iohook_invoke_real_seek
<1>2. Top(t).irp \in Requests /\ Top(t).fn \in Fns /\ hooked[Top(t).fn].op = "SEEK"
      /\ Top(t).irp.off \in Int
  BY <1>1, AtRealCall DEF Requests
<1>3. Top(t).fn # "feof" /\ Top(t).fn # "fopen" /\ Same(Top(t).irp, Top(t))
  BY <1>2, NotEof, NotOpened DEF Same
<1>4. CASE _cnh_filehook_invoke_real_fseek(t)
  <2>1. /\ hooked[Top(t).fn].bad = IF Top(t).fn = "rewind" THEN 0 ELSE -1
        /\ hooked[Top(t).fn].good \in {"zero", "nothing"}
    BY <1>2, <1>4, OpTable DEF Chain, _cnh_filehook_invoke_real_fseek
  <2>2. Given(hooked[Top(t).fn].good, Top(t).irp) = 0
    BY <2>1 DEF Given
  <2>3. CASE Returns(t, 0, Top(t).irp) /\ UNCHANGED diskVars
    BY <1>1, <1>2, <1>3, <2>2, <2>3, QuietReturns
  <2>4. CASE MayFail(t, IF Top(t).fn = "rewind" THEN 0 ELSE -1)
    BY <1>1, <1>3, <2>1, <2>4, MayFailKeep
  <2> QED
    BY <1>4, <2>3, <2>4 DEF _cnh_filehook_invoke_real_fseek
<1>5. CASE _cnh_iohook_invoke_real_seek(t)
  <2>1. hooked[Top(t).fn].bad = -1 /\ hooked[Top(t).fn].good = "off"
    BY <1>2, <1>5, OpTable DEF Chain, _cnh_iohook_invoke_real_seek
  <2>2. Given("off", Top(t).irp) = Top(t).irp.off
    BY DEF Given
  <2>3. CASE Returns(t, Top(t).irp.off, Top(t).irp) /\ UNCHANGED diskVars
    BY <1>1, <1>2, <1>3, <2>1, <2>2, <2>3, QuietReturns
  <2>4. CASE MayFail(t, -1)
    BY <1>1, <1>3, <2>1, <2>4, MayFailKeep
  <2> QED
    BY <1>5, <2>3, <2>4 DEF _cnh_iohook_invoke_real_seek
<1> QED
  BY <1>4, <1>5

LEMMA TellStep ==
  ASSUME Inv, UNCHANGED suite, NEW t \in Threads,
         _cnh_filehook_invoke_real_ftell(t) \/ _cnh_filehook_invoke_real_feof(t)
  PROVE  Inv'
<1>1. CASE _cnh_filehook_invoke_real_ftell(t)
  <2>1. Real(t, "TELL")
    BY <1>1 DEF _cnh_filehook_invoke_real_ftell
  <2>2. Top(t).irp \in Requests /\ Top(t).fn \in Fns /\ hooked[Top(t).fn].op = "TELL"
    BY <2>1, AtRealCall
  <2>3. Top(t).fn # "feof" /\ Top(t).fn # "fopen" /\ hooked[Top(t).fn].bad = -1
        /\ hooked[Top(t).fn].good = "off"
    BY <2>2, NotEof, NotOpened, OpTable
  <2>4. CASE MayFail(t, -1)
    BY <2>1, <2>3, <2>4, MayFailKeep
  <2>5. ASSUME NEW off \in {0, 1}, Returns(t, off, [Top(t).irp EXCEPT !.off = off]),
               UNCHANGED diskVars
        PROVE  Inv'
    <3>1. PICK irp \in Requests : irp = [Top(t).irp EXCEPT !.off = off]
      <4>1. [Top(t).irp EXCEPT !.off = off] \in Requests
        BY <2>2 DEF Requests
      <4> QED
        BY Zenon, <4>1
    <3>2. Same(irp, Top(t)) /\ irp.off = off /\ off \in Int
      BY <2>2, <3>1 DEF Requests, Same
    <3>3. Given("off", irp) = off /\ Returns(t, off, irp)
      BY <2>5, <3>1, <3>2 DEF Given
    <3> QED
      BY <2>1, <2>3, <2>5, <3>2, <3>3, QuietReturns
  <2> QED
    BY <1>1, <2>4, <2>5 DEF _cnh_filehook_invoke_real_ftell
<1>2. CASE _cnh_filehook_invoke_real_feof(t)
  <2>1. Real(t, "EOF") /\ UNCHANGED diskVars
    BY <1>2 DEF _cnh_filehook_invoke_real_feof
  <2>2. Top(t).irp \in Requests /\ Top(t).fn \in Fns /\ hooked[Top(t).fn].op = "EOF"
    BY <2>1, AtRealCall
  <2>3. Top(t).fn # "fopen" /\ hooked[Top(t).fn].good = "eof"
    BY <2>2, NotOpened, OpTable
  <2>4. PICK eof \in {0, 1} : Returns(t, eof, [Top(t).irp EXCEPT !.eof = eof])
    BY <1>2 DEF _cnh_filehook_invoke_real_feof
  <2>5. PICK irp \in Requests : irp = [Top(t).irp EXCEPT !.eof = eof]
    <3>1. [Top(t).irp EXCEPT !.eof = eof] \in Requests
      BY <2>2 DEF Requests
    <3> QED
      BY Zenon, <3>1
  <2>6. Same(irp, Top(t)) /\ irp.eof = eof /\ eof \in Int
    BY <2>2, <2>5 DEF Requests, Same
  <2>7. Given("eof", irp) = eof /\ Returns(t, eof, irp)
    BY <2>4, <2>5, <2>6 DEF Given
  <2> QED
    BY <2>1, <2>3, <2>6, <2>7, QuietReturns
<1> QED
  BY <1>1, <1>2

LEMMA FdopenStep ==
  ASSUME Inv, UNCHANGED suite, NEW t \in Threads, _cnh_iohook_invoke_real_fdopen(t)
  PROVE  Inv'
<1>1. Real(t, "FDOPEN") /\ MayFail(t, 0)
  BY DEF _cnh_iohook_invoke_real_fdopen
<1>2. Top(t).fn \in Fns /\ hooked[Top(t).fn].op = "FDOPEN"
  BY <1>1, AtRealCall
<1>3. Top(t).fn # "feof" /\ hooked[Top(t).fn].bad = 0
  BY <1>2, NotEof, OpTable
<1> QED
  BY <1>1, <1>3, MayFailKeep

\* The calls on names.
LEMMA NameKeep ==
  ASSUME Inv, UNCHANGED suite, NEW t \in Threads, NEW op, NEW good \in Int, NEW bad,
         OnName(t, op, good, bad), op # "OPEN", op # "EOF",
         hooked[Top(t).fn].bad = bad, good = Given(hooked[Top(t).fn].good, Top(t).irp)
  PROVE  Inv'
<1>1. Real(t, op)
  BY DEF OnName
<1>2. /\ Top(t).irp \in Requests /\ Top(t).fn \in Fns /\ hooked[Top(t).fn].op = op
      /\ Has(t, "real") /\ UNCHANGED handlerVars
  BY <1>1, AtRealCall
<1>3. Top(t).fn # "feof" /\ Top(t).fn # "fopen" /\ Same(Top(t).irp, Top(t))
  BY <1>2, NotEof, NotOpened DEF Same
<1>4. CASE Returns(t, good, Top(t).irp) /\ UNCHANGED diskVars
  BY <1>1, <1>2, <1>3, <1>4, QuietReturns
<1>5. CASE Fails(t, bad, "ENOENT") /\ UNCHANGED diskVars
  <2>1. DiskStep(t)
    BY <1>5, QuietDisk
  <2> QED
    BY <1>2, <1>3, <1>5, <2>1, FailsKeep
<1>6. CASE MayFail(t, bad)
  BY <1>1, <1>3, <1>6, MayFailKeep
<1> QED
  BY <1>4, <1>5, <1>6 DEF OnName

LEMMA NameStep ==
  ASSUME Inv, UNCHANGED suite, NEW t \in Threads,
         \/ _cnh_fshook_invoke_real_opendir(t) \/ _cnh_fshook_invoke_real_lxstat(t)
         \/ _cnh_fshook_invoke_real_xstat(t) \/ _cnh_fshook_invoke_real_access(t)
  PROVE  Inv'
<1>1. CASE _cnh_fshook_invoke_real_opendir(t)
  <2>1. OnName(t, "DIR_OPEN", 1, 0)
    BY <1>1 DEF _cnh_fshook_invoke_real_opendir
  <2>2. Top(t).fn \in Fns /\ hooked[Top(t).fn].op = "DIR_OPEN"
    BY <2>1, AtRealCall DEF OnName
  <2>3. hooked[Top(t).fn].good = "dir" /\ hooked[Top(t).fn].bad = 0
    BY <2>2, OpTable
  <2>4. Given(hooked[Top(t).fn].good, Top(t).irp) = 1
    BY <2>3 DEF Given
  <2>5. PICK op : op = "DIR_OPEN"
    OBVIOUS
  <2>6. OnName(t, op, 1, 0) /\ op # "OPEN" /\ op # "EOF"
    BY <2>1, <2>5
  <2>7. PICK bad : bad = 0
    OBVIOUS
  <2>8. OnName(t, op, 1, bad) /\ hooked[Top(t).fn].bad = bad
    BY <2>3, <2>6, <2>7
  <2> QED
    BY <2>4, <2>6, <2>8, NameKeep
<1>2. CASE \E op \in {"LXSTAT", "XSTAT", "ACCESS"} : OnName(t, op, 0, -1)
  <2>1. PICK op \in {"LXSTAT", "XSTAT", "ACCESS"} : OnName(t, op, 0, -1)
    BY <1>2
  <2>2. Top(t).fn \in Fns /\ hooked[Top(t).fn].op = op
    BY <2>1, AtRealCall DEF OnName
  <2>3. hooked[Top(t).fn].good = "zero" /\ hooked[Top(t).fn].bad = -1
    BY <2>2, OpTable
  <2>4. Given("zero", Top(t).irp) = 0
    BY DEF Given
  <2>5. op # "OPEN" /\ op # "EOF"
    OBVIOUS
  <2> QED
    BY <2>1, <2>3, <2>4, <2>5, NameKeep
<1> QED
  BY <1>1, <1>2 DEF _cnh_fshook_invoke_real_lxstat, _cnh_fshook_invoke_real_xstat,
     _cnh_fshook_invoke_real_access

\* The disk changes, and no handle does.
LEMMA TreeDisk ==
  ASSUME Inv, NEW t \in Threads, UNCHANGED <<streams, fds>>,
         tree' \in [Disk -> {"absent", "partial", "complete"}]
  PROVE  DiskStep(t)
BY DEF DiskStep, Inv, RestInv, HandleTypes, OnlyOwn, HandlesFor, Mine

LEMMA ChangeKeep ==
  ASSUME Inv, UNCHANGED suite, NEW t \in Threads, NEW op \in {"RENAME", "REMOVE"}, NEW possible,
         NEW tree_, Changing(t, op, possible, tree_),
         possible => tree_ \in [Disk -> {"absent", "partial", "complete"}]
  PROVE  Inv'
<1>1. Real(t, op) /\ UNCHANGED <<streams, fds>>
  BY DEF Changing
<1>2. /\ Top(t).irp \in Requests /\ Top(t).fn \in Fns /\ hooked[Top(t).fn].op = op
      /\ Has(t, "real") /\ UNCHANGED handlerVars
  BY <1>1, AtRealCall
<1>3. Top(t).fn # "feof" /\ Top(t).fn # "fopen" /\ Same(Top(t).irp, Top(t))
  BY <1>2, NotEof, NotOpened DEF Same
<1>4. hooked[Top(t).fn].good = "zero" /\ hooked[Top(t).fn].bad = -1
  BY <1>2, OpTable
<1>5. DiskStep(t)
  <2>1. tree \in [Disk -> {"absent", "partial", "complete"}]
    BY DEF Inv, RestInv
  <2>2. tree' \in [Disk -> {"absent", "partial", "complete"}]
    BY <2>1 DEF Changing
  <2> QED
    BY <1>1, <2>2, TreeDisk
<1>6. CASE Returns(t, 0, Top(t).irp)
  <2>1. Given(hooked[Top(t).fn].good, Top(t).irp) = 0
    BY <1>4 DEF Given
  <2> QED
    BY <1>2, <1>3, <1>5, <1>6, <2>1, ReturnsKeep
<1>7. CASE Fails(t, -1, "ENOENT")
  BY <1>2, <1>3, <1>4, <1>5, <1>7, FailsKeep
<1>8. CASE \E e \in RealErrnos : Fails(t, -1, e)
  <2>1. PICK e \in RealErrnos : Fails(t, -1, e)
    BY <1>8
  <2>2. e \in RealErrnos \cup {"ENOENT", "EMFILE"} \/ (e = errno[t] /\ e # OK)
    BY Zenon
  <2> HIDE DEF RealErrnos
  <2> QED
    BY <1>2, <1>3, <1>4, <1>5, <2>1, <2>2, FailsKeep
<1> QED
  BY <1>6, <1>7, <1>8 DEF Changing

LEMMA ChangeStep ==
  ASSUME Inv, UNCHANGED suite, NEW t \in Threads,
         _cnh_fshook_invoke_real_rename(t) \/ _cnh_fshook_invoke_real_remove(t)
  PROVE  Inv'
<1>1. tree \in [Disk -> {"absent", "partial", "complete"}]
  BY DEF Inv, RestInv
<1>2. CASE _cnh_fshook_invoke_real_rename(t)
  <2> DEFINE old == Top(t).irp.path
             new == Top(t).irp.to
             moved == [p \in Disk |-> IF p = new THEN tree[old]
                                              ELSE IF p = old THEN "absent" ELSE tree[p]]
  <2>1. Changing(t, "RENAME", Exists(old) /\ new \in Disk, moved)
    BY Zenon, <1>2 DEF _cnh_fshook_invoke_real_rename
  <2>2. Exists(old) => moved \in [Disk -> {"absent", "partial", "complete"}]
    BY <1>1 DEF Exists
  <2> HIDE DEF moved, old, new
  <2> QED
    BY <2>1, <2>2, ChangeKeep
<1>3. CASE _cnh_fshook_invoke_real_remove(t)
  <2> DEFINE path == Top(t).irp.path
             left == [p \in Disk |-> IF p = path THEN "absent" ELSE tree[p]]
  <2>1. Changing(t, "REMOVE", Exists(path), left)
    BY Zenon, <1>3 DEF _cnh_fshook_invoke_real_remove
  <2>2. left \in [Disk -> {"absent", "partial", "complete"}]
    BY <1>1
  <2> HIDE DEF left, path
  <2> QED
    BY <2>1, <2>2, ChangeKeep
<1> QED
  BY <1>2, <1>3

\* A file is opened under a free handle, which no handler answers for.
LEMMA StreamDisk ==
  ASSUME Inv, NEW t \in Threads, IsIn(t), ~Frees(Top(t)), NEW h \in Free(streams),
         NEW file \in Files, file.owner = t, file.kind # "closed",
         streams' = [streams EXCEPT ![h] = file], UNCHANGED fds,
         tree' \in [Disk -> {"absent", "partial", "complete"}]
  PROVE  DiskStep(t) /\ h \in 1..MaxHandles /\ streams'[h] = file
<1>1. HandleTypes(streams) /\ HandleTypes(fds)
  BY DEF Inv, RestInv
<1>2. /\ h \in 1..MaxHandles /\ HandleTypes(streams')
      /\ streams[h].owner = "none" /\ streams[h].kind = "closed"
  BY <1>1, OpenedHandle
<1>3. /\ streams'[h] = file
      /\ \A k \in 1..MaxHandles : k # h => streams'[k] = streams[k]
      /\ \A k \in Int : k # h => streams'[k] = streams[k]
  BY <1>1, <1>2 DEF HandleTypes
<1>4. HandleTypes(fds')
  BY <1>1 DEF HandleTypes
<1>5. OnlyOwn(t)
  BY <1>2, <1>3 DEF OnlyOwn
<1>6. ASSUME NEW n \in LatchNames, latch[n] # 0
      PROVE  HandlesFor(n)'[latch[n]] = HandlesFor(n)[latch[n]]
  <2>1. CASE n \notin StreamLatches
    BY <2>1 DEF HandlesFor
  <2>2. CASE n \in StreamLatches
    <3>1. latch[n] # h
      BY <1>2, <1>6, <2>2, NotLatched DEF HandlesFor
    <3>2. latch[n] \in Int
      BY HandlesAreNumbers DEF Inv, LatchOpen
    <3> QED
      BY <1>3, <2>2, <3>1, <3>2 DEF HandlesFor
  <2> QED
    BY <2>1, <2>2
<1>7. \A k \in 1..MaxHandles : Mine(t, streams, k) => Mine(t, streams', k)
  BY <1>3 DEF Mine
<1> QED
  BY <1>2, <1>3, <1>4, <1>5, <1>6, <1>7 DEF DiskStep

LEMMA FdDisk ==
  ASSUME Inv, NEW t \in Threads, IsIn(t), ~Frees(Top(t)), NEW h \in Free(fds),
         NEW file \in Files, file.owner = t, file.kind # "closed",
         fds' = [fds EXCEPT ![h] = file], UNCHANGED streams,
         tree' \in [Disk -> {"absent", "partial", "complete"}]
  PROVE  DiskStep(t) /\ h \in 1..MaxHandles /\ fds'[h] = file
<1>1. HandleTypes(streams) /\ HandleTypes(fds)
  BY DEF Inv, RestInv
<1>2. /\ h \in 1..MaxHandles /\ HandleTypes(fds')
      /\ fds[h].owner = "none" /\ fds[h].kind = "closed"
  BY <1>1, OpenedHandle
<1>3. /\ fds'[h] = file
      /\ \A k \in 1..MaxHandles : k # h => fds'[k] = fds[k]
      /\ \A k \in Int : k # h => fds'[k] = fds[k]
  BY <1>1, <1>2 DEF HandleTypes
<1>4. HandleTypes(streams')
  BY <1>1 DEF HandleTypes
<1>5. OnlyOwn(t)
  BY <1>2, <1>3 DEF OnlyOwn
<1>6. ASSUME NEW n \in LatchNames, latch[n] # 0
      PROVE  HandlesFor(n)'[latch[n]] = HandlesFor(n)[latch[n]]
  <2>1. CASE n \in StreamLatches
    BY <2>1 DEF HandlesFor
  <2>2. CASE n \notin StreamLatches
    <3>1. latch[n] # h
      BY <1>2, <1>6, <2>2, NotLatched DEF HandlesFor
    <3>2. latch[n] \in Int
      BY HandlesAreNumbers DEF Inv, LatchOpen
    <3> QED
      BY <1>3, <2>2, <3>1, <3>2 DEF HandlesFor
  <2> QED
    BY <2>1, <2>2
<1>7. \A k \in 1..MaxHandles : Mine(t, streams, k) => Mine(t, streams', k)
  BY DEF Mine
<1> QED
  BY <1>2, <1>3, <1>4, <1>5, <1>6, <1>7 DEF DiskStep

LEMMA OpenedFile ==
  ASSUME Inv, NEW t \in Threads, NEW f \in Frames(game), f = Top(t)
  PROVE  /\ Opened(t, "file", Top(t).irp) \in Files
         /\ Opened(t, "file", Top(t).irp).owner = t
         /\ Opened(t, "file", Top(t).irp).kind = "file"
         /\ Opened(t, "file", Top(t).irp).path = Top(t).irp.path
<1>1. f.irp \in Requests /\ f \in FrameTypes
  BY FrameParts DEF Frames
<1> QED
  BY <1>1 DEF Opened, Files, Requests, FrameTypes, Modes

\* What an open without a free handle or a file gives.
LEMMA OpenFailsKeep ==
  ASSUME Inv, UNCHANGED suite, NEW t \in Threads, Real(t, "OPEN"), NEW handles,
         OpenReal(t, handles, 0), UNCHANGED diskVars
  PROVE  Inv'
<1>1. /\ Top(t).irp \in Requests /\ Top(t).fn \in Fns /\ hooked[Top(t).fn].op = "OPEN"
      /\ Has(t, "real") /\ UNCHANGED handlerVars
  BY AtRealCall
<1>2. Top(t).fn # "feof" /\ hooked[Top(t).fn].bad = 0
  BY <1>1, NotEof, OpTable
<1>3. DiskStep(t)
  BY QuietDisk
<1>4. PICK e : /\ e \in RealErrnos \cup {"ENOENT", "EMFILE"}
               /\ Fails(t, 0, e)
  BY Zenon DEF OpenReal
<1>5. e \in RealErrnos \cup {"ENOENT", "EMFILE"} \/ (e = errno[t] /\ e # OK)
  BY Zenon, <1>4
<1> HIDE DEF RealErrnos
<1> QED
  BY <1>1, <1>2, <1>3, <1>4, <1>5, FailsKeep

LEMMA OpenTree ==
  ASSUME Inv, NEW t \in Threads, NEW handles, NEW h, h # 0, OpenReal(t, handles, h)
  PROVE  /\ h \in Free(handles)
         /\ Returns(t, h, [Top(t).irp EXCEPT !.h = h])
         /\ tree' \in [Disk -> {"absent", "partial", "complete"}]
<1> DEFINE irp == Top(t).irp
           made == irp.mode = "w" /\ irp.path \in Disk
<1>1. /\ h \in Lowest(handles)
      /\ Returns(t, h, [irp EXCEPT !.h = h])
      /\ tree' = IF made THEN [tree EXCEPT ![irp.path] = "partial"] ELSE tree
  BY Zenon DEF OpenReal
<1>2. tree \in [Disk -> {"absent", "partial", "complete"}]
  BY DEF Inv, RestInv
<1>3. [tree EXCEPT ![irp.path] = "partial"] \in [Disk -> {"absent", "partial", "complete"}]
  BY <1>2
<1>4. h \in Free(handles)
  BY <1>1, LowestIsFree
<1> QED
  BY <1>1, <1>2, <1>3, <1>4

LEMMA FopenStep ==
  ASSUME Inv, UNCHANGED suite, NEW t \in Threads, _cnh_filehook_invoke_real_fopen(t)
  PROVE  Inv'
<1>1. PICK h \in Free(streams) \cup {0} :
        /\ OpenReal(t, streams, h)
        /\ streams' = Keep(streams, t, h)
  BY DEF _cnh_filehook_invoke_real_fopen
<1>2. Real(t, "OPEN") /\ Chain(t) = "file" /\ UNCHANGED fds
  BY DEF _cnh_filehook_invoke_real_fopen
<1>3. /\ Has(t, "real") /\ UNCHANGED handlerVars /\ IsIn(t) /\ Top(t) \in Frames(game)
      /\ Top(t).fn \in Fns /\ hooked[Top(t).fn].op = "OPEN" /\ Top(t).irp \in Requests
      /\ Top(t).pc = "in"
  BY <1>2, AtRealCall
<1>4. hooked[Top(t).fn].good = "h"
  BY <1>3, OpTable
<1>5. CASE h = 0
  <2>1. UNCHANGED diskVars
    BY <1>1, <1>2, <1>5 DEF Keep, OpenReal, diskVars
  <2>2. OpenReal(t, streams, 0)
    BY <1>1, <1>5
  <2> QED
    BY <1>2, <2>1, <2>2, OpenFailsKeep
<1>6. CASE h # 0
  <2> DEFINE file == Opened(t, "file", Top(t).irp)
  <2>1. /\ h \in Free(streams)
        /\ Returns(t, h, [Top(t).irp EXCEPT !.h = h])
        /\ tree' \in [Disk -> {"absent", "partial", "complete"}]
    BY <1>1, <1>6, OpenTree
  <2>2. streams' = [streams EXCEPT ![h] = file]
    BY <1>1, <1>6 DEF Keep
  <2>3. file \in Files /\ file.owner = t /\ file.kind = "file" /\ file.path = Top(t).irp.path
    BY <1>3, OpenedFile
  <2>4. file.kind # "closed" /\ ~Frees(Top(t))
    BY <1>3, <2>3 DEF Frees
  <2> HIDE DEF file
  <2>5. DiskStep(t) /\ h \in 1..MaxHandles /\ streams'[h] = file
    BY <1>2, <1>3, <2>1, <2>2, <2>3, <2>4, StreamDisk
  <2>6. h \in Int
    BY <2>5
  <2>7. PICK irp \in Requests : irp = [Top(t).irp EXCEPT !.h = h]
    <3>1. [Top(t).irp EXCEPT !.h = h] \in Requests
      BY <1>3, <2>6 DEF Requests
    <3> QED
      BY Zenon, <3>1
  <2>8. Same(irp, Top(t)) /\ irp.h = h /\ irp.path = Top(t).irp.path
    BY <1>3, <2>7 DEF Requests, Same
  <2>9. h = Given(hooked[Top(t).fn].good, irp) /\ Returns(t, h, irp)
    BY <1>4, <2>1, <2>7, <2>8 DEF Given
  <2>10. Mine(t, streams', irp.h) /\ irp.h # 0 /\ streams'[irp.h].path = irp.path
    BY <1>6, <2>3, <2>5, <2>8 DEF Mine
  <2> QED
    BY <1>3, <2>5, <2>6, <2>8, <2>9, <2>10, ReturnsKeep
<1> QED
  BY <1>5, <1>6

LEMMA OpenStep ==
  ASSUME Inv, UNCHANGED suite, NEW t \in Threads, _cnh_iohook_invoke_real_open(t)
  PROVE  Inv'
<1>1. PICK h \in Free(fds) \cup {0} :
        /\ OpenReal(t, fds, h)
        /\ fds' = Keep(fds, t, h)
  BY DEF _cnh_iohook_invoke_real_open
<1>2. Real(t, "OPEN") /\ Chain(t) = "io" /\ UNCHANGED streams
  BY DEF _cnh_iohook_invoke_real_open
<1>3. /\ Has(t, "real") /\ UNCHANGED handlerVars /\ IsIn(t) /\ Top(t) \in Frames(game)
      /\ Top(t).fn \in Fns /\ hooked[Top(t).fn].op = "OPEN" /\ Top(t).irp \in Requests
      /\ Top(t).pc = "in"
  BY <1>2, AtRealCall
<1>4. hooked[Top(t).fn].good = "h" /\ Top(t).fn # "fopen"
  <2>1. hooked[Top(t).fn].good = "h"
    BY <1>3, OpTable
  <2>2. hooked["fopen"].chain = "file"
    BY DEF hooked, fopen, F
  <2> QED
    BY <1>2, <2>1, <2>2 DEF Chain
<1>5. CASE h = 0
  <2>1. UNCHANGED diskVars
    BY <1>1, <1>2, <1>5 DEF Keep, OpenReal, diskVars
  <2>2. OpenReal(t, fds, 0)
    BY <1>1, <1>5
  <2> QED
    BY <1>2, <2>1, <2>2, OpenFailsKeep
<1>6. CASE h # 0
  <2> DEFINE file == Opened(t, "file", Top(t).irp)
  <2>1. /\ h \in Free(fds)
        /\ Returns(t, h, [Top(t).irp EXCEPT !.h = h])
        /\ tree' \in [Disk -> {"absent", "partial", "complete"}]
    BY <1>1, <1>6, OpenTree
  <2>2. fds' = [fds EXCEPT ![h] = file]
    BY <1>1, <1>6 DEF Keep
  <2>3. file \in Files /\ file.owner = t /\ file.kind = "file"
    BY <1>3, OpenedFile
  <2>4. file.kind # "closed" /\ ~Frees(Top(t))
    BY <1>3, <2>3 DEF Frees
  <2> HIDE DEF file
  <2>5. DiskStep(t) /\ h \in 1..MaxHandles
    BY <1>2, <1>3, <2>1, <2>2, <2>3, <2>4, FdDisk
  <2>6. h \in Int
    BY <2>5
  <2>7. PICK irp \in Requests : irp = [Top(t).irp EXCEPT !.h = h]
    <3>1. [Top(t).irp EXCEPT !.h = h] \in Requests
      BY <1>3, <2>6 DEF Requests
    <3> QED
      BY Zenon, <3>1
  <2>8. Same(irp, Top(t)) /\ irp.h = h
    BY <1>3, <2>7 DEF Requests, Same
  <2>9. h = Given(hooked[Top(t).fn].good, irp) /\ Returns(t, h, irp)
    BY <1>4, <2>1, <2>7, <2>8 DEF Given
  <2> QED
    BY <1>3, <1>4, <2>5, <2>6, <2>8, <2>9, ReturnsKeep
<1> QED
  BY <1>5, <1>6

\* A handle that is really closed is the caller's own, and the handlers have
\* all forgotten it.
LEMMA ClosedHandle ==
  ASSUME NEW handles, HandleTypes(handles), NEW h \in 1..MaxHandles
  PROVE  /\ HandleTypes([handles EXCEPT ![h] = Closed])
         /\ \A k \in Int : k # h => [handles EXCEPT ![h] = Closed][k] = handles[k]
<1>1. Closed \in Files
  <2>1. NoPath \in Paths
    BY EmptySeq DEF NoPath, Paths
  <2> QED
    BY <2>1 DEF Closed, Files, Modes
<1> DEFINE after == [handles EXCEPT ![h] = Closed]
<1>2. handles \in [1..MaxHandles -> Files]
  BY DEF HandleTypes
<1>3. after[h] = Closed /\ after \in [1..MaxHandles -> Files]
      /\ \A k \in Int : k # h => after[k] = handles[k]
  BY <1>1, <1>2
<1> HIDE DEF after
<1>4. HandleTypes(after)
  BY <1>3 DEF HandleTypes, Closed
<1> QED
  BY <1>3, <1>4 DEF after

LEMMA CloseIsForgotten ==
  ASSUME Inv, NEW t \in Threads, Real(t, "CLOSE")
  PROVE  /\ Top(t).fn \in {"fclose", "close"} /\ hooked[Top(t).fn].chain = Chain(t)
         /\ Top(t).fn = "fclose" <=> Chain(t) = "file"
         /\ Chain(t) \in {"file", "io"}
         /\ Mine(t, IF Chain(t) = "file" THEN streams ELSE fds, Top(t).irp.h)
         /\ \A n \in IF Chain(t) = "file" THEN StreamLatches ELSE FdLatches :
              latch[n] # Top(t).irp.h
<1>1. /\ IsIn(t) /\ game \in Games /\ Top(t).fn \in Fns /\ hooked[Top(t).fn].op = "CLOSE"
      /\ Top(t).pc = "in" /\ Top(t).going = "down" /\ AtReal(game, Top(t))
      /\ Top(t) \in Frames(game)
  BY AtRealCall
<1>2. /\ Top(t).fn \in {"fclose", "close"} /\ hooked[Top(t).fn].chain = Chain(t)
      /\ Top(t).fn = "fclose" <=> Chain(t) = "file"
      /\ Chain(t) \in {"file", "io"}
  BY <1>1, HookedTable DEF Chain
<1>3. Closes(Top(t))
  BY <1>1, <1>2 DEF Closes
<1>4. Mine(t, HandlesOf(Top(t)), Top(t).irp.h)
  BY <1>1, <1>3, ClosesOwn
<1>5. ASSUME NEW n \in LatchesOf(Top(t)) PROVE latch[n] # Top(t).irp.h
  <2>1. ~Ahead(game, Top(t), HandlerOf(n))
    <3>1. Len(HandlersOf(game, Top(t).fn)) \in Nat /\ Top(t).next_handler \in Nat
          /\ DOMAIN HandlersOf(game, Top(t).fn) = 1..Len(HandlersOf(game, Top(t).fn))
      BY <1>1, HandlerLists, FrameParts DEF IsList
    <3> QED
      BY <1>1, <3>1 DEF Ahead, AtReal
  <2>2. LatchAt(t)
    BY DEF Inv, ThreadInv
  <2> QED
    BY <1>1, <1>3, <2>1, <2>2 DEF LatchAt
<1> QED
  BY <1>2, <1>4, <1>5 DEF HandlesOf, LatchesOf

LEMMA CloseKeep ==
  ASSUME Inv, UNCHANGED suite, NEW t \in Threads, Real(t, "CLOSE"), DiskStep(t),
         Returns(t, 0, Top(t).irp) \/ \E e \in RealErrnos : Fails(t, -1, e)
  PROVE  Inv'
<1>1. /\ Top(t).irp \in Requests /\ Top(t).fn \in Fns /\ hooked[Top(t).fn].op = "CLOSE"
      /\ Has(t, "real") /\ UNCHANGED handlerVars
  BY AtRealCall
<1>2. Top(t).fn # "feof" /\ Top(t).fn # "fopen" /\ Same(Top(t).irp, Top(t))
  BY <1>1, NotEof, NotOpened DEF Same
<1>3. hooked[Top(t).fn].good = "zero" /\ hooked[Top(t).fn].bad = -1
  BY <1>1, OpTable
<1>4. CASE Returns(t, 0, Top(t).irp)
  <2>1. Given(hooked[Top(t).fn].good, Top(t).irp) = 0
    BY <1>3 DEF Given
  <2> QED
    BY <1>1, <1>2, <1>4, <2>1, ReturnsKeep
<1>5. CASE \E e \in RealErrnos : Fails(t, -1, e)
  <2>1. PICK e \in RealErrnos : Fails(t, -1, e)
    BY <1>5
  <2>2. e \in RealErrnos \cup {"ENOENT", "EMFILE"} \/ (e = errno[t] /\ e # OK)
    BY Zenon
  <2> HIDE DEF RealErrnos
  <2> QED
    BY <1>1, <1>2, <1>3, <2>1, <2>2, FailsKeep
<1> QED
  BY <1>4, <1>5

LEMMA FcloseStep ==
  ASSUME Inv, UNCHANGED suite, NEW t \in Threads, _cnh_filehook_invoke_real_fclose(t)
  PROVE  Inv'
<1> DEFINE h == Top(t).irp.h
<1>1. /\ Real(t, "CLOSE") /\ Chain(t) = "file"
      /\ streams' = [streams EXCEPT ![h] = Closed]
      /\ \/ Returns(t, 0, Top(t).irp) /\ tree' = Completed(streams[h])
         \/ (\E e \in RealErrnos : Fails(t, -1, e)) /\ UNCHANGED tree
      /\ UNCHANGED fds
  BY Zenon DEF _cnh_filehook_invoke_real_fclose
<1>2. /\ Top(t).fn = "fclose" /\ Mine(t, streams, h)
      /\ \A n \in StreamLatches : latch[n] # h
  BY <1>1, CloseIsForgotten
<1> HIDE DEF h
<1>3. HandleTypes(streams) /\ HandleTypes(fds) /\ h \in 1..MaxHandles /\ streams[h].owner = t
  BY <1>2 DEF Inv, RestInv, Mine
<1>4. HandleTypes(streams') /\ HandleTypes(fds') /\ \A k \in Int : k # h => streams'[k] = streams[k]
  <2>1. /\ HandleTypes([streams EXCEPT ![h] = Closed])
        /\ \A k \in Int : k # h => [streams EXCEPT ![h] = Closed][k] = streams[k]
    BY <1>3, ClosedHandle
  <2> QED
    BY <1>1, <1>3, <2>1 DEF HandleTypes
<1>5. tree' \in [Disk -> {"absent", "partial", "complete"}]
  <2>1. tree \in [Disk -> {"absent", "partial", "complete"}]
    BY DEF Inv, RestInv
  <2> QED
    BY <1>1, <2>1 DEF Completed
<1>6. OnlyOwn(t)
  BY <1>1, <1>3, <1>4 DEF OnlyOwn
<1>7. ASSUME NEW n \in LatchNames, latch[n] # 0
      PROVE  HandlesFor(n)'[latch[n]] = HandlesFor(n)[latch[n]]
  <2>1. CASE n \notin StreamLatches
    BY <1>1, <2>1 DEF HandlesFor
  <2>2. CASE n \in StreamLatches
    <3>1. latch[n] \in Int
      BY HandlesAreNumbers DEF Inv, LatchOpen
    <3> QED
      BY <1>2, <1>4, <2>2, <3>1 DEF HandlesFor
  <2> QED
    BY <2>1, <2>2
<1>8. DiskStep(t)
  BY <1>2, <1>4, <1>5, <1>6, <1>7 DEF DiskStep
<1> QED
  BY <1>1, <1>8, CloseKeep

LEMMA CloseStep ==
  ASSUME Inv, UNCHANGED suite, NEW t \in Threads, _cnh_iohook_invoke_real_close(t)
  PROVE  Inv'
<1> DEFINE h == Top(t).irp.h
<1>1. /\ Real(t, "CLOSE") /\ Chain(t) = "io"
      /\ fds' = [fds EXCEPT ![h] = Closed]
      /\ Returns(t, 0, Top(t).irp) \/ \E e \in RealErrnos : Fails(t, -1, e)
      /\ UNCHANGED <<tree, streams>>
  BY Zenon DEF _cnh_iohook_invoke_real_close
<1>2. Mine(t, fds, h) /\ \A n \in FdLatches : latch[n] # h
  BY <1>1, CloseIsForgotten
<1> HIDE DEF h
<1>3. HandleTypes(streams) /\ HandleTypes(fds) /\ h \in 1..MaxHandles /\ fds[h].owner = t
  BY <1>2 DEF Inv, RestInv, Mine
<1>4. HandleTypes(streams') /\ HandleTypes(fds') /\ \A k \in Int : k # h => fds'[k] = fds[k]
  <2>1. /\ HandleTypes([fds EXCEPT ![h] = Closed])
        /\ \A k \in Int : k # h => [fds EXCEPT ![h] = Closed][k] = fds[k]
    BY <1>3, ClosedHandle
  <2> QED
    BY <1>1, <1>3, <2>1 DEF HandleTypes
<1>5. tree' \in [Disk -> {"absent", "partial", "complete"}]
  BY <1>1 DEF Inv, RestInv
<1>6. OnlyOwn(t)
  BY <1>1, <1>3, <1>4 DEF OnlyOwn
<1>7. ASSUME NEW n \in LatchNames, latch[n] # 0
      PROVE  HandlesFor(n)'[latch[n]] = HandlesFor(n)[latch[n]]
  <2>1. CASE n \in StreamLatches
    BY <1>1, <2>1 DEF HandlesFor
  <2>2. CASE n \in FdLatches
    <3>1. latch[n] \in Int /\ n \notin StreamLatches
      BY <2>2, HandlesAreNumbers DEF Inv, LatchOpen, FdLatches, StreamLatches
    <3> QED
      BY <1>2, <1>4, <2>2, <3>1 DEF HandlesFor
  <2> QED
    BY <2>1, <2>2 DEF LatchNames
<1>8. DiskStep(t)
  BY <1>1, <1>4, <1>5, <1>6, <1>7 DEF DiskStep, Mine
<1> QED
  BY <1>1, <1>8, CloseKeep

LEMMA RealCallStep ==
  ASSUME Inv, UNCHANGED suite, NEW t \in Threads, RealCall(t)
  PROVE  Inv'
BY FopenStep, FcloseStep, ReadWriteStep, FgetsStep, SeekStep, TellStep, OpenStep, FdopenStep, CloseStep,
   CountStep, NameStep, ChangeStep DEF RealCall

-----------------------------------------------------------------------------
(* The invariant.                                                             *)

LEMMA Starts == Init => Inv
<1> SUFFICES ASSUME Init PROVE Inv
  OBVIOUS
<1>1. SuiteInv
  BY DEF Init, SuiteInv
<1>2. frames = [t \in Threads |-> <<>>] /\ errno = [t \in Threads |-> OK]
  BY DEF Init
<1>3. FrameInv
  <2>1. \A t \in Threads : frames[t] = <<>> /\ Len(frames[t]) = 0
    BY <1>2, EmptySeq
  <2>2. frames \in [Threads -> Seq(Frames(game))]
    BY <1>2, EmptySeq
  <2> QED
    BY <2>1, <2>2 DEF FrameInv
<1>4. RestInv
  <2>1. tree \in [Disk -> {"absent", "partial", "complete"}]
    <3>1. PICK there : tree = [p \in Disk |-> IF p \in there THEN "complete" ELSE "absent"]
      BY DEF Init
    <3> QED
      BY <3>1
  <2>2. HandleTypes([h \in 1..MaxHandles |-> Closed])
    <3>1. NoPath \in Paths
      BY EmptySeq DEF NoPath, Paths
    <3>2. Closed \in Files
      BY <3>1 DEF Closed, Files, Modes
    <3> QED
      BY <3>2 DEF HandleTypes, Closed
  <2>3. HandleTypes(streams) /\ HandleTypes(fds)
    BY <2>2 DEF Init
  <2>4. errno \in [Threads -> {OK, "EIO", "EBADF", "EMFILE"} \cup DOMAIN known \cup RealErrnos]
    <3> HIDE DEF known
    <3> QED
      BY <1>2
  <2>5. hdd_fp \in 0..HddSize /\ mount_eof \in BOOLEAN /\ is_creating_file \in BOOLEAN
    <3>1. hdd_fp = 0 /\ mount_eof = FALSE /\ is_creating_file = FALSE
      BY Zenon DEF Init
    <3>2. hdd_fp \in 0..HddSize
      BY <3>1, DiskIsLarge
    <3> QED
      BY Zenon, <3>1, <3>2
  <2> QED
    BY <2>1, <2>3, <2>4, <2>5 DEF RestInv
<1>5. LatchOpen
  <2>1. latch = [name \in {"hdd_file", "hdd_fd", "mounts", "settings", "dog"} |-> 0]
    BY DEF Init
  <2>2. LatchNames = {"hdd_file", "hdd_fd", "mounts", "settings", "dog"}
    BY DEF LatchNames, StreamLatches, FdLatches
  <2>3. latch \in [LatchNames -> 0..MaxHandles] /\ \A name \in LatchNames : latch[name] = 0
    BY <2>1, <2>2, HandlesAreNumbers
  <2> QED
    BY <2>3 DEF LatchOpen
<1>6. ASSUME NEW t \in Threads PROVE ThreadInv(t)
  <2>1. frames[t] = <<>> /\ Len(frames[t]) = 0 /\ ~IsIn(t)
    BY <1>2, EmptySeq DEF IsIn
  <2> QED
    BY <2>1, HandlesAreNumbers
    DEF ThreadInv, ReturnAt, HoldsAt, LatchAt, IdleAt, GenAt, DogAt, DepthAt
<1> QED
  BY <1>1, <1>3, <1>4, <1>5, <1>6 DEF Inv

LEMMA Stutters ==
  ASSUME Inv, UNCHANGED vars
  PROVE  Inv'
<1>1. UNCHANGED <<suite, frames, errno, tree, streams, fds, latch, hdd_fp, mount_eof, is_creating_file>>
  BY DEF vars, callVars, diskVars, handlerVars
<1>2. SuiteInv' /\ FrameInv' /\ RestInv'
  BY <1>1 DEF Inv, SuiteInv, FrameInv, RestInv, HandleTypes, game, RealErrnos, Calls
<1>3. \A t \in Threads : /\ IsIn(t)' <=> IsIn(t)
                         /\ Top(t)' = Top(t)
  BY <1>1 DEF IsIn, Top
<1>4. LatchOpen'
  BY <1>1, <1>3 DEF Inv, LatchOpen, HandlesFor, Listed, game
<1>5. ASSUME NEW t \in Threads PROVE ThreadInv(t)'
  <2>1. ThreadInv(t)
    BY DEF Inv
  <2>2. ReturnAt(t)' /\ IdleAt(t)' /\ GenAt(t)' /\ DogAt(t)' /\ DepthAt(t)'
    BY <1>1, <1>3, <2>1 DEF ThreadInv, ReturnAt, IdleAt, GenAt, DogAt, DepthAt
  <2>3. HoldsAt(t)'
    BY <1>1, <1>3, <2>1 DEF ThreadInv, HoldsAt, HandlesOf, Opened_, Mine
  <2>4. LatchAt(t)'
    BY <1>1, <1>3, <2>1 DEF ThreadInv, LatchAt, LatchesOf, Ahead, game
  <2> QED
    BY <2>2, <2>3, <2>4 DEF ThreadInv
<1> QED
  BY <1>2, <1>4, <1>5 DEF Inv

LEMMA Steps == Inv /\ [Next]_vars => Inv'
<1> SUFFICES ASSUME Inv, [Next]_vars PROVE Inv'
  OBVIOUS
<1>1. CASE UNCHANGED vars
  BY <1>1, Stutters
<1>2. CASE Next
  <2>1. PICK t \in Threads : ThreadNext(t)
    BY <1>2 DEF Next
  <2>2. UNCHANGED suite
    BY <1>2 DEF Next
  <2>3. CASE GameCalls(t) \/ RealCall(t) \/ Done(t) \/ Leave(t)
    BY <2>2, <2>3, StartStep, RealCallStep, DoneStep, LeaveStep
  <2>4. CASE cnh_redir_filehook(t) \/ cnh_redir_iohook(t) \/ cnh_redir_fshook(t)
    BY <2>2, <2>4, RedirectsKeep DEF cnh_redir_filehook, cnh_redir_iohook, cnh_redir_fshook
  <2>5. CASE \/ cnh_fileopen_mon(t) \/ cnh_filehook_mon(t) \/ cnh_iohook_mon(t) \/ cnh_fshook_mon(t)
    <3>1. PICK name \in {"mon", "open_mon"} : Has(t, name) /\ Passes(t)
      BY Zenon, <2>5 DEF cnh_fileopen_mon, cnh_filehook_mon, cnh_iohook_mon, cnh_fshook_mon
    <3> QED
      BY <2>2, <3>1, MonitorsKeep
  <2>6. CASE patch_hdd_check_filehook(t) \/ patch_hdd_check_iohook(t) \/ patch_mounts_filehook(t)
    BY <2>2, <2>6, HddFileStep, HddFdStep, MountsStep
  <2>7. CASE _patch_ram_wipe_filehook(t) \/ prihook_usb_updates_filehook(t)
    <3>1. PICK name \in {"ram_wipe", "usb_updates"} :
            /\ Has(t, name)
            /\ \/ Claims(t, "NO_SUCH_FILE_OR_DIR", Top(t).irp) /\ UNCHANGED <<diskVars, handlerVars>>
               \/ Passes(t)
      BY <2>7 DEF _patch_ram_wipe_filehook, prihook_usb_updates_filehook
    <3> QED
      BY <2>2, <3>1, HidesKeep
  <2>8. CASE \/ _hook_nx_unlock_filehook(t) \/ _hook_x2_unlock_filehook(t)
             \/ _hook_zerounlock_filehook(t)
    BY <2>2, <2>8, UnlockStep
  <2>9. CASE \/ patch_microdog34_iohook(t)
             \/ nx2hook_profile_gen_filehook(t) \/ nxahook_profile_gen_filehook(t)
    BY <2>2, <2>9, DogStep, GeneratorsStep
  <2> QED
    BY <2>1, <2>3, <2>4, <2>5, <2>6, <2>7, <2>8, <2>9 DEF ThreadNext
<1> QED
  BY <1>1, <1>2

-----------------------------------------------------------------------------
(* The theorems.                                                              *)

LEMMA Always == Spec => []Inv
BY Starts, Steps, PTL DEF Spec

\* The threads are never in more calls than the bound, errno is one of the known
\* numbers, the disk has each file in one of its states, and the latches and the
\* flags of the handlers have their types.
THEOREM TypesHold == Spec => []TypeOK
<1>1. Inv => TypeOK
  <2> SUFFICES ASSUME Inv PROVE TypeOK
    OBVIOUS
  <2>1. latch \in [DOMAIN latch -> 0..MaxHandles]
    BY DEF Inv, LatchOpen
  <2>2. hdd_fp \in Nat
    BY DiskIsLarge DEF Inv, RestInv
  <2>3. \A t \in Threads : Len(frames[t]) <= MaxDepth
    BY DEF Inv, ThreadInv, DepthAt
  <2> HIDE DEF known
  <2> QED
    BY <2>1, <2>2, <2>3 DEF Inv, RestInv, TypeOK
<1> QED
  BY <1>1, Always, PTL

\* Whatever handlers a call passes through, if none of them claims it the caller
\* gets what the real function gave (_cnh_filehook_call and its kind of the other
\* two chains), and its error number if that has a result of its own, EIO
\* otherwise.
THEOREM CallsPassThrough == Spec => []PassThrough
<1>1. Inv => PassThrough
  BY DEF Inv, ThreadInv, ReturnAt, PassThrough
<1> QED
  BY <1>1, Always, PTL

\* The stream or descriptor that a handler of patch/hdd-check.c, patch/mounts.c
\* or an unlocking hook answers for is one that it opened, and still open: no
\* interleaving of the threads gives its number to another file while the
\* handler remembers it.
THEOREM LatchesStayOpen == Spec => []LatchesHoldOpenHandles
<1>1. Inv => LatchesHoldOpenHandles
  <2> SUFFICES ASSUME Inv PROVE LatchesHoldOpenHandles
    OBVIOUS
  <2>1. ASSUME NEW name \in LatchNames \ {"dog"}, latch[name] # 0
        PROVE  IsFor(name, HandlesFor(name)[latch[name]])
    BY <2>1 DEF Inv, LatchOpen
  <2>2. ASSUME NEW name \in {"hdd_file", "mounts"}, latch[name] # 0
        PROVE  streams[latch[name]].kind = name
    BY <2>1, <2>2 DEF IsFor, HandlesFor, LatchNames, StreamLatches
  <2>3. latch["hdd_fd"] # 0 => fds[latch["hdd_fd"]].kind = "hdd_fd"
    BY <2>1 DEF IsFor, HandlesFor, LatchNames, StreamLatches, FdLatches
  <2>4. latch["settings"] # 0 =>
          \E name \in SettingsNames :
            util_str_ends_with(streams[latch["settings"]].path, name)
    BY <2>1 DEF IsFor, HandlesFor, LatchNames, StreamLatches
  <2> QED
    BY <2>2, <2>3, <2>4 DEF LatchesHoldOpenHandles, SettingsNames
<1> QED
  BY <1>1, Always, PTL

\* The reads and seeks of patch/hdd-check.c, through the stream and through the
\* descriptor in any order, leave their common position inside the faked disk.
THEOREM ReadsStayInside == Spec => []HddReadsInside
<1>1. Inv => HddReadsInside
  BY DiskIsLarge DEF Inv, RestInv, HddReadsInside
<1> QED
  BY <1>1, Always, PTL

\* Where one thread makes all of the calls, those that the generators of profiles
\* make while they generate are not generated for in their turn.
THEOREM GenerationStops == Spec => []GenerationEnds
<1>1. Inv => GenerationEnds
  BY DEF Inv, ThreadInv, GenAt, GenerationEnds
<1> QED
  BY <1>1, Always, PTL

-----------------------------------------------------------------------------
(* The files under their names: every call that may change one knows it by a  *)
(* name, and so does every stream that was opened to write.                   *)

NamedCall(g, f) == f.going # "done" => KeepsToNames(g, f.fn, f.asked)
NamedFile(file) ==
  file.kind = "file" /\ file.mode = "w" =>
    file.name \in Names /\ file.path = cnh_redir_check(file.name)
NamedFrames == \A t \in Threads : \A i \in 1..Len(frames[t]) : NamedCall(game, frames[t][i])
NamedStreams == \A h \in 1..MaxHandles : NamedFile(streams[h])

LEMMA LargerSeqs ==
  ASSUME NEW S, NEW T, S \subseteq T, NEW s \in Seq(S)
  PROVE  s \in Seq(T)
<1>1. Len(s) \in Nat /\ s \in [1..Len(s) -> S]
  BY LenProperties
<1>2. s \in [1..Len(s) -> T]
  BY <1>1
<1>3. \A n \in Nat : \A r \in [1..n -> T] : r \in Seq(T)
  OBVIOUS
<1> QED
  BY <1>1, <1>2, <1>3

LEMMA OthersNamed ==
  ASSUME Inv, NamedFrames, UNCHANGED suite, NEW t \in Threads, NEW s,
         frames' = [frames EXCEPT ![t] = s], \A i \in 1..Len(s) : NamedCall(game, s[i])
  PROVE  NamedFrames'
<1>1. frames'[t] = s /\ \A u \in Threads : u # t => frames'[u] = frames[u]
  BY DEF Inv, FrameInv
<1>2. game' = game
  BY DEF game
<1>3. ASSUME NEW u \in Threads, NEW i \in 1..Len(frames'[u])
      PROVE  NamedCall(game, frames'[u][i])
  BY <1>1, <1>3 DEF NamedFrames
<1> QED
  BY <1>2, <1>3 DEF NamedFrames, NamedCall

LEMMA TopNamed ==
  ASSUME Inv, NamedFrames, NEW t \in Threads, IsIn(t)
  PROVE  NamedCall(game, Top(t))
<1>1. Len(frames[t]) \in 1..Len(frames[t]) /\ Top(t) = frames[t][Len(frames[t])]
  BY TopIsFrame DEF Inv
<1> QED
  BY <1>1 DEF NamedFrames

\* The innermost call changes, and keeps what it was asked for.
LEMMA BecomesNamed ==
  ASSUME Inv, NamedFrames, UNCHANGED suite, NEW t \in Threads, IsIn(t), NEW f, Become(t, f),
         NamedCall(game, f)
  PROVE  NamedFrames'
<1> DEFINE s == frames[t]
           S == Frames(game) \cup {f}
           r == Append(Front(s), f)
<1>1. s \in Seq(S) /\ s # <<>> /\ Len(s) \in Nat \ {0}
  <2>1. s \in Seq(Frames(game)) /\ s # <<>> /\ Len(s) \in Nat \ {0}
    BY TopIsFrame DEF Inv, IsIn
  <2> QED
    BY <2>1, LargerSeqs
<1>2. f \in S
  OBVIOUS
<1>3. frames' = [frames EXCEPT ![t] = r]
  BY DEF Become, Inv, FrameInv
<1> HIDE DEF S
<1>4. Len(r) = Len(s) /\ r[Len(s)] = f /\ \A i \in 1..Len(s) - 1 : r[i] = s[i]
  BY ONLY <1>1, <1>2, FrontAppend
<1> HIDE DEF r
<1>5. ASSUME NEW i \in 1..Len(r) PROVE NamedCall(game, r[i])
  <2>1. CASE i = Len(s)
    BY <1>4, <2>1
  <2>2. CASE i # Len(s)
    <3>1. i \in 1..Len(s) - 1 /\ i \in 1..Len(s)
      BY <1>1, <1>4, <2>2
    <3> QED
      BY <1>4, <3>1 DEF NamedFrames
  <2> QED
    BY <2>1, <2>2
<1> QED
  BY <1>3, <1>5, OthersNamed

\* It calls another function.
LEMMA PushesNamed ==
  ASSUME Inv, NamedFrames, UNCHANGED suite, NEW t \in Threads, IsIn(t), NEW f, NEW g,
         frames' = [frames EXCEPT ![t] = Append(Append(Front(@), f), g)],
         NamedCall(game, f), NamedCall(game, g)
  PROVE  NamedFrames'
<1> DEFINE s == frames[t]
           S == Frames(game) \cup {f, g}
           r == Append(Front(s), f)
           both == Append(r, g)
<1>1. s \in Seq(S) /\ s # <<>> /\ Len(s) \in Nat \ {0}
  <2>1. s \in Seq(Frames(game)) /\ s # <<>> /\ Len(s) \in Nat \ {0}
    BY TopIsFrame DEF Inv, IsIn
  <2> QED
    BY <2>1, LargerSeqs
<1>2. f \in S /\ g \in S
  OBVIOUS
<1>3. frames' = [frames EXCEPT ![t] = both]
  BY DEF Inv, FrameInv
<1> HIDE DEF S
<1>4. /\ r \in Seq(S) /\ Len(r) = Len(s) /\ r[Len(s)] = f
      /\ \A i \in 1..Len(s) - 1 : r[i] = s[i]
  BY ONLY <1>1, <1>2, FrontAppend
<1> HIDE DEF r
<1>5. /\ Len(both) = Len(r) + 1 /\ both[Len(r) + 1] = g
      /\ \A i \in 1..Len(r) : both[i] = r[i]
  BY ONLY <1>2, <1>4, AppendProperties
<1> HIDE DEF both
<1>6. ASSUME NEW i \in 1..Len(both) PROVE NamedCall(game, both[i])
  <2>1. CASE i = Len(s) + 1
    BY <1>4, <1>5, <2>1
  <2>2. CASE i = Len(s)
    <3>1. i \in 1..Len(r)
      BY <1>1, <1>4, <2>2
    <3> QED
      BY <1>4, <1>5, <2>2, <3>1
  <2>3. CASE i # Len(s) /\ i # Len(s) + 1
    <3>1. i \in 1..Len(s) - 1 /\ i \in 1..Len(s)
      BY <1>1, <1>4, <1>5, <2>3
    <3>2. both[i] = s[i]
      BY <1>4, <1>5, <3>1
    <3> QED
      BY <3>1, <3>2 DEF NamedFrames
  <2> QED
    BY <2>1, <2>2, <2>3
<1> QED
  BY <1>3, <1>6, OthersNamed

\* The game makes a call.
LEMMA StartsNamed ==
  ASSUME Inv, NamedFrames, UNCHANGED suite, NEW t \in Threads, ~IsIn(t), NEW f,
         frames' = [frames EXCEPT ![t] = Append(@, f)], NamedCall(game, f)
  PROVE  NamedFrames'
<1>1. frames' = [frames EXCEPT ![t] = Append(<<>>, f)]
  BY DEF IsIn, Inv, FrameInv
<1>2. Len(Append(<<>>, f)) = 1 /\ Append(<<>>, f)[1] = f
  <2>1. <<>> \in Seq({f}) /\ f \in {f} /\ Len(<<>>) = 0
    BY EmptySeq
  <2> QED
    BY ONLY <2>1, AppendProperties
<1>3. \A i \in 1..Len(Append(<<>>, f)) : Append(<<>>, f)[i] = f
  BY <1>2
<1> QED
  BY <1>1, <1>3, OthersNamed

\* It goes on.
LEMMA LeavesNamed ==
  ASSUME Inv, NamedFrames, UNCHANGED suite, NEW t \in Threads, Leave(t)
  PROVE  NamedFrames'
<1>1. IsIn(t)
  BY DEF Leave
<1>2. /\ frames' = [frames EXCEPT ![t] = frames'[t]]
      /\ Len(frames[t]) = 1 => frames'[t] = <<>>
      /\ Len(frames[t]) # 1 =>
           /\ IsIn(t)' /\ Len(frames'[t]) = Len(frames[t]) - 1 /\ Len(frames'[t]) \in Nat
           /\ Top(t)' = [frames[t][Len(frames[t]) - 1] EXCEPT !.got = Top(t).ret]
           /\ frames[t][Len(frames[t]) - 1] \in Frames(game)
           /\ \A i \in 1..Len(frames'[t]) - 1 : frames'[t][i] = frames[t][i]
  BY <1>1, Left DEF Inv
<1>3. CASE Len(frames[t]) = 1
  <2>1. Len(frames'[t]) = 0
    BY <1>2, <1>3, EmptySeq
  <2> QED
    BY <1>2, <2>1, OthersNamed
<1>4. CASE Len(frames[t]) # 1
  <2> DEFINE n == Len(frames[t])
             f == frames[t][n - 1]
  <2>1. n \in Nat \ {0} /\ n - 1 \in Nat \ {0} /\ Len(frames'[t]) = n - 1 /\ n - 1 \in 1..n
    <3>1. n \in Nat \ {0}
      BY <1>1, TopIsFrame DEF Inv
    <3>2. n # 1 /\ Len(frames'[t]) = n - 1
      BY <1>2, <1>4
    <3> HIDE DEF n, f
    <3> QED
      BY ONLY <3>1, <3>2
  <2>2. Top(t)' = frames'[t][n - 1]
    BY <2>1 DEF Top, Last
  <2>3. f \in FrameTypes
    BY <1>2, <1>4 DEF Frames
  <2>4. NamedCall(game, f)
    BY <2>1 DEF NamedFrames
  <2>5. frames'[t][n - 1] = [f EXCEPT !.got = Top(t).ret]
    BY <1>2, <1>4, <2>2
  <2>6. \A i \in 1..(n - 1) - 1 : frames'[t][i] = frames[t][i]
    BY <1>2, <1>4, <2>1
  <2> HIDE DEF f
  <2>7. /\ frames'[t][n - 1].fn = f.fn /\ frames'[t][n - 1].asked = f.asked
        /\ frames'[t][n - 1].going = f.going
    BY <2>3, <2>5 DEF FrameTypes
  <2>8. NamedCall(game, frames'[t][n - 1])
    BY <2>4, <2>7 DEF NamedCall
  <2> HIDE DEF n
  <2>9. ASSUME NEW i \in 1..n - 1 PROVE NamedCall(game, frames'[t][i])
    <3>1. CASE i = n - 1
      BY <2>8, <3>1
    <3>2. CASE i # n - 1
      <4>1. i \in 1..(n - 1) - 1 /\ i \in 1..n
        BY <2>1, <3>2
      <4> QED
        BY <2>6, <4>1 DEF NamedFrames, n
    <3> QED
      BY <3>1, <3>2
  <2> QED
    BY <1>2, <2>1, <2>9, OthersNamed
<1> QED
  BY <1>3, <1>4

\* No other call changes what it was asked for.
LEMMA KeptNamed ==
  ASSUME Inv, NamedFrames, UNCHANGED suite, NEW t \in Threads, IsIn(t), NEW f, Become(t, f),
         f.fn = Top(t).fn, f.asked = Top(t).asked, f.going = "done" \/ Top(t).going # "done"
  PROVE  NamedFrames'
<1>1. NamedCall(game, Top(t))
  BY TopNamed
<1>2. NamedCall(game, f)
  BY <1>1 DEF NamedCall
<1> QED
  BY <1>2, BecomesNamed

LEMMA ForwardNamed ==
  ASSUME Inv, NamedFrames, UNCHANGED suite, NEW t \in Threads, NEW name, Has(t, name),
         name # "none", NEW irp, invoke_next(t, irp)
  PROVE  NamedFrames'
<1>1. IsIn(t) /\ Top(t) \in FrameTypes /\ Top(t).going = "down"
  BY HasTurn DEF Inv, Frames
<1>2. PICK f : f = Passed(Top(t), irp)
  OBVIOUS
<1>3. Become(t, f)
  BY <1>2 DEF invoke_next, Passed
<1>4. f.fn = Top(t).fn /\ f.asked = Top(t).asked
  BY <1>1, <1>2, PassedFields
<1> QED
  BY <1>1, <1>3, <1>4, KeptNamed

LEMMA WaitsNamed ==
  ASSUME Inv, NamedFrames, UNCHANGED suite, NEW t \in Threads, Has(t, "unlock"),
         invoke_next_and(t, "unlock")
  PROVE  NamedFrames'
<1>1. IsIn(t) /\ Top(t) \in FrameTypes /\ Top(t).going = "down"
  BY HasTurn DEF Inv, Frames
<1>2. PICK f : f = Waits(Top(t), "unlock")
  OBVIOUS
<1>3. Become(t, f)
  BY <1>2 DEF invoke_next_and, Waits
<1>4. f.fn = Top(t).fn /\ f.asked = Top(t).asked
  BY <1>1, <1>2, WaitsFields
<1> QED
  BY <1>1, <1>3, <1>4, KeptNamed

LEMMA ClaimsNamed ==
  ASSUME Inv, NamedFrames, UNCHANGED suite, NEW t \in Threads, NEW name, Has(t, name),
         name # "none", NEW result, NEW irp, Claims(t, result, irp)
  PROVE  NamedFrames'
<1>1. IsIn(t) /\ Top(t) \in FrameTypes /\ Top(t).going = "down"
  BY HasTurn DEF Inv, Frames
<1>2. PICK f : f = Claimed(Top(t), result, irp)
  OBVIOUS
<1>3. Become(t, f)
  BY <1>2 DEF Claims, Claimed
<1>4. f.fn = Top(t).fn /\ f.asked = Top(t).asked
  BY <1>1, <1>2, ClaimedFields
<1> QED
  BY <1>1, <1>3, <1>4, KeptNamed

LEMMA FreezesNamed ==
  ASSUME Inv, NamedFrames, UNCHANGED suite, NEW t \in Threads, Has(t, "dog34"),
         Become(t, [Top(t) EXCEPT !.pc = "closed"])
  PROVE  NamedFrames'
<1>1. IsIn(t) /\ Top(t) \in FrameTypes /\ Top(t).going = "down"
  BY HasTurn DEF Inv, Frames
<1>2. PICK f : f = [Top(t) EXCEPT !.pc = "closed"]
  OBVIOUS
<1>3. f.fn = Top(t).fn /\ f.asked = Top(t).asked
  BY <1>1, <1>2 DEF FrameTypes
<1> QED
  BY <1>1, <1>2, <1>3, KeptNamed

LEMMA ReturnsNamed ==
  ASSUME Inv, NamedFrames, UNCHANGED suite, NEW t \in Threads, Has(t, "real"),
         \/ \E real, irp : Returns(t, real, irp)
         \/ \E real, e : Fails(t, real, e)
  PROVE  NamedFrames'
<1>1. IsIn(t) /\ Top(t) \in FrameTypes /\ Top(t).going = "down"
  BY HasTurn DEF Inv, Frames
<1>2. PICK f : Become(t, f) /\ f.fn = Top(t).fn /\ f.asked = Top(t).asked
  <2>1. CASE \E real, irp : Returns(t, real, irp)
    <3>1. PICK real, irp : Returns(t, real, irp)
      BY <2>1
    <3>2. Become(t, Returned(Top(t), real, irp))
      BY Zenon, <3>1 DEF Returns, Returned
    <3> QED
      BY <1>1, <3>2, ReturnedFields
  <2>2. CASE \E real, e : Fails(t, real, e)
    <3>1. PICK real, e : Fails(t, real, e)
      BY <2>2
    <3>2. Become(t, Failed(Top(t), real, e))
      BY Zenon, <3>1 DEF Fails, Failed
    <3> QED
      BY <1>1, <3>2, FailedFields
  <2> QED
    BY <2>1, <2>2
<1> QED
  BY <1>1, <1>2, KeptNamed

LEMMA DoneNamed ==
  ASSUME Inv, NamedFrames, UNCHANGED suite, NEW t \in Threads, Done(t)
  PROVE  NamedFrames'
<1>1. IsIn(t) /\ Top(t) \in FrameTypes
  BY TopIsFrame DEF Inv, Done
<1>2. PICK ret : Become(t, [Top(t) EXCEPT !.going = "done", !.ret = ret])
  BY Zenon DEF Done
<1>3. PICK f : f = [Top(t) EXCEPT !.going = "done", !.ret = ret]
  OBVIOUS
<1>4. f.going = "done"
  BY <1>1, <1>3 DEF FrameTypes
<1>5. NamedCall(game, f)
  BY <1>4 DEF NamedCall
<1> QED
  BY <1>1, <1>2, <1>3, <1>5, BecomesNamed

LEMMA SeesNamed ==
  ASSUME Inv, NamedFrames, UNCHANGED suite, NEW t \in Threads, NEW name, UnlockReturns(t, name)
  PROVE  NamedFrames'
<1>1. IsIn(t) /\ Top(t) \in FrameTypes /\ Top(t).going = "up"
  BY TopIsFrame DEF Inv, UnlockReturns
<1>2. PICK f : f = Seen(Top(t))
  OBVIOUS
<1>3. Become(t, f)
  BY <1>2 DEF UnlockReturns, Seen
<1>4. f.fn = Top(t).fn /\ f.asked = Top(t).asked
  BY <1>1, <1>2, SeenFields
<1> QED
  BY <1>1, <1>3, <1>4, KeptNamed

\* The steps that change no file, and open none to write it.
Unwritten ==
  tree' = tree /\ \A h \in 1..MaxHandles : streams'[h] = streams[h] \/ NamedFile(streams'[h])

LEMMA ForwardQuiet ==
  ASSUME Inv, NamedFrames, UNCHANGED suite, NEW t \in Threads, NEW name, Has(t, name),
         name # "none", NEW irp, invoke_next(t, irp), UNCHANGED diskVars
  PROVE  NamedFrames' /\ Unwritten
<1>1. NamedFrames'
  BY ForwardNamed
<1> QED
  BY <1>1 DEF Unwritten, diskVars

LEMMA PassesQuiet ==
  ASSUME Inv, NamedFrames, UNCHANGED suite, NEW t \in Threads, NEW name, Has(t, name),
         name # "none", Passes(t) \/ (\E latched : clears(t, latched)) \/ ends(t)
  PROVE  NamedFrames' /\ Unwritten
<1>1. invoke_next(t, Top(t).irp) /\ UNCHANGED diskVars
  BY Zenon DEF Passes, clears, ends
<1> QED
  BY <1>1, ForwardQuiet

LEMMA ClaimsQuiet ==
  ASSUME Inv, NamedFrames, UNCHANGED suite, NEW t \in Threads, NEW name, Has(t, name),
         name # "none", NEW result, NEW irp, Claims(t, result, irp), tree' = tree, streams' = streams
  PROVE  NamedFrames' /\ Unwritten
<1>1. NamedFrames'
  BY ClaimsNamed
<1> QED
  BY <1>1 DEF Unwritten

LEMMA AnswersQuiet ==
  ASSUME Inv, NamedFrames, UNCHANGED suite, NEW t \in Threads, NEW name, Has(t, name),
         name # "none", NEW irp,
         \/ Stubs(t, irp) \/ hddRead(t, irp)
         \/ \E asked : hddSeek(t, irp, asked)
         \/ \E latched : open_dummy_fd(t, latched)
  PROVE  NamedFrames' /\ Unwritten
<1>1. PICK r : Claims(t, SUCCESS, r) /\ tree' = tree /\ streams' = streams
  <2>1. CASE Stubs(t, irp) \/ hddRead(t, irp)
    BY Zenon, <2>1 DEF Stubs, hddRead, Answers, diskVars
  <2>2. CASE \E asked : hddSeek(t, irp, asked)
    BY Zenon, <2>2 DEF hddSeek, Answers, diskVars
  <2>3. CASE \E latched : open_dummy_fd(t, latched)
    BY Zenon, <2>3 DEF open_dummy_fd, Answers
  <2> QED
    BY <2>1, <2>2, <2>3
<1> QED
  BY <1>1, ClaimsQuiet

LEMMA OpensQuiet ==
  ASSUME Inv, NamedFrames, UNCHANGED suite, NEW t \in Threads, NEW name, Has(t, name),
         name # "none", NEW latched, latched # "file", open_dummy_file_handle(t, latched)
  PROVE  NamedFrames' /\ Unwritten
<1>1. PICK h \in Lowest(streams) :
        /\ Answers(t, [Top(t).irp EXCEPT !.h = h, !.stream = h])
        /\ streams' = IF h = 0 THEN streams ELSE [streams EXCEPT ![h] = Opened(t, latched, Irp)]
        /\ UNCHANGED <<tree, fds>>
  BY Zenon DEF open_dummy_file_handle
<1>2. NamedFrames'
  BY <1>1, ClaimsNamed DEF Answers
<1>3. Opened(t, latched, Irp).kind # "file"
  BY DEF Opened
<1>4. \A k \in 1..MaxHandles : streams'[k] = streams[k] \/ NamedFile(streams'[k])
  <2>1. streams \in [1..MaxHandles -> Files]
    BY DEF Inv, RestInv, HandleTypes
  <2> QED
    BY <1>1, <1>3, <2>1 DEF NamedFile
<1> QED
  BY <1>1, <1>2, <1>4 DEF Unwritten

LEMMA HddFileQuiet ==
  ASSUME Inv, NamedFrames, UNCHANGED suite, NEW t \in Threads, patch_hdd_check_filehook(t)
  PROVE  NamedFrames' /\ Unwritten
<1> DEFINE irp == Top(t).irp
<1>1. Has(t, "hdd")
  BY DEF patch_hdd_check_filehook
<1>2. \/ open_dummy_file_handle(t, "hdd_file") \/ Passes(t) \/ hddRead(t, irp)
      \/ (\E asked : hddSeek(t, irp, asked)) \/ clears(t, "hdd_file")
      \/ \E r : Stubs(t, r)
  BY Zenon DEF patch_hdd_check_filehook
<1> QED
  BY Zenon, <1>1, <1>2, OpensQuiet, PassesQuiet, AnswersQuiet

LEMMA HddFdQuiet ==
  ASSUME Inv, NamedFrames, UNCHANGED suite, NEW t \in Threads, patch_hdd_check_iohook(t)
  PROVE  NamedFrames' /\ Unwritten
<1> DEFINE irp == Top(t).irp
<1>1. Has(t, "hdd")
  BY DEF patch_hdd_check_iohook
<1>2. \/ open_dummy_fd(t, "hdd_fd") \/ open_dummy_file_handle(t, "hdd_file")
      \/ Passes(t) \/ hddRead(t, irp)
      \/ (\E asked : hddSeek(t, irp, asked)) \/ clears(t, "hdd_fd")
      \/ \E r : Stubs(t, r)
  BY Zenon DEF patch_hdd_check_iohook
<1> QED
  BY Zenon, <1>1, <1>2, OpensQuiet, PassesQuiet, AnswersQuiet

LEMMA MountsQuiet ==
  ASSUME Inv, NamedFrames, UNCHANGED suite, NEW t \in Threads, patch_mounts_filehook(t)
  PROVE  NamedFrames' /\ Unwritten
<1> DEFINE irp == Top(t).irp
<1>1. Has(t, "mounts")
  BY DEF patch_mounts_filehook
<1>2. \/ open_dummy_file_handle(t, "mounts") \/ Passes(t)
      \/ Answers(t, [irp EXCEPT !.pos = @ + MountsSize]) /\ UNCHANGED diskVars
      \/ clears(t, "mounts") \/ \E r : Stubs(t, r)
  BY Zenon DEF patch_mounts_filehook
<1>3. CASE Answers(t, [irp EXCEPT !.pos = @ + MountsSize]) /\ UNCHANGED diskVars
  BY <1>1, <1>3, ClaimsQuiet DEF Answers, diskVars
<1> QED
  BY Zenon, <1>1, <1>2, <1>3, OpensQuiet, PassesQuiet, AnswersQuiet

LEMMA HidesQuiet ==
  ASSUME Inv, NamedFrames, UNCHANGED suite, NEW t \in Threads,
         _patch_ram_wipe_filehook(t) \/ prihook_usb_updates_filehook(t)
  PROVE  NamedFrames' /\ Unwritten
<1>1. PICK name \in {"ram_wipe", "usb_updates"} :
        /\ Has(t, name)
        /\ \/ Claims(t, "NO_SUCH_FILE_OR_DIR", Top(t).irp) /\ UNCHANGED <<diskVars, handlerVars>>
           \/ Passes(t)
  BY DEF _patch_ram_wipe_filehook, prihook_usb_updates_filehook
<1>2. name # "none"
  OBVIOUS
<1>3. CASE Passes(t)
  BY <1>1, <1>2, <1>3, PassesQuiet
<1>4. CASE Claims(t, "NO_SUCH_FILE_OR_DIR", Top(t).irp) /\ UNCHANGED <<diskVars, handlerVars>>
  BY <1>1, <1>2, <1>4, ClaimsQuiet DEF diskVars
<1> QED
  BY <1>1, <1>3, <1>4

LEMMA UnlockQuiet ==
  ASSUME Inv, NamedFrames, UNCHANGED suite, NEW t \in Threads,
         Unlocks(t) \/ \E name : UnlockReturns(t, name)
  PROVE  NamedFrames' /\ Unwritten
<1>1. CASE Unlocks(t)
  <2>1. Has(t, "unlock")
    BY <1>1 DEF Unlocks
  <2>2. \/ invoke_next_and(t, "unlock") \/ clears(t, "settings") \/ Passes(t)
    BY Zenon, <1>1 DEF Unlocks
  <2>3. CASE invoke_next_and(t, "unlock")
    <3>1. NamedFrames'
      BY <2>1, <2>3, WaitsNamed
    <3> QED
      BY <2>3, <3>1 DEF invoke_next_and, Unwritten, diskVars
  <2> QED
    BY Zenon, <2>1, <2>2, <2>3, PassesQuiet
<1>2. CASE \E name : UnlockReturns(t, name)
  <2>1. PICK name : UnlockReturns(t, name)
    BY <1>2
  <2>2. UNCHANGED diskVars
    BY <2>1 DEF UnlockReturns
  <2> QED
    BY <2>1, <2>2, SeesNamed DEF Unwritten, diskVars
<1> QED
  BY <1>1, <1>2

LEMMA DogQuiet ==
  ASSUME Inv, NamedFrames, UNCHANGED suite, NEW t \in Threads, patch_microdog34_iohook(t)
  PROVE  NamedFrames' /\ Unwritten
<1> DEFINE irp == Top(t).irp
<1>1. Has(t, "dog34")
  BY DEF patch_microdog34_iohook
<1>2. \/ open_dummy_fd(t, "dog") \/ Passes(t) \/ (\E r : Stubs(t, r))
      \/ Become(t, [Top(t) EXCEPT !.pc = "closed"]) /\ UNCHANGED <<tree, streams>>
      \/ Answers(t, irp) /\ UNCHANGED diskVars
  BY Zenon DEF patch_microdog34_iohook
<1>3. CASE Become(t, [Top(t) EXCEPT !.pc = "closed"]) /\ UNCHANGED <<tree, streams>>
  BY <1>1, <1>3, FreezesNamed DEF Unwritten
<1>4. CASE Answers(t, irp) /\ UNCHANGED diskVars
  BY <1>1, <1>4, ClaimsQuiet DEF Answers, diskVars
<1> QED
  BY Zenon, <1>1, <1>2, <1>3, <1>4, PassesQuiet, AnswersQuiet

\* The redirections keep the end of a path, and make none that ends like a profile.
LEMMA EndsIn ==
  ASSUME NEW S, NEW p \in Seq(S), p # <<>>
  PROVE  util_str_ends_with(p, Last(p))
<1> DEFINE r == Reverse(p)
           one == <<Last(p)>>
           q == Reverse(one)
<1>1. Len(p) \in Nat \ {0} /\ Last(p) = p[Len(p)] /\ Last(p) \in S
  BY FrontAndLast DEF Last
<1>2. one \in Seq(S) /\ Len(one) = 1 /\ one[1] = Last(p)
  BY <1>1, ShortSeqs
<1> HIDE DEF one
<1>3. q \in Seq(S) /\ Len(q) = 1 /\ q[1] = Last(p)
  <2>1. q \in Seq(S) /\ Len(q) = Len(one) /\ \A i \in 1..Len(one) : q[i] = one[Len(one) - i + 1]
    BY <1>2, ReverseProperties
  <2> HIDE DEF q
  <2> QED
    BY <1>2, <2>1
<1>4. r \in Seq(S) /\ Len(r) = Len(p) /\ r[1] = Last(p)
  <2>1. r \in Seq(S) /\ Len(r) = Len(p) /\ \A i \in 1..Len(p) : r[i] = p[Len(p) - i + 1]
    BY ReverseProperties
  <2> HIDE DEF r
  <2> QED
    BY <1>1, <2>1
<1> HIDE DEF q, r
<1>5. \A i \in 1..1 : q[i] \in S /\ r[i] \in S
  BY <1>1, <1>3, <1>4
<1>6. SubSeq(q, 1, 1) = SubSeq(r, 1, 1)
  <2>1. SubSeq(q, 1, 1) \in Seq(S) /\ Len(SubSeq(q, 1, 1)) = 1 /\ SubSeq(q, 1, 1)[1] = q[1]
    BY ONLY <1>3, <1>5, SubSeqProperties
  <2>2. SubSeq(r, 1, 1) \in Seq(S) /\ Len(SubSeq(r, 1, 1)) = 1 /\ SubSeq(r, 1, 1)[1] = r[1]
    BY ONLY <1>4, <1>5, SubSeqProperties
  <2>3. \A a, b \in Seq(S) : Len(a) = 1 /\ Len(b) = 1 /\ a[1] = b[1] => a = b
    OBVIOUS
  <2> QED
    BY <1>3, <1>4, <2>1, <2>2, <2>3
<1>7. Len(q) <= Len(r) /\ SubSeq(q, 1, Len(q)) = SubSeq(r, 1, Len(q))
  BY <1>1, <1>3, <1>4, <1>6
<1> QED
  BY <1>7 DEF util_str_ends_with, IsSuffix, IsPrefix, q, r, one

Destinations == {<<"/game/save">>, <<"/game/", "SCRIPT">>, <<"/sys/kernel/debug/usb/devices">>}

LEMMA RedirCases ==
  ASSUME NEW p \in Paths
  PROVE  \/ cnh_redir_check(p) = p
         \/ \E dest \in Destinations :
              Len(p) \in Nat \ {0} /\ cnh_redir_check(p) = dest \o SubSeq(p, 2, Len(p))
<1> DEFINE fits == {i \in DOMAIN hook_fs_redirs : IsPrefix(hook_fs_redirs[i].src, p)}
           first == CHOOSE i \in fits : \A k \in fits : i <= k
           r == hook_fs_redirs[first]
<1>1. CASE fits = {}
  BY <1>1 DEF cnh_redir_check
<1>2. CASE fits # {}
  <2>1. fits \subseteq 1..3
    BY DEF hook_fs_redirs
  <2>2. \E i \in fits : \A k \in fits : i <= k
    <3>1. CASE 1 \in fits
      BY <2>1, <3>1
    <3>2. CASE 1 \notin fits /\ 2 \in fits
      BY <2>1, <3>2
    <3>3. CASE 1 \notin fits /\ 2 \notin fits
      BY <1>2, <2>1, <3>3
    <3> QED
      BY <3>1, <3>2, <3>3
  <2>3. first \in fits
    <3> HIDE DEF fits
    <3> QED
      BY <2>2
  <2>4. IsPrefix(r.src, p) /\ first \in 1..3
    BY <2>1, <2>3
  <2>5. r.dest \in Destinations /\ Len(r.src) = 1
    <3> HIDE DEF first
    <3>1. CASE first = 1
      BY <3>1 DEF hook_fs_redirs, Destinations
    <3>2. CASE first = 2
      BY <3>2 DEF hook_fs_redirs, Destinations
    <3>3. CASE first = 3
      BY <3>3 DEF hook_fs_redirs, Destinations
    <3> QED
      BY <2>4, <3>1, <3>2, <3>3
  <2>6. cnh_redir_check(p) = r.dest \o SubSeq(p, Len(r.src) + 1, Len(p))
    <3>1. cnh_redir_check(p) =
            IF fits = {} THEN p ELSE r.dest \o SubSeq(p, Len(r.src) + 1, Len(p))
      BY Zenon DEF cnh_redir_check
    <3> HIDE DEF fits, r
    <3> QED
      BY <1>2, <3>1
  <2> HIDE DEF r
  <2>7. Len(p) \in Nat /\ Len(r.src) <= Len(p)
    BY <2>4, LenProperties DEF IsPrefix, Paths
  <2>8. Len(r.src) + 1 = 2 /\ Len(p) \in Nat \ {0}
    BY <2>5, <2>7
  <2> QED
    BY <2>5, <2>6, <2>8
<1> QED
  BY <1>1, <1>2

ProfileNames == {"nx2save.bin", "nx2rank.bin", "nxasave.bin", "nxarank.bin"}

LEMMA SameEnd ==
  ASSUME NEW p \in Paths, NEW name \in ProfileNames,
         util_str_ends_with(cnh_redir_check(p), name)
  PROVE  util_str_ends_with(p, name)
<1>1. CASE cnh_redir_check(p) = p
  BY <1>1
<1>2. CASE \E dest \in Destinations :
             Len(p) \in Nat \ {0} /\ cnh_redir_check(p) = dest \o SubSeq(p, 2, Len(p))
  <2>1. PICK dest \in Destinations :
          Len(p) \in Nat \ {0} /\ cnh_redir_check(p) = dest \o SubSeq(p, 2, Len(p))
    BY <1>2
  <2> DEFINE rest == SubSeq(p, 2, Len(p))
             q == dest \o rest
             n == Len(p)
  <2>2. q \in Seq(Parts)
    BY <2>1, RedirTyped DEF Paths
  <2>3. q # <<>> /\ q[Len(q)] = name
    BY <2>1, <2>2, EndsWith DEF Last
  <2>4. dest \in Seq(Parts) /\ Len(dest) \in {1, 2} /\ dest[Len(dest)] \notin ProfileNames
    <3>1. <<"/game/save">> \in Seq(Parts) /\ <<"/sys/kernel/debug/usb/devices">> \in Seq(Parts)
          /\ <<"/game/", "SCRIPT">> \in Seq(Parts)
      BY ShortSeqs DEF Parts
    <3>2. dest \in Seq(Parts)
      BY <3>1 DEF Destinations
    <3>3. CASE dest = <<"/game/save">>
      BY <3>2, <3>3 DEF ProfileNames
    <3>4. CASE dest = <<"/game/", "SCRIPT">>
      BY <3>2, <3>4 DEF ProfileNames
    <3>5. CASE dest = <<"/sys/kernel/debug/usb/devices">>
      BY <3>2, <3>5 DEF ProfileNames
    <3> QED
      BY <3>3, <3>4, <3>5 DEF Destinations
  <2>5. p \in Seq(Parts) /\ n \in Nat \ {0} /\ \A i \in 1..n : p[i] \in Parts
    BY <2>1, ElementOfSeq DEF Paths
  <2>6. /\ rest \in Seq(Parts) /\ Len(rest) = n - 1
        /\ \A i \in 1..n - 1 : rest[i] = p[i + 1]
    <3> HIDE DEF n
    <3>1. \A i \in 2..n : p[i] \in Parts
      BY <2>5
    <3>2. /\ SubSeq(p, 2, n) \in Seq(Parts)
          /\ Len(SubSeq(p, 2, n)) = IF 2 <= n THEN n - 2 + 1 ELSE 0
          /\ \A i \in 1..n - 2 + 1 : SubSeq(p, 2, n)[i] = p[2 + i - 1]
      BY <2>5, <3>1, SubSeqProperties
    <3>3. n - 2 + 1 = n - 1 /\ (~(2 <= n) => n - 1 = 0) /\ \A i \in 1..n - 1 : 2 + i - 1 = i + 1
      BY <2>5
    <3>4. rest = SubSeq(p, 2, n)
      BY DEF n
    <3> HIDE DEF rest
    <3> QED
      BY <3>2, <3>3, <3>4
  <2> HIDE DEF rest, n
  <2>7. /\ Len(q) = Len(dest) + Len(rest)
        /\ \A i \in 1..Len(dest) : q[i] = dest[i]
        /\ \A i \in 1..Len(rest) : q[Len(dest) + i] = rest[i]
    <3>1. Len(q) = Len(dest) + Len(rest)
          /\ \A i \in 1..Len(dest) + Len(rest) :
               q[i] = IF i <= Len(dest) THEN dest[i] ELSE rest[i - Len(dest)]
      BY <2>4, <2>6, ConcatProperties
    <3> HIDE DEF q
    <3>2. Len(dest) \in Nat /\ Len(rest) \in Nat
      BY <2>4, <2>5, <2>6
    <3>3. \A i \in 1..Len(dest) : i \in 1..Len(dest) + Len(rest) /\ i <= Len(dest)
      BY ONLY <3>2
    <3>4. \A i \in 1..Len(rest) :
            /\ Len(dest) + i \in 1..Len(dest) + Len(rest) /\ ~(Len(dest) + i <= Len(dest))
            /\ (Len(dest) + i) - Len(dest) = i
      BY ONLY <3>2
    <3> QED
      BY ONLY <3>1, <3>3, <3>4
  <2> HIDE DEF q
  <2>8. CASE n = 1
    <3>1. Len(q) = Len(dest) /\ Len(dest) \in 1..Len(dest)
      BY <2>4, <2>6, <2>7, <2>8
    <3>2. q[Len(q)] = dest[Len(dest)]
      BY <2>7, <3>1
    <3> QED
      BY <2>3, <2>4, <3>2
  <2>9. CASE n # 1
    <3>1. n - 1 \in 1..n - 1 /\ Len(q) = Len(dest) + (n - 1) /\ (n - 1) + 1 = n
      BY <2>4, <2>5, <2>6, <2>7, <2>9
    <3>2. q[Len(q)] = p[n]
      BY <2>6, <2>7, <3>1
    <3>3. p # <<>>
      BY <2>5 DEF n
    <3>4. Last(p) = name
      BY <2>3, <3>2 DEF Last, n
    <3> QED
      BY <2>5, <3>3, <3>4, EndsIn
  <2> QED
    BY <2>8, <2>9
<1> QED
  BY <1>1, <1>2, RedirCases

\* The calls of the generators: they write profiles only, under the names by which
\* the game opened them.
LEMMA Harmless ==
  ASSUME NEW g, NEW fn \in {"access", "fclose", "fwrite"}, NEW irp
  PROVE  KeepsToNames(g, fn, irp)
BY DEF KeepsToNames, hooked, F, access, fclose, fwrite

LEMMA CallsNamed ==
  ASSUME Inv, NamedFrames, UNCHANGED suite, NEW t \in Threads, IsIn(t), Top(t).going = "down",
         NEW f, f.fn = Top(t).fn, f.asked = Top(t).asked, NEW fn, NEW irp,
         frames' = [frames EXCEPT ![t] = Append(Append(Front(@), f), Frame(fn, irp))],
         KeepsToNames(game, fn, irp)
  PROVE  NamedFrames'
<1>1. NamedCall(game, Top(t))
  BY TopNamed
<1>2. NamedCall(game, f)
  BY <1>1 DEF NamedCall
<1>3. PICK g : g = Frame(fn, irp)
  OBVIOUS
<1>4. /\ g.fn = fn /\ g.asked.path = irp.path /\ g.asked.to = irp.to /\ g.asked.mode = irp.mode
  BY <1>3 DEF Frame
<1>5. NamedCall(game, g)
  BY <1>4 DEF NamedCall, KeepsToNames
<1> QED
  BY <1>2, <1>3, <1>5, PushesNamed

LEMMA CallingQuiet ==
  ASSUME Inv, NamedFrames, UNCHANGED suite, NEW t \in Threads, Has(t, "gen"),
         NEW pc, NEW fn, NEW irp, Calling(t, pc, fn, irp), KeepsToNames(game, fn, irp)
  PROVE  NamedFrames' /\ Unwritten
<1>1. IsIn(t) /\ Top(t) \in FrameTypes /\ Top(t).going = "down"
  BY HasTurn DEF Inv, Frames
<1>2. PICK f : f = [Top(t) EXCEPT !.pc = pc]
  OBVIOUS
<1>3. f.fn = Top(t).fn /\ f.asked = Top(t).asked
  BY <1>1, <1>2 DEF FrameTypes
<1>4. /\ frames' = [frames EXCEPT ![t] = Append(Append(Front(@), f), Frame(fn, irp))]
      /\ UNCHANGED diskVars
  BY <1>2 DEF Calling
<1>5. NamedFrames'
  BY <1>1, <1>3, <1>4, CallsNamed
<1> QED
  BY <1>4, <1>5 DEF Unwritten, diskVars

LEMMA ProfilesNamed ==
  ASSUME Inv, NamedFrames, NEW t \in Threads, Has(t, "gen"), Top(t).pc \in GenPcs
  PROVE  /\ Top(t).irp.path \in Names /\ Top(t).irp.path \in Paths
         /\ cnh_redir_check(Top(t).irp.path) = Top(t).irp.path
         /\ game \in {"nx2", "nxa"} /\ IsProfile(game, Top(t).irp.path)
<1>1. IsIn(t) /\ Top(t) \in Frames(game) /\ Top(t) \in FrameTypes /\ Top(t).going = "down"
      /\ Top(t).irp \in Requests
  BY HasTurn, FrameParts DEF Inv, Frames
<1>2. /\ game \in {"nx2", "nxa"} /\ Top(t).fn = "fopen" /\ Top(t).next_handler = 4
      /\ \E name \in generated[game] : util_str_ends_with(Top(t).irp.path, name)
  BY <1>1 DEF Frames, IsGenerator
<1>3. Top(t).irp.path = cnh_redir_check(Top(t).asked.path)
  <2>1. Top(t).next_handler > RedirAt(game)
    BY <1>2 DEF RedirAt
  <2> QED
    BY <1>1, <2>1 DEF Frames, IsRedirected, Rewritten
<1>4. game \in DOMAIN generated /\ generated[game] \subseteq ProfileNames
  BY <1>2 DEF generated, ProfileNames
<1>5. Top(t).asked.path \in Paths /\ Top(t).irp.path \in Paths
  BY <1>1 DEF FrameTypes, Requests
<1>6. PICK name \in generated[game] : util_str_ends_with(Top(t).irp.path, name)
  BY <1>2
<1>7. util_str_ends_with(Top(t).asked.path, name)
  BY <1>3, <1>4, <1>5, <1>6, SameEnd
<1>8. IsProfile(game, Top(t).asked.path) /\ IsProfile(game, Top(t).irp.path)
  BY <1>4, <1>6, <1>7 DEF IsProfile
<1>9. KeepsToNames(game, "fopen", Top(t).asked)
  BY <1>1, <1>2, TopNamed DEF NamedCall
<1>10. Top(t).asked.path \in Names /\ cnh_redir_check(Top(t).asked.path) = Top(t).asked.path
  BY <1>8, <1>9 DEF KeepsToNames
<1> QED
  BY <1>2, <1>3, <1>5, <1>8, <1>10

LEMMA SaveQuiet ==
  ASSUME Inv, NamedFrames, UNCHANGED suite, NEW t \in Threads, Has(t, "gen"), Top(t).pc \in GenPcs,
         Save(t)
  PROVE  NamedFrames' /\ Unwritten
<1>1. /\ Top(t).irp.path \in Names /\ Top(t).irp.path \in Paths
      /\ cnh_redir_check(Top(t).irp.path) = Top(t).irp.path
  BY ProfilesNamed
<1>2. PICK irp : irp = [OnPath(Top(t).irp.path) EXCEPT !.mode = "w"]
  OBVIOUS
<1>3. irp.path = Top(t).irp.path
  BY <1>2 DEF OnPath, Irp
<1>4. KeepsToNames(game, "fopen", irp)
  BY <1>1, <1>3 DEF KeepsToNames, hooked, F, fopen
<1>5. Calling(t, "created", "fopen", irp)
  BY <1>2 DEF Save
<1> QED
  BY <1>4, <1>5, CallingQuiet

LEMMA OlderQuiet ==
  ASSUME Inv, NamedFrames, UNCHANGED suite, NEW t \in Threads, Has(t, "gen"), Top(t).pc \in GenPcs,
         game = "nxa", NEW old,
         old = Append(Front(Top(t).irp.path), older["nxa"][Last(Top(t).irp.path)]),
         Calling(t, "older", "fopen", OnPath(old))
  PROVE  NamedFrames' /\ Unwritten
<1> DEFINE path == Top(t).irp.path
<1>1. path \in Seq(Parts) /\ IsProfile(game, path)
  BY ProfilesNamed DEF Paths
<1>2. PICK name \in generated["nxa"] : util_str_ends_with(path, name)
  BY <1>1 DEF IsProfile
<1>3. path # <<>> /\ Last(path) = name
  BY <1>1, <1>2, EndsWith
<1>4. older["nxa"][name] \in Parts /\ older["nxa"][name] \notin generated["nxa"]
  BY DEF older, generated, Parts
<1>5. Front(path) \in Seq(Parts)
  BY <1>1, <1>3, FrontAndLast
<1>6. old \in Seq(Parts) /\ old[Len(old)] = older["nxa"][name]
  <2>1. \A s \in Seq(Parts) : \A e \in Parts :
          Append(s, e) \in Seq(Parts) /\ Append(s, e)[Len(Append(s, e))] = e
    BY AppendProperties, LenProperties
  <2>2. old = Append(Front(path), older["nxa"][name])
    BY <1>3
  <2> HIDE DEF path
  <2> QED
    BY <1>4, <1>5, <2>1, <2>2
<1>7. ~IsProfile(game, old)
  <2>1. \A n \in generated["nxa"] : ~util_str_ends_with(old, n)
    <3> SUFFICES ASSUME NEW n \in generated["nxa"], util_str_ends_with(old, n) PROVE FALSE
      OBVIOUS
    <3>1. old[Len(old)] = n
      BY <1>6, EndsWith DEF Last
    <3> QED
      BY <1>4, <1>6, <3>1
  <2> QED
    BY <2>1 DEF IsProfile
<1>8. PICK irp : irp = OnPath(old)
  OBVIOUS
<1>9. irp.path = old /\ irp.mode = "r"
  BY <1>8 DEF OnPath, Irp
<1>10. KeepsToNames(game, "fopen", irp)
  BY <1>7, <1>9 DEF KeepsToNames, hooked, F, fopen
<1> QED
  BY <1>8, <1>10, CallingQuiet

LEMMA GeneratorsQuiet ==
  ASSUME Inv, NamedFrames, UNCHANGED suite, NEW t \in Threads,
         nx2hook_profile_gen_filehook(t) \/ nxahook_profile_gen_filehook(t)
  PROVE  NamedFrames' /\ Unwritten
<1>1. /\ Has(t, "gen")
      /\ check_if_exists(t) \/ starts(t) \/ util_file_save(t) \/ (game = "nxa" /\ migrates(t))
  BY Zenon DEF nx2hook_profile_gen_filehook, nxahook_profile_gen_filehook
<1>2. IsIn(t) /\ Top(t) \in FrameTypes /\ Top(t).going = "down"
  BY <1>1, HasTurn DEF Inv, Frames
<1>3. CASE Passes(t) \/ ends(t)
  BY <1>1, <1>3, PassesQuiet
<1>4. CASE \E pc, irp : \E fn \in {"access", "fclose"} : Calling(t, pc, fn, irp)
  <2>1. PICK pc, irp : \E fn \in {"access", "fclose"} : Calling(t, pc, fn, irp)
    BY <1>4
  <2>2. PICK fn \in {"access", "fclose"} : Calling(t, pc, fn, irp)
    BY <2>1
  <2>3. KeepsToNames(game, fn, irp)
    BY Harmless
  <2> QED
    BY <1>1, <2>2, <2>3, CallingQuiet
<1>5. CASE check_if_exists(t)
  BY Zenon, <1>3, <1>4, <1>5 DEF check_if_exists
<1>6. CASE starts(t)
  <2>1. Top(t).pc \in GenPcs
    BY <1>6 DEF starts, GenPcs
  <2>2. \/ Passes(t) \/ Save(t)
        \/ /\ game = "nxa"
           /\ Calling(t, "older", "fopen",
                OnPath(Append(Front(Top(t).irp.path), older["nxa"][Last(Top(t).irp.path)])))
    BY Zenon, <1>6 DEF starts
  <2> QED
    BY Zenon, <1>1, <1>3, <2>1, <2>2, SaveQuiet, OlderQuiet
<1>7. CASE migrates(t)
  <2>1. \/ Top(t).pc = "older" /\ Save(t)
        \/ Calling(t, "is_older", "fclose", OnFile(Top(t).got))
        \/ ends(t)
    BY Zenon, <1>7 DEF migrates
  <2>2. CASE Top(t).pc = "older" /\ Save(t)
    BY <1>1, <2>2, SaveQuiet DEF GenPcs
  <2> QED
    BY Zenon, <1>3, <1>4, <2>1, <2>2
<1>8. CASE util_file_save(t)
  <2>1. \/ ends(t)
        \/ /\ frames' = [frames EXCEPT ![t] = Append(Append(Front(@),
                  [Top(t) EXCEPT !.pc = "written", !.held = Top(t).got]),
                  Frame("fwrite", OnFile(Top(t).got)))]
           /\ UNCHANGED <<errno, diskVars, handlerVars>>
        \/ Calling(t, "saved", "fclose", OnFile(Top(t).held))
    BY Zenon, <1>8 DEF util_file_save
  <2>2. CASE /\ frames' = [frames EXCEPT ![t] = Append(Append(Front(@),
                  [Top(t) EXCEPT !.pc = "written", !.held = Top(t).got]),
                  Frame("fwrite", OnFile(Top(t).got)))]
             /\ UNCHANGED <<errno, diskVars, handlerVars>>
    <3>1. PICK f : f = [Top(t) EXCEPT !.pc = "written", !.held = Top(t).got]
      OBVIOUS
    <3>2. f.fn = Top(t).fn /\ f.asked = Top(t).asked
      BY <1>2, <3>1 DEF FrameTypes
    <3>3. KeepsToNames(game, "fwrite", OnFile(Top(t).got))
      BY Harmless
    <3>4. frames' = [frames EXCEPT ![t] = Append(Append(Front(@), f),
                       Frame("fwrite", OnFile(Top(t).got)))]
      BY Zenon, <2>2, <3>1
    <3>5. NamedFrames'
      BY <1>2, <3>2, <3>3, <3>4, CallsNamed
    <3> QED
      BY <2>2, <3>5 DEF Unwritten, diskVars
  <2> QED
    BY Zenon, <1>3, <1>4, <2>1, <2>2
<1> QED
  BY <1>1, <1>5, <1>6, <1>7, <1>8

\* The game makes a call: one that may change a file names one.
LEMMA CheckedHandles ==
  ASSUME NEW fn \in Fns, hooked[fn].checked = "h"
  PROVE  hooked[fn].op \notin {"OPEN", "RENAME", "REMOVE"} /\ fn # "fopen"
<1>1. CASE fn \in {"fclose", "fread", "fgets", "fseek", "rewind", "ftell", "feof"}
  BY <1>1 DEF hooked, F, fclose, fread, fgets, fseek, rewind, ftell, feof
<1>2. CASE fn \in {"fdopen", "close", "read", "write", "lseek", "ioctl"}
  BY <1>2 DEF hooked, F, fdopen, close, read, write, lseek, ioctl
<1>3. CASE fn \in {"fopen", "open", "rename", "remove", "access"}
  BY <1>3 DEF hooked, F, fopen, open, rename, remove, access
<1>4. CASE fn \in {"fwrite", "opendir", "__lxstat", "__xstat"}
  BY <1>4 DEF hooked, F, fwrite, opendir, __lxstat, __xstat
<1>5. \/ fn \in {"fclose", "fread", "fgets", "fseek", "rewind", "ftell", "feof"}
      \/ fn \in {"fdopen", "close", "read", "write", "lseek", "ioctl"}
      \/ fn \in {"fopen", "open", "rename", "remove", "access"}
      \/ fn \in {"fwrite", "opendir", "__lxstat", "__xstat"}
  BY DEF Fns, hooked
<1> QED
  BY <1>1, <1>2, <1>3, <1>4, <1>5

LEMMA GameCallsQuiet ==
  ASSUME Inv, NamedFrames, UNCHANGED suite, NEW t \in Threads, GameCalls(t)
  PROVE  NamedFrames' /\ Unwritten
<1>1. PICK c \in Suites[suite.of].calls[t] :
        LET chain == hooked[c.fn].chain
            onHandle == hooked[c.fn].op # "OPEN" /\ chain # "fs"
        IN \/ onHandle /\ \E h \in Own(t, chain) : Call(t, c.fn, [c.irp EXCEPT !.h = h])
           \/ ~onHandle /\ Call(t, c.fn, c.irp)
           \/ c.irp.h = -1 /\ Call(t, c.fn, [c.irp EXCEPT !.h = 0])
  BY DEF GameCalls
<1>2. IsCall(c) /\ ~IsIn(t) /\ suite.of \in DOMAIN Suites
      /\ (IsNull(c.fn, c.irp) \/ KeepsToNames(Suites[suite.of].game, c.fn, c.irp))
  BY SuitesAreCalls, NamesAreOfFiles DEF Inv, SuiteInv, GameCalls
<1>3. c.irp \in Requests /\ c.fn \in Fns /\ game = Suites[suite.of].game
  BY <1>2, IrpsAreRequests DEF IsCall, Fns, Inv, SuiteInv, game
<1>4. PICK irp : Call(t, c.fn, irp) /\ (irp = c.irp \/ \E h : irp = [c.irp EXCEPT !.h = h])
  BY Zenon, <1>1
<1>5. irp.path = c.irp.path /\ irp.to = c.irp.to /\ irp.mode = c.irp.mode
  BY <1>3, <1>4 DEF Requests
<1>6. IsNull(c.fn, irp) \/ KeepsToNames(game, c.fn, irp)
  <2>1. CASE hooked[c.fn].checked = "h"
    BY <1>3, <2>1, CheckedHandles DEF KeepsToNames
  <2>2. CASE hooked[c.fn].checked # "h"
    <3>1. IsNull(c.fn, c.irp) => IsNull(c.fn, irp)
      BY <1>5, <2>2 DEF IsNull
    <3>2. KeepsToNames(game, c.fn, c.irp) => KeepsToNames(game, c.fn, irp)
      BY <1>5 DEF KeepsToNames
    <3> QED
      BY <1>2, <1>3, <3>1, <3>2
  <2> QED
    BY <2>1, <2>2
<1> DEFINE f == IF IsNull(c.fn, irp)
                THEN [Frame(c.fn, irp) EXCEPT !.going = "done", !.ret = hooked[c.fn].bad,
                                              !.claimed = TRUE]
                ELSE Frame(c.fn, irp)
<1>7. frames' = [frames EXCEPT ![t] = Append(@, f)] /\ UNCHANGED diskVars
  BY <1>4 DEF Call
<1>8. /\ f.fn = c.fn
      /\ IsNull(c.fn, irp) => f.going = "done"
      /\ f.asked.path = irp.path /\ f.asked.to = irp.to /\ f.asked.mode = irp.mode
  BY DEF Frame
<1> HIDE DEF f
<1>9. NamedCall(game, f)
  <2>1. CASE IsNull(c.fn, irp)
    BY <1>8, <2>1 DEF NamedCall
  <2>2. CASE KeepsToNames(game, c.fn, irp)
    BY <1>8, <2>2 DEF NamedCall, KeepsToNames
  <2> QED
    BY <1>6, <2>1, <2>2
<1>10. NamedFrames'
  BY <1>2, <1>7, <1>9, StartsNamed
<1> QED
  BY <1>7, <1>10 DEF Unwritten, diskVars

\* The real functions that change no file.
LEMMA RealQuiet ==
  ASSUME Inv, NamedFrames, UNCHANGED suite, NEW t \in Threads, Has(t, "real"),
         \/ \E real, irp : Returns(t, real, irp)
         \/ \E real, e : Fails(t, real, e),
         tree' = tree, streams' = streams
  PROVE  NamedFrames' /\ Unwritten
<1>1. NamedFrames'
  BY ReturnsNamed
<1> QED
  BY <1>1 DEF Unwritten

LEMMA OthersQuiet ==
  ASSUME Inv, NamedFrames, UNCHANGED suite, NEW t \in Threads,
         \/ _cnh_filehook_invoke_real_fread(t) \/ _cnh_filehook_invoke_real_fwrite(t)
         \/ _cnh_filehook_invoke_real_fgets(t) \/ _cnh_filehook_invoke_real_fseek(t)
         \/ _cnh_filehook_invoke_real_ftell(t) \/ _cnh_filehook_invoke_real_feof(t)
         \/ _cnh_iohook_invoke_real_fdopen(t) \/ _cnh_iohook_invoke_real_close(t)
         \/ _cnh_iohook_invoke_real_read(t) \/ _cnh_iohook_invoke_real_write(t)
         \/ _cnh_iohook_invoke_real_seek(t) \/ _cnh_iohook_invoke_real_ioctl(t)
         \/ _cnh_fshook_invoke_real_opendir(t) \/ _cnh_fshook_invoke_real_lxstat(t)
         \/ _cnh_fshook_invoke_real_xstat(t) \/ _cnh_fshook_invoke_real_access(t)
  PROVE  NamedFrames' /\ Unwritten
<1> DEFINE Ends == \/ \E real, irp : Returns(t, real, irp)
                   \/ \E real, e : Fails(t, real, e)
           Quiet == Has(t, "real") /\ Ends /\ tree' = tree /\ streams' = streams
<1>1. ASSUME NEW real, MayFail(t, real) PROVE Ends /\ tree' = tree /\ streams' = streams
  BY Zenon, <1>1 DEF MayFail, diskVars
<1>2. ASSUME UNCHANGED diskVars PROVE tree' = tree /\ streams' = streams
  BY <1>2 DEF diskVars
<1>3. ASSUME NEW op, NEW good, NEW bad, OnName(t, op, good, bad) PROVE Quiet
  BY Zenon, <1>1, <1>2, <1>3 DEF OnName, Real
<1>4. CASE _cnh_filehook_invoke_real_fread(t)
  BY Zenon, <1>1, <1>2, <1>4, RealQuiet DEF _cnh_filehook_invoke_real_fread, Real
<1>5. CASE _cnh_filehook_invoke_real_fwrite(t)
  BY Zenon, <1>1, <1>2, <1>5, RealQuiet DEF _cnh_filehook_invoke_real_fwrite, Real
<1>6. CASE _cnh_filehook_invoke_real_fgets(t)
  BY Zenon, <1>1, <1>2, <1>6, RealQuiet DEF _cnh_filehook_invoke_real_fgets, Real
<1>7. CASE _cnh_filehook_invoke_real_fseek(t)
  BY Zenon, <1>1, <1>2, <1>7, RealQuiet DEF _cnh_filehook_invoke_real_fseek, Real
<1>8. CASE _cnh_filehook_invoke_real_ftell(t)
  BY Zenon, <1>1, <1>2, <1>8, RealQuiet DEF _cnh_filehook_invoke_real_ftell, Real
<1>9. CASE _cnh_filehook_invoke_real_feof(t)
  BY Zenon, <1>1, <1>2, <1>9, RealQuiet DEF _cnh_filehook_invoke_real_feof, Real
<1>10. CASE _cnh_iohook_invoke_real_fdopen(t)
  BY Zenon, <1>1, <1>2, <1>10, RealQuiet DEF _cnh_iohook_invoke_real_fdopen, Real
<1>11. CASE _cnh_iohook_invoke_real_close(t)
  BY Zenon, <1>1, <1>2, <1>11, RealQuiet DEF _cnh_iohook_invoke_real_close, Real
<1>12. CASE _cnh_iohook_invoke_real_read(t)
  BY Zenon, <1>1, <1>2, <1>12, RealQuiet DEF _cnh_iohook_invoke_real_read, Real
<1>13. CASE _cnh_iohook_invoke_real_write(t)
  BY Zenon, <1>1, <1>2, <1>13, RealQuiet DEF _cnh_iohook_invoke_real_write, Real
<1>14. CASE _cnh_iohook_invoke_real_seek(t)
  BY Zenon, <1>1, <1>2, <1>14, RealQuiet DEF _cnh_iohook_invoke_real_seek, Real
<1>15. CASE _cnh_iohook_invoke_real_ioctl(t)
  BY Zenon, <1>1, <1>2, <1>15, RealQuiet DEF _cnh_iohook_invoke_real_ioctl, Real
<1>16. CASE \/ _cnh_fshook_invoke_real_opendir(t) \/ _cnh_fshook_invoke_real_lxstat(t)
            \/ _cnh_fshook_invoke_real_xstat(t) \/ _cnh_fshook_invoke_real_access(t)
  BY Zenon, <1>3, <1>16, RealQuiet DEF _cnh_fshook_invoke_real_opendir, _cnh_fshook_invoke_real_lxstat,
     _cnh_fshook_invoke_real_xstat, _cnh_fshook_invoke_real_access
<1> QED
  BY <1>4, <1>5, <1>6, <1>7, <1>8, <1>9, <1>10, <1>11, <1>12, <1>13, <1>14, <1>15, <1>16

\* What the real functions are called with.
LEMMA RealNamed ==
  ASSUME Inv, NamedFrames, NEW t \in Threads, NEW op, Real(t, op)
  PROVE  /\ IsIn(t) /\ Has(t, "real") /\ Op(t) = op /\ Top(t) \in FrameTypes
         /\ Top(t).irp.path = cnh_redir_check(Top(t).asked.path)
         /\ Top(t).irp.to = IF op = "RENAME" THEN cnh_redir_check(Top(t).asked.to)
                                             ELSE Top(t).asked.to
         /\ Top(t).irp.mode = Top(t).asked.mode
         /\ KeepsToNames(game, Top(t).fn, Top(t).asked)
<1> DEFINE f == Top(t)
<1>1. /\ Has(t, "real") /\ IsIn(t) /\ f \in Frames(game) /\ game \in Games /\ f \in FrameTypes
      /\ f.fn \in Fns /\ hooked[f.fn].op = op /\ f.going = "down" /\ AtReal(game, f)
  BY AtRealCall
<1>2. NamedCall(game, f)
  BY <1>1, TopNamed
<1> HIDE DEF f
<1>3. f.next_handler > RedirAt(game)
  <2>1. IsList(HandlersOf(game, f.fn), RedirAt(game))
    BY <1>1, HandlerLists
  <2>2. f.next_handler \in Int
    BY <1>1 DEF FrameTypes
  <2> QED
    BY <1>1, <2>1, <2>2 DEF IsList, AtReal
<1>4. /\ f.irp.path = cnh_redir_check(f.asked.path)
      /\ f.irp.to = IF op = "RENAME" THEN cnh_redir_check(f.asked.to) ELSE f.asked.to
      /\ f.irp.mode = f.asked.mode
  BY <1>1, <1>3 DEF Frames, IsRedirected, Rewritten
<1>5. KeepsToNames(game, f.fn, f.asked)
  BY <1>1, <1>2 DEF NamedCall
<1>6. Op(t) = op
  BY <1>1 DEF Op, f
<1> QED
  BY <1>1, <1>4, <1>5, <1>6 DEF f

\* The files, by their names.
AsSeen == [n \in Names |-> tree[cnh_redir_check(n)]]
LEMMA SeenChange ==
  ASSUME RestInv, NEW n \in Names, NEW v, tree' = [tree EXCEPT ![cnh_redir_check(n)] = v]
  PROVE  AsSeen' = [AsSeen EXCEPT ![n] = v]
<1>1. tree \in [Disk -> {"absent", "partial", "complete"}]
  BY DEF RestInv
<1>2. ASSUME NEW m \in Names PROVE AsSeen'[m] = [AsSeen EXCEPT ![n] = v][m]
  <2>1. cnh_redir_check(m) \in Disk /\ (m = n \/ cnh_redir_check(m) # cnh_redir_check(n))
    BY NamesAreOfFiles
  <2> QED
    BY <1>1, <2>1 DEF AsSeen
<1>3. AsSeen' = [m \in Names |-> AsSeen'[m]]
  BY DEF AsSeen
<1>4. [AsSeen EXCEPT ![n] = v] = [m \in Names |-> [AsSeen EXCEPT ![n] = v][m]]
  BY DEF AsSeen
<1> QED
  BY <1>2, <1>3, <1>4

LEMMA SeenName ==
  ASSUME NEW n \in Names PROVE AsSeen[n] = tree[cnh_redir_check(n)] /\ cnh_redir_check(n) \in Disk
BY NamesAreOfFiles DEF AsSeen

\* A step that opens no file to write it leaves the streams with their names.
LEMMA QuietStreams == ASSUME NamedStreams, Unwritten PROVE NamedStreams'
<1>1. ASSUME NEW h \in 1..MaxHandles PROVE NamedFile(streams'[h])
  BY DEF NamedStreams, Unwritten
<1> QED
  BY <1>1 DEF NamedStreams, NamedFile

SeenStep == AsNamed!Next
LEMMA QuietStep == ASSUME tree' = tree PROVE SeenStep
BY DEF SeenStep, AsNamed!Next

\* An open creates or empties the file that it names, if it is to write it.
LEMMA MadeNamed ==
  ASSUME Inv, NamedFrames, UNCHANGED suite, NEW t \in Threads, Real(t, "OPEN"),
         NEW handles, NEW h, OpenReal(t, handles, h)
  PROVE  NamedFrames' /\ SeenStep
<1> DEFINE f == Top(t)
           irp == f.irp
           made == irp.mode = "w" /\ irp.path \in Disk
<1>1. /\ Has(t, "real") /\ IsIn(t) /\ Op(t) = "OPEN" /\ f \in FrameTypes
      /\ irp.path = cnh_redir_check(f.asked.path) /\ irp.mode = f.asked.mode
      /\ KeepsToNames(game, f.fn, f.asked)
  BY RealNamed
<1>2. (\E real, r : Returns(t, real, r)) \/ \E real, e : Fails(t, real, e)
  BY Zenon DEF OpenReal
<1>3. NamedFrames'
  BY <1>1, <1>2, ReturnsNamed
<1>4. tree' = tree \/ (made /\ tree' = [tree EXCEPT ![irp.path] = "partial"])
  BY Zenon DEF OpenReal
<1>5. CASE made /\ tree' = [tree EXCEPT ![irp.path] = "partial"]
  <2>1. f.asked.path \in Names /\ f.asked.mode = "w"
    BY <1>1, <1>5 DEF KeepsToNames, Op
  <2>2. tree' = [tree EXCEPT ![cnh_redir_check(f.asked.path)] = "partial"]
    BY <1>1, <1>5
  <2>3. AsSeen' = [AsSeen EXCEPT ![f.asked.path] = "partial"]
    BY <2>1, <2>2, SeenChange DEF Inv
  <2>4. Asked(t).op = "OPEN" /\ Asked(t).path = f.asked.path
    BY <1>1, <2>1 DEF Asked
  <2>5. AsNamed!Create(t)
    BY <2>3, <2>4 DEF AsNamed!Create, AsNamed!Asks, AsSeen
  <2> QED
    BY Zenon, <1>3, <2>5 DEF SeenStep, AsNamed!Next
<1> QED
  BY <1>3, <1>4, <1>5, QuietStep

LEMMA FopenNamed ==
  ASSUME Inv, NamedFrames, NamedStreams, UNCHANGED suite, NEW t \in Threads,
         _cnh_filehook_invoke_real_fopen(t)
  PROVE  NamedFrames' /\ NamedStreams' /\ SeenStep
<1>1. PICK h \in Free(streams) \cup {0} : OpenReal(t, streams, h) /\ streams' = Keep(streams, t, h)
  BY DEF _cnh_filehook_invoke_real_fopen
<1>2. Real(t, "OPEN")
  BY DEF _cnh_filehook_invoke_real_fopen
<1>3. NamedFrames' /\ SeenStep
  BY <1>1, <1>2, MadeNamed
<1> DEFINE file == Opened(t, "file", Top(t).irp)
<1>4. NamedFile(file)
  <2>1. /\ Op(t) = "OPEN" /\ Top(t).irp.path = cnh_redir_check(Top(t).asked.path)
        /\ Top(t).irp.mode = Top(t).asked.mode /\ KeepsToNames(game, Top(t).fn, Top(t).asked)
    BY <1>2, RealNamed
  <2> QED
    BY <2>1 DEF NamedFile, Opened, KeepsToNames, Op
<1> HIDE DEF file
<1>5. streams' = streams \/ (h \in 1..MaxHandles /\ streams' = [streams EXCEPT ![h] = file])
  BY <1>1 DEF Keep, Free, file, Inv, RestInv, HandleTypes
<1>6. ASSUME NEW k \in 1..MaxHandles PROVE NamedFile(streams'[k])
  <2>1. streams'[k] = streams[k] \/ streams'[k] = file
    BY <1>5 DEF Inv, RestInv, HandleTypes
  <2> QED
    BY <1>4, <2>1 DEF NamedStreams
<1>7. NamedStreams'
  BY <1>6 DEF NamedStreams, NamedFile
<1> QED
  BY <1>3, <1>7

LEMMA OpenNamed ==
  ASSUME Inv, NamedFrames, NamedStreams, UNCHANGED suite, NEW t \in Threads,
         _cnh_iohook_invoke_real_open(t)
  PROVE  NamedFrames' /\ NamedStreams' /\ SeenStep
<1>1. PICK h : OpenReal(t, fds, h)
  BY DEF _cnh_iohook_invoke_real_open
<1>2. Real(t, "OPEN") /\ streams' = streams
  BY DEF _cnh_iohook_invoke_real_open
<1>3. NamedFrames' /\ SeenStep
  BY <1>1, <1>2, MadeNamed
<1>4. NamedStreams'
  BY <1>2 DEF NamedStreams, NamedFile
<1> QED
  BY <1>3, <1>4

\* A close fills the file that the stream was opened to write.
LEMMA FcloseNamed ==
  ASSUME Inv, NamedFrames, NamedStreams, UNCHANGED suite, NEW t \in Threads,
         _cnh_filehook_invoke_real_fclose(t)
  PROVE  NamedFrames' /\ NamedStreams' /\ SeenStep
<1> DEFINE h == Top(t).irp.h
           file == streams[h]
<1>1. /\ Real(t, "CLOSE") /\ Chain(t) = "file" /\ streams' = [streams EXCEPT ![h] = Closed]
      /\ \/ Returns(t, 0, Top(t).irp) /\ tree' = Completed(file)
         \/ (\E e : Fails(t, -1, e)) /\ UNCHANGED tree
  BY Zenon DEF _cnh_filehook_invoke_real_fclose
<1>2. h \in 1..MaxHandles
  BY <1>1, CloseIsForgotten DEF Mine
<1>3. IsIn(t) /\ Has(t, "real") /\ Op(t) = "CLOSE"
  BY <1>1, RealNamed
<1>4. NamedFrames'
  <2>1. (\E real, irp : Returns(t, real, irp)) \/ \E real, e : Fails(t, real, e)
    BY Zenon, <1>1
  <2> QED
    BY <1>3, <2>1, ReturnsNamed
<1>5. NamedFile(file)
  BY <1>2 DEF NamedStreams
<1>6. SeenStep
  <2>1. CASE tree' = tree
    BY <2>1, QuietStep
  <2>2. CASE tree' # tree
    <3>1. /\ file.mode = "w" /\ file.kind = "file" /\ tree[file.path] = "partial"
          /\ tree' = [tree EXCEPT ![file.path] = "complete"]
      BY <1>1, <2>2 DEF Completed
    <3>2. file.name \in Names /\ file.path = cnh_redir_check(file.name)
      BY <1>5, <3>1 DEF NamedFile
    <3>3. AsSeen' = [AsSeen EXCEPT ![file.name] = "complete"]
      BY <3>1, <3>2, SeenChange DEF Inv
    <3>4. AsSeen[file.name] = "partial"
      BY <3>1, <3>2, SeenName
    <3>5. Asked(t).op = "CLOSE" /\ Asked(t).path = file.name
      BY <1>1, <1>2, <1>3 DEF Asked
    <3> HIDE DEF file
    <3>6. AsNamed!Fill(t)
      BY <3>2, <3>3, <3>4, <3>5 DEF AsNamed!Fill, AsNamed!Asks, AsSeen
    <3> QED
      BY Zenon, <3>6 DEF SeenStep, AsNamed!Next
  <2> QED
    BY <2>1, <2>2
<1>7. ASSUME NEW k \in 1..MaxHandles PROVE NamedFile(streams'[k])
  <2>1. streams'[k] = streams[k] \/ streams'[k] = Closed
    BY <1>1, <1>2 DEF Inv, RestInv, HandleTypes
  <2>2. NamedFile(Closed)
    BY DEF NamedFile, Closed
  <2> QED
    BY <2>1, <2>2 DEF NamedStreams
<1>8. NamedStreams'
  BY <1>7 DEF NamedStreams, NamedFile
<1> QED
  BY <1>4, <1>6, <1>8

\* A rename moves the file that it names.
LEMMA RenameNamed ==
  ASSUME Inv, NamedFrames, NamedStreams, UNCHANGED suite, NEW t \in Threads,
         _cnh_fshook_invoke_real_rename(t)
  PROVE  NamedFrames' /\ NamedStreams' /\ SeenStep
<1> DEFINE old == Top(t).irp.path
           new == Top(t).irp.to
           moved == [p \in Disk |-> IF p = new THEN tree[old]
                                            ELSE IF p = old THEN "absent" ELSE tree[p]]
           from == Top(t).asked.path
           to == Top(t).asked.to
<1>1. Changing(t, "RENAME", Exists(old) /\ new \in Disk, moved)
  BY Zenon DEF _cnh_fshook_invoke_real_rename
<1> HIDE DEF moved
<1>2. /\ Real(t, "RENAME") /\ streams' = streams
      /\ (\E real, irp : Returns(t, real, irp)) \/ \E real, e : Fails(t, real, e)
      /\ tree' = tree \/ (Exists(old) /\ tree' = moved)
  BY Zenon, <1>1 DEF Changing
<1>3. /\ IsIn(t) /\ Has(t, "real") /\ Op(t) = "RENAME" /\ old = cnh_redir_check(from)
      /\ new = cnh_redir_check(to) /\ KeepsToNames(game, Top(t).fn, Top(t).asked)
  BY <1>2, RealNamed
<1>4. NamedFrames'
  BY <1>2, <1>3, ReturnsNamed
<1>5. NamedStreams'
  BY <1>2 DEF NamedStreams, NamedFile
<1>6. from \in Names /\ to \in Names
  BY <1>3 DEF KeepsToNames, Op
<1>7. Asked(t).op = "RENAME" /\ Asked(t).path = from /\ Asked(t).to = to
  BY <1>3 DEF Asked
<1> HIDE DEF from, to, old, new
<1>8. CASE Exists(old) /\ tree' = moved
  <2>1. AsSeen[from] # "absent"
    BY <1>3, <1>6, <1>8, SeenName DEF Exists
  <2>2. ASSUME NEW n \in Names
        PROVE  AsSeen'[n] = IF n = to THEN AsSeen[from]
                            ELSE IF n = from THEN "absent" ELSE AsSeen[n]
    <3>1. /\ cnh_redir_check(n) \in Disk /\ (n = to <=> cnh_redir_check(n) = new)
          /\ (n = from <=> cnh_redir_check(n) = old)
      BY <1>3, <1>6, NamesAreOfFiles
    <3>2. AsSeen'[n] = tree'[cnh_redir_check(n)] /\ AsSeen[n] = tree[cnh_redir_check(n)]
      BY DEF AsSeen
    <3>3. AsSeen[from] = tree[old]
      BY <1>3, <1>6, SeenName
    <3> QED
      BY <1>8, <3>1, <3>2, <3>3 DEF moved
  <2>3. AsSeen' = [AsSeen EXCEPT ![to] = AsSeen[from],
                                 ![from] = IF to = from THEN @ ELSE "absent"]
    <3> DEFINE after == [AsSeen EXCEPT ![to] = AsSeen[from],
                                       ![from] = IF to = from THEN @ ELSE "absent"]
    <3>1. ASSUME NEW n \in Names PROVE AsSeen'[n] = after[n]
      BY <1>6, <2>2 DEF AsSeen
    <3>2. AsSeen' = [n \in Names |-> AsSeen'[n]]
      BY DEF AsSeen
    <3>3. DOMAIN after = Names
      BY DEF AsSeen
    <3>4. after = [n \in Names |-> after[n]]
      BY Zenon, <3>3
    <3> QED
      BY <3>1, <3>2, <3>4
  <2>4. AsNamed!Rename(t)
    BY <1>7, <2>1, <2>3 DEF AsNamed!Rename, AsNamed!Asks, AsSeen
  <2>5. SeenStep
    BY Zenon, <2>4 DEF SeenStep, AsNamed!Next
  <2> QED
    BY <1>4, <1>5, <2>5
<1> QED
  BY <1>2, <1>4, <1>5, <1>8, QuietStep

LEMMA RemoveNamed ==
  ASSUME Inv, NamedFrames, NamedStreams, UNCHANGED suite, NEW t \in Threads,
         _cnh_fshook_invoke_real_remove(t)
  PROVE  NamedFrames' /\ NamedStreams' /\ SeenStep
<1> DEFINE path == Top(t).irp.path
           left == [p \in Disk |-> IF p = path THEN "absent" ELSE tree[p]]
           name == Top(t).asked.path
<1>1. Changing(t, "REMOVE", Exists(path), left)
  BY Zenon DEF _cnh_fshook_invoke_real_remove
<1> HIDE DEF left
<1>2. /\ Real(t, "REMOVE") /\ streams' = streams
      /\ (\E real, irp : Returns(t, real, irp)) \/ \E real, e : Fails(t, real, e)
      /\ tree' = tree \/ tree' = left
  BY Zenon, <1>1 DEF Changing
<1>3. /\ IsIn(t) /\ Has(t, "real") /\ Op(t) = "REMOVE" /\ path = cnh_redir_check(name)
      /\ KeepsToNames(game, Top(t).fn, Top(t).asked)
  BY <1>2, RealNamed
<1>4. NamedFrames'
  BY <1>2, <1>3, ReturnsNamed
<1>5. NamedStreams'
  BY <1>2 DEF NamedStreams, NamedFile
<1>6. name \in Names
  BY <1>3 DEF KeepsToNames, Op
<1>7. Asked(t).op = "REMOVE" /\ Asked(t).path = name
  BY <1>3 DEF Asked
<1> HIDE DEF name, path
<1>8. CASE tree' = left
  <2>1. tree' = [tree EXCEPT ![cnh_redir_check(name)] = "absent"]
    <3>1. tree \in [Disk -> {"absent", "partial", "complete"}]
      BY DEF Inv, RestInv
    <3> QED
      BY <1>3, <1>8, <3>1 DEF left
  <2>2. AsSeen' = [AsSeen EXCEPT ![name] = "absent"]
    BY <1>6, <2>1, SeenChange DEF Inv
  <2>3. AsNamed!Remove(t)
    BY <1>7, <2>2 DEF AsNamed!Remove, AsNamed!Asks, AsSeen
  <2>4. SeenStep
    BY Zenon, <2>3 DEF SeenStep, AsNamed!Next
  <2> QED
    BY <1>4, <1>5, <2>4
<1> QED
  BY <1>2, <1>4, <1>5, <1>8, QuietStep

\* The redirections and the monitors forward the call, as does the wrapper that
\* has the result.
LEMMA ForwardsQuiet ==
  ASSUME Inv, NamedFrames, UNCHANGED suite, NEW t \in Threads,
         \/ cnh_redir_filehook(t) \/ cnh_redir_iohook(t) \/ cnh_redir_fshook(t)
         \/ cnh_fileopen_mon(t) \/ cnh_filehook_mon(t) \/ cnh_iohook_mon(t) \/ cnh_fshook_mon(t)
         \/ Done(t) \/ Leave(t)
  PROVE  NamedFrames' /\ Unwritten
<1>1. CASE cnh_redir_filehook(t) \/ cnh_redir_iohook(t) \/ cnh_redir_fshook(t)
  <2>1. PICK irp : Has(t, "redir") /\ invoke_next(t, irp) /\ UNCHANGED diskVars
    BY Zenon, <1>1 DEF cnh_redir_filehook, cnh_redir_iohook, cnh_redir_fshook, Redirects
  <2> QED
    BY <2>1, ForwardQuiet
<1>2. CASE cnh_fileopen_mon(t) \/ cnh_filehook_mon(t) \/ cnh_iohook_mon(t) \/ cnh_fshook_mon(t)
  <2>1. PICK name \in {"mon", "open_mon"} : Has(t, name) /\ Passes(t)
    BY Zenon, <1>2 DEF cnh_fileopen_mon, cnh_filehook_mon, cnh_iohook_mon, cnh_fshook_mon
  <2> QED
    BY <2>1, PassesQuiet
<1>3. CASE Done(t)
  <2>1. NamedFrames'
    BY <1>3, DoneNamed
  <2>2. UNCHANGED diskVars
    BY Zenon, <1>3 DEF Done
  <2> QED
    BY <2>1, <2>2 DEF Unwritten, diskVars
<1>4. CASE Leave(t)
  <2>1. NamedFrames' /\ UNCHANGED diskVars
    BY <1>4, LeavesNamed DEF Leave
  <2> QED
    BY <2>1 DEF Unwritten, diskVars
<1> QED
  BY <1>1, <1>2, <1>3, <1>4

LEMMA RealCallNamed ==
  ASSUME Inv, NamedFrames, NamedStreams, UNCHANGED suite, NEW t \in Threads, RealCall(t)
  PROVE  NamedFrames' /\ NamedStreams' /\ SeenStep
<1>1. CASE \/ _cnh_filehook_invoke_real_fopen(t) \/ _cnh_iohook_invoke_real_open(t)
           \/ _cnh_filehook_invoke_real_fclose(t) \/ _cnh_fshook_invoke_real_rename(t)
           \/ _cnh_fshook_invoke_real_remove(t)
  BY <1>1, FopenNamed, OpenNamed, FcloseNamed, RenameNamed, RemoveNamed
<1>2. CASE ~(\/ _cnh_filehook_invoke_real_fopen(t) \/ _cnh_iohook_invoke_real_open(t)
             \/ _cnh_filehook_invoke_real_fclose(t) \/ _cnh_fshook_invoke_real_rename(t)
             \/ _cnh_fshook_invoke_real_remove(t))
  <2>1. NamedFrames' /\ Unwritten
    BY <1>2, OthersQuiet DEF RealCall
  <2>2. NamedStreams' /\ tree' = tree
    BY <2>1, QuietStreams DEF Unwritten
  <2> QED
    BY <2>1, <2>2, QuietStep
<1> QED
  BY <1>1, <1>2

NamesInv == Inv /\ NamedFrames /\ NamedStreams

LEMMA StartsNamedToo == Init => NamesInv /\ AsNamed!Init
<1> SUFFICES ASSUME Init PROVE NamesInv /\ AsNamed!Init
  OBVIOUS
<1>1. Inv
  BY Starts
<1>2. NamedFrames
  <2>1. \A t \in Threads : Len(frames[t]) = 0
    BY EmptySeq DEF Init
  <2> QED
    BY <2>1 DEF NamedFrames
<1>3. NamedStreams
  BY DEF Init, NamedStreams, NamedFile, Closed
<1>4. AsNamed!Init
  <2>1. tree \in [Disk -> {"absent", "partial", "complete"}]
    BY <1>1 DEF Inv, RestInv
  <2> QED
    BY <2>1, NamesAreOfFiles DEF AsNamed!Init
<1> QED
  BY <1>1, <1>2, <1>3, <1>4 DEF NamesInv

LEMMA StepsNamed == NamesInv /\ [Next]_vars => NamesInv' /\ SeenStep
<1> SUFFICES ASSUME NamesInv, [Next]_vars PROVE NamesInv' /\ SeenStep
  OBVIOUS
<1>1. Inv /\ NamedFrames /\ NamedStreams /\ Inv'
  BY Steps DEF NamesInv
<1>2. CASE UNCHANGED vars
  <2>1. UNCHANGED <<suite, frames, tree, streams>>
    BY <1>2 DEF vars, callVars, diskVars
  <2>2. NamedFrames' /\ NamedStreams' /\ SeenStep
    BY <1>1, <2>1, QuietStep DEF NamedFrames, NamedCall, NamedStreams, NamedFile, game
  <2> QED
    BY <1>1, <2>2 DEF NamesInv
<1>3. CASE Next
  <2>1. PICK t \in Threads : ThreadNext(t)
    BY <1>3 DEF Next
  <2>2. UNCHANGED suite
    BY <1>3 DEF Next
  <2>3. CASE RealCall(t)
    BY <1>1, <2>2, <2>3, RealCallNamed DEF NamesInv
  <2>4. CASE ~RealCall(t)
    <3>1. NamedFrames' /\ Unwritten
      <4>1. CASE GameCalls(t)
        BY <1>1, <2>2, <4>1, GameCallsQuiet
      <4>2. CASE \/ cnh_redir_filehook(t) \/ cnh_redir_iohook(t) \/ cnh_redir_fshook(t)
                 \/ cnh_fileopen_mon(t) \/ cnh_filehook_mon(t) \/ cnh_iohook_mon(t)
                 \/ cnh_fshook_mon(t) \/ Done(t) \/ Leave(t)
        BY <1>1, <2>2, <4>2, ForwardsQuiet
      <4>3. CASE \/ patch_hdd_check_filehook(t) \/ patch_hdd_check_iohook(t)
                 \/ patch_mounts_filehook(t)
        BY <1>1, <2>2, <4>3, HddFileQuiet, HddFdQuiet, MountsQuiet
      <4>4. CASE \/ _patch_ram_wipe_filehook(t) \/ prihook_usb_updates_filehook(t)
        BY <1>1, <2>2, <4>4, HidesQuiet
      <4>5. CASE \/ _hook_nx_unlock_filehook(t) \/ _hook_x2_unlock_filehook(t)
                 \/ _hook_zerounlock_filehook(t)
        <5>1. Unlocks(t) \/ \E name : UnlockReturns(t, name)
          BY Zenon, <4>5 DEF _hook_nx_unlock_filehook, _hook_x2_unlock_filehook,
                             _hook_zerounlock_filehook
        <5> QED
          BY <1>1, <2>2, <5>1, UnlockQuiet
      <4>6. CASE \/ patch_microdog34_iohook(t)
                 \/ nx2hook_profile_gen_filehook(t) \/ nxahook_profile_gen_filehook(t)
        BY <1>1, <2>2, <4>6, DogQuiet, GeneratorsQuiet
      <4> QED
        BY <2>1, <2>4, <4>1, <4>2, <4>3, <4>4, <4>5, <4>6 DEF ThreadNext
    <3>2. NamedStreams' /\ SeenStep
      BY <1>1, <3>1, QuietStreams, QuietStep DEF Unwritten
    <3> QED
      BY <1>1, <3>1, <3>2 DEF NamesInv
  <2> QED
    BY <2>3, <2>4
<1> QED
  BY <1>2, <1>3

\* However the handlers of a game move its files, and whatever they call on
\* their own, the game sees its files change as it asked for by the names it
\* uses, and in no other way.
THEOREM FilesUnderTheirNames == Spec => TreeAsRedirected
<1>1. Init => AsNamed!Init
  BY StartsNamedToo
<1>2. NamesInv /\ [Next]_vars =>
        [AsNamed!Next]_<<[n \in Names |-> tree[cnh_redir_check(n)]], [t \in Threads |-> Asked(t)]>>
  BY StepsNamed DEF SeenStep
<1>3. Init => NamesInv
  BY StartsNamedToo
<1>4. NamesInv /\ [Next]_vars => NamesInv'
  BY StepsNamed
<1> QED
  BY <1>1, <1>2, <1>3, <1>4, PTL DEF Spec, TreeAsRedirected, AsNamed!Spec
=============================================================================
