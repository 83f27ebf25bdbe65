-------------------------- MODULE NetProfileProofs --------------------------
(***************************************************************************)
(* The profile files of NetProfile, for any number of threads, players,    *)
(* references and FILEs, and for every bound.                              *)
(*                                                                         *)
(* NetInv is inductive.  None of the properties is so alone: that a write  *)
(* is saved or reported rests on the buffer of the slot that its FILE      *)
(* leads to, the FILE leads there because no other open file of the game   *)
(* and no other slot has the same FILE, and that holds as long as a FILE   *)
(* that libc hands out again is none of an open file, nor of a slot that   *)
(* is about to be cleared.  It holds until overtaken says otherwise.       *)
(***************************************************************************)
EXTENDS NetProfile, TLAPS

\* The slots that get_virtual_mnt_point looks at.
Zero == {0} \X Types

\* The file a thread has open or is opening, and the FILE it has of it.
File(t) == IF game[t] # NULL THEN game[t].file
           ELSE IF pc[t] # "idle" THEN found[t] ELSE NULL
Live(t) == IF game[t] # NULL THEN game[t].handle
           ELSE IF pc[t] \in {"download", "destroy"} THEN slot[found[t]].handle
           ELSE NULL

\* The thread has a file open whose calls are answered by its slot.
Virtual(t) == game[t] # NULL /\ game[t].ref # NULL /\ game[t].file \in Zero

CallOK(t) ==
  /\ pc[t] = "idle" \/ found[t] \in VirtualFiles
  /\ pc[t] = "download" => op[t] = "fopen"
  /\ pc[t] \in {"lock", "locked"} => op[t] # "fopen"
  /\ pc[t] \in {"destroy", "clear"} => op[t] \in {"fopen", "fclose"}
  /\ pc[t] # "idle" /\ op[t] = "fopen" => game[t] = NULL
  /\ pc[t] # "idle" /\ op[t] # "fopen" => Virtual(t) /\ found[t] = game[t].file
  /\ pc[t] \in {"lock", "locked"} /\ op[t] = "fwrite" => edits[t] < MaxEdits
CallsOK == \A t \in Threads : CallOK(t)

FilesApart == \A t, u \in Threads : File(t) = File(u) /\ File(t) # NULL => t = u

Occupied(f) == slot[f].handle # NULL \/ slot[f].ready

\* A slot of player 0 is occupied by the thread that opens or has open its file,
\* and by no other.
SlotsAreUsed ==
  \A f \in Zero : Occupied(f) =>
    \E t \in Threads : File(t) = f /\ (game[t] = NULL \/ Virtual(t))

\* The slot of an open file holds what its stream has accepted.
SlotServes(t) ==
  /\ Virtual(t) => LET s == slot[game[t].file] IN
       /\ s.handle = game[t].handle /\ s.ref = game[t].ref /\ s.ready
       /\ game[t].made \subseteq s.buffer
       /\ game[t].made # {} => s.is_written
  /\ game[t] # NULL /\ ~Virtual(t) => game[t].made = {}
  /\ pc[t] # "idle" => LET s == slot[found[t]] IN
       s.handle \in FILEs /\ s.ref \in Refs /\ s.ready
SlotsServe == \A t \in Threads : SlotServes(t)

\* An open FILE is not closed, except by the thread that is about to clear its
\* slot, and is that of one open file and of the slot of that file alone.
HandlesApart ==
  /\ \A t \in Threads : Live(t) # NULL => Live(t) \notin closed \/ pc[t] = "clear"
  /\ \A t, u \in Threads : Live(t) = Live(u) /\ Live(t) # NULL => t = u
  /\ \A f \in Zero, t \in Threads :
       Live(t) = slot[f].handle /\ Live(t) # NULL =>
         File(t) = f /\ (game[t] = NULL \/ Virtual(t))
  /\ \A f, g \in Zero : slot[f].handle = slot[g].handle /\ slot[f].handle # NULL => f = g

\* No buffer holds an edit of another file than the one it is uploaded to.
BuffersAreOfTheirFile ==
  \A f \in VirtualFiles : \A e \in slot[f].buffer : e.dest = Remote(f)

\* A close that is to report success has its file's writes on the server.
ClosesAreSaved ==
  \A t \in Threads :
    pc[t] \in {"destroy", "clear"} /\ op[t] = "fclose" /\ res[t] =>
      game[t].made \subseteq reached

NetInv ==
  /\ TypeOK /\ CallsOK /\ FilesApart /\ SlotsAreUsed /\ SlotsServe /\ HandlesApart
  /\ BuffersAreOfTheirFile /\ EditsReachTheirFile
  /\ ClosesAreSaved /\ SavedOrReported
  /\ MutexIsLeftUnlocked /\ status # "crashed" /\ ~overtaken

-----------------------------------------------------------------------------
(* Facts about a state in which NetInv holds                                 *)

LEMMA InitNet == Init => NetInv
<1>2. Init => TypeOK
  <2> SUFFICES ASSUME Init
               PROVE  TypeOK
    OBVIOUS
  <2>1. slot \in [VirtualFiles -> Slots]
    BY DEF Init, EmptySlot, Slots
  <2>2. overtaken = FALSE
    BY DEF Init
  <2>3. edits \in [Threads -> 0 .. MaxEdits] /\ opens \in [Threads -> 0 .. MaxOpens]
    BY BoundsAreNat DEF Init
  <2>4. store \in [StoreFiles -> SUBSET Edits]
    BY DEF Init
  <2> QED
    BY <2>1, <2>2, <2>3, <2>4 DEF Init, TypeOK, PCs, Ops
<1> USE NULLIsNothing, BoundsAreNat
      DEF Init, NetInv, CallsOK, CallOK, FilesApart, SlotsAreUsed, SlotsServe,
          SlotServes, HandlesApart, BuffersAreOfTheirFile, EditsReachTheirFile,
          ClosesAreSaved, SavedOrReported, MutexIsLeftUnlocked, File, Live, Virtual,
          Occupied, EmptySlot, Zero, VirtualFiles, Slots, PCs, Ops
<1>1. Init => Zero \subseteq VirtualFiles
  BY PlayerZeroExists
<1> QED
  BY <1>1, <1>2

\* A FILE of a slot of player 0 leads to a slot that has it.
LEMMA LookupFinds ==
  ASSUME NetInv, NEW h \in FILEs
  PROVE  /\ Lookup(h) # NULL => Lookup(h) \in Zero /\ slot[Lookup(h)].handle = h
         /\ \A f \in Zero : slot[f].handle = h => Lookup(h) = f
         /\ (\A f \in Zero : slot[f].handle # h) => Lookup(h) = NULL
<1>1. Matching(h) = {f \in Zero : slot[f].handle = h}
  BY DEF Matching, Zero
<1>2. h # NULL
  BY NULLIsNothing
<1>3. \A f, g \in Matching(h) : f = g
  BY <1>1, <1>2 DEF NetInv, HandlesApart
<1>4. ASSUME NEW f \in Zero PROVE f[2] <= f[2]
  <2>1. f[2] \in Types
    BY DEF Zero
  <2>2. f[2] \in Nat
    BY <2>1, TypesAreOrdered
  <2> QED
    BY <2>2
<1>5. ASSUME NEW f \in Matching(h)
      PROVE  Lookup(h) = f
  <2>1. Matching(h) = {f}
    BY <1>3
  <2>2. \A g \in Matching(h) : f[2] <= g[2]
    BY <1>1, <1>4, <2>1
  <2> QED
    BY <1>1, <2>1, <2>2 DEF Lookup
<1>6. Matching(h) = {} => Lookup(h) = NULL
  BY DEF Lookup
<1> QED
  BY <1>1, <1>5, <1>6

\* The slot in which a call works is that of its thread's file, and none of another
\* thread's.
LEMMA FoundIsOwn ==
  ASSUME NetInv, NEW t \in Threads, pc[t] # "idle"
  PROVE  /\ found[t] \in VirtualFiles /\ File(t) = found[t] /\ File(t) # NULL
         /\ \A u \in Threads : u # t => File(u) # found[t]
         /\ op[t] # "fopen" => found[t] \in Zero /\ slot[found[t]].handle = game[t].handle
<1>1. CallOK(t) /\ SlotServes(t)
  BY DEF NetInv, CallsOK, SlotsServe
<1>2. found[t] \in VirtualFiles /\ found[t] # NULL
  BY <1>1, NULLIsNothing DEF CallOK, VirtualFiles
<1>3. File(t) = found[t]
  BY <1>1 DEF CallOK, File, Virtual
<1> QED
  BY <1>1, <1>2, <1>3 DEF NetInv, FilesApart, CallOK, SlotServes, Virtual

\* Threads that a step leaves alone keep their file and their FILE, if the slots whose
\* handle it changes are none of theirs.
LEMMA OthersStay ==
  ASSUME NetInv, NEW u \in Threads,
         game'[u] = game[u], pc'[u] = pc[u], found'[u] = found[u],
         File(u) = NULL \/ File(u) \notin VirtualFiles
           \/ slot'[File(u)].handle = slot[File(u)].handle
  PROVE  /\ File(u)' = File(u) /\ Live(u)' = Live(u)
         /\ Virtual(u)' = Virtual(u)
<1>1. File(u)' = File(u) /\ Virtual(u)' = Virtual(u)
  BY DEF File, Virtual
<1>2. CASE game[u] = NULL /\ pc[u] \in {"download", "destroy"}
  <2>1. File(u) = found[u] /\ found[u] \in VirtualFiles /\ found[u] # NULL
    BY <1>2, NULLIsNothing DEF File, NetInv, CallsOK, CallOK, VirtualFiles
  <2> QED
    BY <1>1, <1>2, <2>1 DEF Live
<1>3. CASE ~(game[u] = NULL /\ pc[u] \in {"download", "destroy"})
  BY <1>1, <1>3 DEF Live
<1> QED
  BY <1>2, <1>3

LEMMA ZeroIsVirtual == Zero \subseteq VirtualFiles /\ NULL \notin VirtualFiles
BY PlayerZeroExists, NULLIsNothing DEF Zero, VirtualFiles

\* A FILE that libc hands out is none of an open file, nor, unless it is handed out
\* early, of a slot of player 0.
LEMMA FreshIsFresh ==
  ASSUME NetInv, NEW h \in FILEs, HandOut(h), ~overtaken'
  PROVE  /\ h \in FILEs /\ h # NULL /\ h \in closed
         /\ \A f \in Zero : slot[f].handle # h
         /\ \A u \in Threads : Live(u) # h
<1>1. h \in FILEs /\ h # NULL /\ h \in closed /\ \A f \in Zero : slot[f].handle # h
  BY NULLIsNothing DEF HandOut, NetInv, TypeOK, Zero
<1>2. ASSUME NEW u \in Threads, Live(u) = h
      PROVE  FALSE
  <2>1. pc[u] = "clear"
    BY <1>1, <1>2 DEF NetInv, HandlesApart
  <2>2. game[u] # NULL /\ game[u].handle = h
    BY <1>1, <1>2, <2>1 DEF Live
  <2>3. op[u] # "fopen"
    BY <2>1, <2>2 DEF NetInv, CallsOK, CallOK
  <2> QED
    BY <1>1, <2>1, <2>2, <2>3, FoundIsOwn
<1> QED
  BY <1>1, <1>2

-----------------------------------------------------------------------------
(* The steps                                                                 *)

LEMMA OpenVirtualKeeps ==
  ASSUME NetInv, NEW t \in Threads, NEW f \in VirtualFiles, NEW ref \in Refs,
         OpenVirtual(t, f, ref), ~overtaken'
  PROVE  NetInv'
<1>1. PICK h \in FILEs :
        /\ HandOut(h)
        /\ closed' = closed \ {h}
        /\ slot' = [slot EXCEPT ![f] = [handle |-> h, ref |-> ref, ready |-> TRUE,
                                        buffer |-> {}, is_written |-> FALSE]]
  BY DEF OpenVirtual, HandOut
<1>2. /\ MayOpen(t, f) /\ ~Occupied(f)
      /\ pc[t] = "idle" /\ pc' = [pc EXCEPT ![t] = "download"]
      /\ found' = [found EXCEPT ![t] = f]
      /\ op' = [op EXCEPT ![t] = "fopen"]
      /\ opens' = [opens EXCEPT ![t] = @ + 1]
      /\ UNCHANGED <<mutex, store, reached, status, res, game, reported, edits>>
  BY DEF OpenVirtual, Goto, Occupied, serverVars
<1>3. h \in FILEs /\ h # NULL /\ h \in closed
      /\ (\A g \in Zero : slot[g].handle # h) /\ (\A u \in Threads : Live(u) # h)
  BY <1>1, FreshIsFresh
<1>4. game[t] = NULL /\ game'[t] = NULL /\ opens[t] < MaxOpens
  BY <1>2 DEF MayOpen
<1>5. /\ slot'[f].handle = h /\ slot'[f].ref = ref /\ slot'[f].ready
      /\ slot'[f].buffer = {} /\ ~slot'[f].is_written
      /\ \A g \in VirtualFiles \ {f} : slot'[g] = slot[g]
  BY <1>1 DEF NetInv, TypeOK
<1>6. /\ pc'[t] = "download" /\ found'[t] = f /\ op'[t] = "fopen"
      /\ \A u \in Threads \ {t} :
           pc'[u] = pc[u] /\ found'[u] = found[u] /\ op'[u] = op[u]
  BY <1>2 DEF NetInv, TypeOK
<1>7. \A u \in Threads \ {t} : File(u) # f
  BY <1>2, ZeroIsVirtual DEF MayOpen, File, NetInv, CallsOK, CallOK, Virtual
<1>8. \A u \in Threads \ {t} :
        File(u)' = File(u) /\ Live(u)' = Live(u) /\ Virtual(u)' = Virtual(u)
  BY <1>2, <1>5, <1>6, <1>7, OthersStay
<1>9. File(t)' = f /\ Live(t)' = h /\ ~Virtual(t)' /\ File(t) = NULL
  BY <1>2, <1>4, <1>5, <1>6 DEF File, Live, Virtual
<1>10. TypeOK'
  <2>1. slot' \in [VirtualFiles -> Slots]
    BY <1>1, <1>3 DEF NetInv, TypeOK, Slots
  <2>2. opens' \in [Threads -> 0 .. MaxOpens]
    BY <1>2, <1>4, BoundsAreNat DEF NetInv, TypeOK
  <2>3. overtaken' = FALSE
    BY <1>1 DEF HandOut
  <2> QED
    BY <1>1, <1>2, <2>1, <2>2, <2>3 DEF NetInv, TypeOK, PCs, Ops
<1>11. CallsOK'
  BY <1>2, <1>4, <1>6, <1>8 DEF NetInv, CallsOK, CallOK
<1>12. FilesApart'
  BY <1>7, <1>8, <1>9 DEF NetInv, FilesApart
<1>13. SlotsAreUsed'
  <2> SUFFICES ASSUME NEW g \in Zero, Occupied(g)'
               PROVE  \E u \in Threads : File(u)' = g /\ (game'[u] = NULL \/ Virtual(u)')
    BY DEF SlotsAreUsed
  <2>1. CASE g = f
    BY <1>4, <1>9, <2>1
  <2>2. CASE g # f
    <3>1. Occupied(g)
      BY <1>5, <2>2, ZeroIsVirtual DEF Occupied
    <3>2. PICK u \in Threads : File(u) = g /\ (game[u] = NULL \/ Virtual(u))
      BY <3>1 DEF NetInv, SlotsAreUsed
    <3>3. u # t
      BY <1>9, <3>2, ZeroIsVirtual
    <3> QED
      BY <1>2, <1>8, <3>2, <3>3
  <2> QED
    BY <2>1, <2>2
<1>14. SlotsServe'
  <2> SUFFICES ASSUME NEW u \in Threads
               PROVE  SlotServes(u)'
    BY DEF SlotsServe
  <2>1. CASE u = t
    BY <1>3, <1>4, <1>5, <1>6, <1>9, <2>1 DEF SlotServes
  <2>2. CASE u # t
    <3>1. SlotServes(u)
      BY DEF NetInv, SlotsServe
    <3>2. pc[u] # "idle" => found[u] \in VirtualFiles \ {f}
      BY <1>7, <2>2, FoundIsOwn
    <3>3. Virtual(u) => game[u].file \in VirtualFiles \ {f}
      BY <1>7, <2>2, ZeroIsVirtual DEF Virtual, File
    <3> QED
      BY <1>2, <1>5, <1>6, <1>8, <2>2, <3>1, <3>2, <3>3 DEF SlotServes
  <2> QED
    BY <2>1, <2>2
<1>15. HandlesApart'
  <2>1. \A u \in Threads : Live(u)' # NULL => Live(u)' \notin closed' \/ pc'[u] = "clear"
    BY <1>1, <1>6, <1>8, <1>9 DEF NetInv, HandlesApart
  <2>2. \A u, v \in Threads : Live(u)' = Live(v)' /\ Live(u)' # NULL => u = v
    BY <1>3, <1>8, <1>9 DEF NetInv, HandlesApart
  <2>3. \A g \in Zero, u \in Threads :
          Live(u)' = slot'[g].handle /\ Live(u)' # NULL =>
            File(u)' = g /\ (game'[u] = NULL \/ Virtual(u)')
    BY <1>2, <1>3, <1>4, <1>5, <1>8, <1>9, ZeroIsVirtual DEF NetInv, HandlesApart
  <2>4. \A g, k \in Zero : slot'[g].handle = slot'[k].handle /\ slot'[g].handle # NULL => g = k
    BY <1>3, <1>5, ZeroIsVirtual DEF NetInv, HandlesApart
  <2> QED
    BY <2>1, <2>2, <2>3, <2>4 DEF HandlesApart
<1>16. BuffersAreOfTheirFile'
  BY <1>5 DEF NetInv, BuffersAreOfTheirFile, Remote
<1>17. EditsReachTheirFile' /\ SavedOrReported'
  BY <1>2 DEF NetInv, EditsReachTheirFile, SavedOrReported
<1>18. ClosesAreSaved'
  BY <1>2, <1>6 DEF NetInv, ClosesAreSaved
<1>19. MutexIsLeftUnlocked'
  BY <1>2, <1>6 DEF NetInv, MutexIsLeftUnlocked
<1> QED
  BY <1>1, <1>2, <1>10, <1>11, <1>12, <1>13, <1>14, <1>15, <1>16, <1>17, <1>18, <1>19 DEF NetInv

LEMMA OpenLocalKeeps ==
  ASSUME NetInv, NEW t \in Threads, NEW f \in VirtualFiles, OpenLocal(t, f), ~overtaken'
  PROVE  NetInv'
<1> DEFINE new(h) == [file |-> f, handle |-> h, ref |-> NULL, made |-> {}]
<1>1. PICK h \in FILEs : HandOut(h) /\ closed' = closed \ {h} /\ game' = [game EXCEPT ![t] = new(h)]
  BY DEF OpenLocal, HandOut
<1>2. /\ MayOpen(t, f) /\ pc[t] = "idle" /\ pc' = [pc EXCEPT ![t] = "idle"]
      /\ opens' = [opens EXCEPT ![t] = @ + 1]
      /\ UNCHANGED <<slot, mutex, store, reached, status, found, op, res, reported, edits>>
  BY DEF OpenLocal, Goto, serverVars, callVars
<1>3. h \in FILEs /\ h # NULL /\ h \in closed
      /\ (\A g \in Zero : slot[g].handle # h) /\ (\A u \in Threads : Live(u) # h)
  BY <1>1, FreshIsFresh
<1>4. game[t] = NULL /\ opens[t] < MaxOpens
  BY <1>2 DEF MayOpen
<1>5. new(h) \in Opened /\ new(h) # NULL
  BY <1>3, NULLIsNotOpened DEF Opened
<1>6. pc' = pc /\ game'[t] = new(h) /\ \A u \in Threads \ {t} : game'[u] = game[u]
  BY <1>1, <1>2 DEF NetInv, TypeOK
<1>7. \A u \in Threads \ {t} : File(u) # f
  BY <1>2, ZeroIsVirtual DEF MayOpen, File, NetInv, CallsOK, CallOK, Virtual
<1>8. \A u \in Threads \ {t} :
        File(u)' = File(u) /\ Live(u)' = Live(u) /\ Virtual(u)' = Virtual(u)
  BY <1>2, <1>6, OthersStay
<1>9. File(t)' = f /\ Live(t)' = h /\ ~Virtual(t)' /\ File(t) = NULL
  BY <1>2, <1>4, <1>5, <1>6 DEF File, Live, Virtual
<1>10. TypeOK'
  <2>1. opens' \in [Threads -> 0 .. MaxOpens]
    BY <1>2, <1>4, BoundsAreNat DEF NetInv, TypeOK
  <2>2. overtaken' = FALSE
    BY <1>1 DEF HandOut
  <2> QED
    BY <1>1, <1>2, <1>5, <1>6, <2>1, <2>2 DEF NetInv, TypeOK
<1>11. CallsOK'
  BY <1>2, <1>6, <1>8 DEF NetInv, CallsOK, CallOK
<1>12. FilesApart'
  BY <1>7, <1>8, <1>9 DEF NetInv, FilesApart
<1>13. SlotsAreUsed'
  BY <1>2, <1>6, <1>8, <1>9, ZeroIsVirtual DEF NetInv, SlotsAreUsed, Occupied
<1>14. SlotsServe'
  BY <1>2, <1>5, <1>6, <1>8, <1>9 DEF NetInv, SlotsServe, SlotServes
<1>15. HandlesApart'
  BY <1>1, <1>2, <1>3, <1>6, <1>8, <1>9 DEF NetInv, HandlesApart
<1>16. BuffersAreOfTheirFile' /\ EditsReachTheirFile' /\ SavedOrReported'
  BY <1>2
     DEF NetInv, BuffersAreOfTheirFile, Remote, EditsReachTheirFile, SavedOrReported
<1>17. ClosesAreSaved' /\ MutexIsLeftUnlocked'
  BY <1>2, <1>6 DEF NetInv, ClosesAreSaved, MutexIsLeftUnlocked
<1> QED
  BY <1>1, <1>2, <1>10, <1>11, <1>12, <1>13, <1>14, <1>15, <1>16, <1>17 DEF NetInv

LEMMA DownloadedKeeps ==
  ASSUME NetInv, NEW t \in Threads, Downloaded(t)
  PROVE  NetInv'
<1> DEFINE f == found[t]
           new == [file |-> f, handle |-> slot[f].handle, ref |-> slot[f].ref, made |-> {}]
<1>1. /\ pc[t] = "download" /\ pc' = [pc EXCEPT ![t] = "idle"]
      /\ slot' = [slot EXCEPT ![f].buffer = store[Remote(f)]]
      /\ game' = [game EXCEPT ![t] = new] /\ mutex' = NULL
      /\ slot[f].ready
      /\ UNCHANGED <<overtaken, closed, store, reached, status, found, op, res, reported,
                     edits, opens>>
  BY DEF Downloaded, Goto, serverVars, callVars
<1>2. /\ op[t] = "fopen" /\ game[t] = NULL /\ f \in VirtualFiles
      /\ slot[f].handle \in FILEs /\ slot[f].ref \in Refs
  BY <1>1 DEF NetInv, CallsOK, CallOK, SlotsServe, SlotServes
<1>3. /\ Remote(f) \in StoreFiles /\ store[Remote(f)] \in SUBSET Edits
      /\ \A e \in store[Remote(f)] : e.dest = Remote(f)
  BY <1>2 DEF Remote, StoreFiles, VirtualFiles, NetInv, TypeOK, EditsReachTheirFile
<1>4. new \in Opened /\ new # NULL /\ slot[f].handle # NULL /\ slot[f].ref # NULL
  BY <1>2, NULLIsNotOpened, NULLIsNothing DEF Opened
<1>5. /\ slot'[f].buffer = store[Remote(f)]
      /\ slot' \in [VirtualFiles -> Slots]
      /\ \A g \in VirtualFiles : /\ slot'[g].handle = slot[g].handle
                                 /\ slot'[g].ref = slot[g].ref
                                 /\ slot'[g].ready = slot[g].ready
                                 /\ slot'[g].is_written = slot[g].is_written
                                 /\ g # f => slot'[g] = slot[g]
  BY <1>1, <1>2, <1>3 DEF NetInv, TypeOK, Slots
<1>6. /\ pc'[t] = "idle" /\ game'[t] = new
      /\ \A u \in Threads \ {t} : pc'[u] = pc[u] /\ game'[u] = game[u]
  BY <1>1 DEF NetInv, TypeOK
<1>7. File(t) = f /\ f # NULL /\ \A u \in Threads \ {t} : File(u) # f
  BY <1>1, FoundIsOwn
<1>8. \A u \in Threads \ {t} :
        File(u)' = File(u) /\ Live(u)' = Live(u) /\ Virtual(u)' = Virtual(u)
  BY <1>1, <1>5, <1>6, OthersStay
<1>9. /\ File(t)' = File(t) /\ Live(t)' = Live(t) /\ Live(t) = slot[f].handle
      /\ Virtual(t)' <=> f \in Zero
  BY <1>1, <1>2, <1>4, <1>6, <1>7 DEF File, Live, Virtual
<1>10. TypeOK'
  BY <1>1, <1>4, <1>5, <1>6 DEF NetInv, TypeOK, PCs
<1>11. CallsOK'
  BY <1>1, <1>6, <1>8 DEF NetInv, CallsOK, CallOK
<1>12. FilesApart'
  BY <1>8, <1>9 DEF NetInv, FilesApart
<1>13. SlotsAreUsed'
  BY <1>5, <1>6, <1>7, <1>8, <1>9, ZeroIsVirtual DEF NetInv, SlotsAreUsed, Occupied
<1>14. SlotsServe'
  <2> SUFFICES ASSUME NEW u \in Threads
               PROVE  SlotServes(u)'
    BY DEF SlotsServe
  <2>1. CASE u = t
    BY <1>1, <1>2, <1>4, <1>5, <1>6, <2>1 DEF SlotServes
  <2>2. CASE u # t
    <3>1. SlotServes(u)
      BY DEF NetInv, SlotsServe
    <3>2. pc[u] # "idle" => found[u] \in VirtualFiles
      BY FoundIsOwn
    <3>3. Virtual(u) => game[u].file \in VirtualFiles \ {f}
      BY <1>7, <2>2, ZeroIsVirtual DEF Virtual, File
    <3> QED
      BY <1>1, <1>5, <1>6, <1>8, <2>2, <3>1, <3>2, <3>3 DEF SlotServes
  <2> QED
    BY <2>1, <2>2
<1>15. HandlesApart'
  <2>1. \A u \in Threads : Live(u)' # NULL => Live(u)' \notin closed' \/ pc'[u] = "clear"
    BY <1>1, <1>6, <1>8, <1>9 DEF NetInv, HandlesApart
  <2>2. \A u, v \in Threads : Live(u)' = Live(v)' /\ Live(u)' # NULL => u = v
    BY <1>8, <1>9 DEF NetInv, HandlesApart
  <2>3. \A g \in Zero, u \in Threads :
          Live(u)' = slot'[g].handle /\ Live(u)' # NULL =>
            File(u)' = g /\ (game'[u] = NULL \/ Virtual(u)')
    BY <1>5, <1>6, <1>7, <1>8, <1>9, ZeroIsVirtual DEF NetInv, HandlesApart
  <2>4. \A g, k \in Zero : slot'[g].handle = slot'[k].handle /\ slot'[g].handle # NULL => g = k
    BY <1>5, ZeroIsVirtual DEF NetInv, HandlesApart
  <2> QED
    BY <2>1, <2>2, <2>3, <2>4 DEF HandlesApart
<1>16. BuffersAreOfTheirFile'
  BY <1>3, <1>5 DEF NetInv, BuffersAreOfTheirFile, Remote
<1>17. EditsReachTheirFile' /\ SavedOrReported'
  BY <1>1 DEF NetInv, EditsReachTheirFile, SavedOrReported
<1>18. ClosesAreSaved' /\ MutexIsLeftUnlocked'
  BY <1>1, <1>6, NULLIsNothing DEF NetInv, ClosesAreSaved, MutexIsLeftUnlocked
<1> QED
  BY <1>1, <1>2, <1>10, <1>11, <1>12, <1>13, <1>14, <1>15, <1>16, <1>17, <1>18 DEF NetInv

LEMMA CallKeeps ==
  ASSUME NetInv, NEW t \in Threads, NEW o \in {"fread", "fwrite", "fclose"}, Call(t, o),
         o = "fwrite" => edits[t] < MaxEdits
  PROVE  NetInv'
<1> DEFINE f == Lookup(game[t].handle)
<1>1. /\ pc[t] = "idle" /\ pc' = [pc EXCEPT ![t] = "lock"] /\ game[t] # NULL /\ f # NULL
      /\ found' = [found EXCEPT ![t] = f]
      /\ op' = [op EXCEPT ![t] = o] /\ res' = [res EXCEPT ![t] = TRUE]
      /\ UNCHANGED <<overtaken, slot, closed, mutex, store, reached, status, game, reported,
                     edits, opens>>
  BY DEF Call, Goto, serverVars
<1>2. game[t].handle \in FILEs /\ game[t].handle # NULL /\ game[t] \in Opened
  BY <1>1, NULLIsNothing DEF NetInv, TypeOK, Opened
<1>3. f \in Zero /\ slot[f].handle = game[t].handle
  BY <1>1, <1>2, LookupFinds
<1>4. game[t].file = f /\ Virtual(t)
  BY <1>1, <1>2, <1>3 DEF NetInv, HandlesApart, Live, File
<1>5. /\ pc'[t] = "lock" /\ op'[t] = o /\ found'[t] = f
      /\ \A u \in Threads \ {t} :
           pc'[u] = pc[u] /\ op'[u] = op[u] /\ found'[u] = found[u] /\ res'[u] = res[u]
  BY <1>1 DEF NetInv, TypeOK
<1>6. \A u \in Threads :
        File(u)' = File(u) /\ Live(u)' = Live(u) /\ Virtual(u)' = Virtual(u)
  BY <1>1, <1>5 DEF File, Live, Virtual
<1>7. TypeOK'
  BY <1>1, <1>3, ZeroIsVirtual DEF NetInv, TypeOK, PCs, Ops
<1>8. CallsOK'
  BY <1>1, <1>3, <1>4, <1>5, <1>6, ZeroIsVirtual DEF NetInv, CallsOK, CallOK
<1>9. FilesApart' /\ SlotsAreUsed'
  BY <1>1, <1>6 DEF NetInv, FilesApart, SlotsAreUsed, Occupied
<1>10. SlotsServe'
  <2>1. slot[f].handle \in FILEs /\ slot[f].ref \in Refs /\ slot[f].ready
    BY <1>2, <1>3, <1>4 DEF NetInv, SlotsServe, SlotServes, Virtual, Opened
  <2> QED
    BY <1>1, <1>5, <1>6, <2>1 DEF NetInv, SlotsServe, SlotServes
<1>11. HandlesApart'
  BY <1>1, <1>5, <1>6 DEF NetInv, HandlesApart
<1>12. BuffersAreOfTheirFile' /\ EditsReachTheirFile' /\ SavedOrReported'
  BY <1>1 DEF NetInv, BuffersAreOfTheirFile, Remote, EditsReachTheirFile, SavedOrReported
<1>13. ClosesAreSaved' /\ MutexIsLeftUnlocked'
  BY <1>1, <1>5 DEF NetInv, ClosesAreSaved, MutexIsLeftUnlocked
<1> QED
  BY <1>1, <1>2, <1>7, <1>8, <1>9, <1>10, <1>11, <1>12, <1>13 DEF NetInv

\* A FILE that leads to no slot is that of a file on the stick, or of the second
\* player, neither of which has accepted a write.
LEMMA CloseLocalKeeps ==
  ASSUME NetInv, NEW t \in Threads, CloseLocal(t)
  PROVE  NetInv'
<1>1. /\ pc[t] = "idle" /\ pc' = [pc EXCEPT ![t] = "idle"] /\ game[t] # NULL
      /\ Lookup(game[t].handle) = NULL
      /\ closed' = closed \cup {game[t].handle}
      /\ reported' = reported \cup game[t].made
      /\ game' = [game EXCEPT ![t] = NULL]
      /\ UNCHANGED <<overtaken, slot, mutex, store, reached, status, found, op, res, edits, opens>>
  BY DEF CloseLocal, Goto, serverVars, callVars
<1>2. game[t].handle \in FILEs /\ game[t].handle # NULL
      /\ Live(t) = game[t].handle /\ game[t].made \subseteq Edits
  BY <1>1, NULLIsNothing DEF NetInv, TypeOK, Opened, Live
<1>3. ~Virtual(t) /\ game[t].made = {}
  <2>1. Virtual(t) => FALSE
    BY <1>1, <1>2, LookupFinds, ZeroIsVirtual DEF NetInv, SlotsServe, SlotServes, Virtual
  <2> QED
    BY <1>1, <2>1 DEF NetInv, SlotsServe, SlotServes
<1>4. pc' = pc /\ game'[t] = NULL /\ \A u \in Threads \ {t} : game'[u] = game[u]
  BY <1>1 DEF NetInv, TypeOK
<1>5. \A u \in Threads \ {t} :
        File(u)' = File(u) /\ Live(u)' = Live(u) /\ Virtual(u)' = Virtual(u)
  BY <1>1, <1>4, OthersStay
<1>6. File(t)' = NULL /\ Live(t)' = NULL /\ ~Virtual(t)' /\ File(t) = game[t].file
  BY <1>1, <1>4 DEF File, Live, Virtual
<1>7. TypeOK'
  BY <1>1, <1>2, <1>3, <1>4 DEF NetInv, TypeOK
<1>8. CallsOK'
  BY <1>1, <1>4, <1>5 DEF NetInv, CallsOK, CallOK
<1>9. FilesApart'
  BY <1>5, <1>6 DEF NetInv, FilesApart
<1>10. SlotsAreUsed'
  <2> SUFFICES ASSUME NEW g \in Zero, Occupied(g)
               PROVE  \E u \in Threads : File(u)' = g /\ (game'[u] = NULL \/ Virtual(u)')
    BY <1>1 DEF SlotsAreUsed, Occupied
  <2>1. PICK u \in Threads : File(u) = g /\ (game[u] = NULL \/ Virtual(u))
    BY DEF NetInv, SlotsAreUsed
  <2>2. u # t
    BY <1>1, <1>3, <2>1
  <2> QED
    BY <1>4, <1>5, <2>1, <2>2
<1>11. SlotsServe'
  BY <1>1, <1>4, <1>5, <1>6 DEF NetInv, SlotsServe, SlotServes
<1>12. HandlesApart'
  BY <1>1, <1>2, <1>4, <1>5, <1>6 DEF NetInv, HandlesApart
<1>13. BuffersAreOfTheirFile' /\ EditsReachTheirFile' /\ SavedOrReported'
  BY <1>1, <1>3
     DEF NetInv, BuffersAreOfTheirFile, Remote, EditsReachTheirFile, SavedOrReported
<1>14. ClosesAreSaved' /\ MutexIsLeftUnlocked'
  BY <1>1, <1>4 DEF NetInv, ClosesAreSaved, MutexIsLeftUnlocked
<1> QED
  BY <1>1, <1>2, <1>7, <1>8, <1>9, <1>10, <1>11, <1>12, <1>13, <1>14 DEF NetInv

\* Steps that move a thread on and touch no more than the mutex.
LEMMA QuietKeeps ==
  ASSUME NetInv, NEW t \in Threads,
         Lock(t) \/ Read(t) \/ CloseUnwritten(t) \/ DownloadFails(t)
  PROVE  NetInv'
<1>1. UNCHANGED <<overtaken, slot, closed, store, reached, status, found, op, res, game, reported,
                  edits, opens>>
  BY DEF Lock, Read, CloseUnwritten, DownloadFails, serverVars, callVars
<1>2. \/ pc[t] = "lock" /\ pc' = [pc EXCEPT ![t] = "locked"] /\ mutex' = t
      \/ pc[t] = "locked" /\ pc' = [pc EXCEPT ![t] = "idle"] /\ mutex' = NULL
      \/ /\ pc[t] = "locked" /\ pc' = [pc EXCEPT ![t] = "destroy"] /\ mutex' = mutex
         /\ op[t] = "fclose" /\ ~slot[found[t]].is_written
      \/ pc[t] = "download" /\ pc' = [pc EXCEPT ![t] = "destroy"] /\ mutex' = mutex
  BY DEF Lock, Read, CloseUnwritten, DownloadFails, Goto
<1>3. \A u \in Threads \ {t} : pc'[u] = pc[u]
  BY <1>2 DEF NetInv, TypeOK
<1>4. /\ pc[t] = "lock" => pc'[t] = "locked"
      /\ pc[t] = "locked" => pc'[t] = "idle" \/ (pc'[t] = "destroy" /\ op[t] = "fclose")
      /\ pc[t] = "download" => pc'[t] = "destroy"
      /\ pc[t] \in {"lock", "locked", "download"}
  BY <1>2 DEF NetInv, TypeOK
<1>5. CallOK(t) /\ SlotServes(t)
  BY DEF NetInv, CallsOK, SlotsServe
<1>6. \A u \in Threads :
        File(u)' = File(u) /\ Live(u)' = Live(u) /\ Virtual(u)' = Virtual(u)
  BY <1>1, <1>3, <1>4, <1>5 DEF File, Live, Virtual, CallOK
<1>7. TypeOK'
  BY <1>1, <1>2 DEF NetInv, TypeOK, PCs
<1>8. CallsOK'
  BY <1>1, <1>3, <1>4, <1>5, <1>6 DEF NetInv, CallsOK, CallOK
<1>9. FilesApart' /\ SlotsAreUsed'
  BY <1>1, <1>6 DEF NetInv, FilesApart, SlotsAreUsed, Occupied
<1>10. SlotsServe'
  BY <1>1, <1>3, <1>4, <1>6 DEF NetInv, SlotsServe, SlotServes
<1>11. HandlesApart'
  BY <1>1, <1>3, <1>4, <1>6 DEF NetInv, HandlesApart
<1>12. BuffersAreOfTheirFile' /\ EditsReachTheirFile' /\ SavedOrReported'
  BY <1>1 DEF NetInv, BuffersAreOfTheirFile, Remote, EditsReachTheirFile, SavedOrReported
<1>13. ClosesAreSaved'
  <2>1. ASSUME pc'[t] \in {"destroy", "clear"}, op[t] = "fclose"
        PROVE  game[t].made = {}
    <3>1. pc[t] = "locked" /\ ~slot[found[t]].is_written
      BY <1>2, <1>5, <2>1 DEF CallOK, NetInv, TypeOK
    <3> QED
      BY <1>5, <2>1, <3>1 DEF CallOK, SlotServes
  <2> QED
    BY <1>1, <1>3, <2>1 DEF NetInv, ClosesAreSaved
<1>14. MutexIsLeftUnlocked'
  BY <1>2, <1>3, <1>4, NULLIsNothing DEF NetInv, MutexIsLeftUnlocked, TypeOK
<1> QED
  BY <1>1, <1>2, <1>7, <1>8, <1>9, <1>10, <1>11, <1>12, <1>13, <1>14 DEF NetInv

LEMMA WriteKeeps ==
  ASSUME NetInv, NEW t \in Threads, Write(t)
  PROVE  NetInv'
<1> DEFINE f == found[t]
           e == [by |-> t, nr |-> edits[t] + 1, dest |-> <<game[t].ref, game[t].file[2]>>]
<1>1. /\ pc[t] = "locked" /\ pc' = [pc EXCEPT ![t] = "idle"] /\ op[t] = "fwrite"
      /\ edits' = [edits EXCEPT ![t] = @ + 1]
      /\ slot' = [slot EXCEPT ![f] = Modified(@, e)]
      /\ game' = [game EXCEPT ![t].made = @ \cup {e}]
      /\ mutex' = NULL /\ slot[f].ready
      /\ UNCHANGED <<overtaken, closed, store, reached, status, found, op, res, reported, opens>>
  BY DEF Write, Goto, serverVars, callVars
<1>2. /\ game[t] # NULL /\ game[t].ref # NULL /\ f = game[t].file /\ f \in Zero
      /\ edits[t] < MaxEdits /\ game[t] \in Opened
  BY <1>1 DEF NetInv, CallsOK, CallOK, Virtual, TypeOK
<1>3. /\ slot[f].handle = game[t].handle /\ slot[f].ref = game[t].ref
      /\ game[t].made \subseteq slot[f].buffer
  BY <1>2 DEF NetInv, SlotsServe, SlotServes, Virtual
<1>4. e \in Edits
  BY <1>2, BoundsAreNat DEF Edits, Opened, VirtualFiles, NetInv, TypeOK
<1>5. e.dest = Remote(f)
  BY <1>2, <1>3 DEF Remote
<1>6. /\ f \in VirtualFiles /\ slot' \in [VirtualFiles -> Slots]
      /\ slot'[f].buffer = slot[f].buffer \cup {e} /\ slot'[f].is_written
      /\ \A g \in VirtualFiles : /\ slot'[g].handle = slot[g].handle
                                 /\ slot'[g].ref = slot[g].ref
                                 /\ slot'[g].ready = slot[g].ready
                                 /\ g # f => slot'[g] = slot[g]
  <2>1. slot[f] \in Slots /\ f \in VirtualFiles
    BY <1>2, ZeroIsVirtual DEF NetInv, TypeOK
  <2>2. /\ Modified(slot[f], e) \in Slots
        /\ Modified(slot[f], e).buffer = slot[f].buffer \cup {e}
        /\ Modified(slot[f], e).is_written
        /\ Modified(slot[f], e).handle = slot[f].handle
        /\ Modified(slot[f], e).ref = slot[f].ref
        /\ Modified(slot[f], e).ready = slot[f].ready
    BY <1>4, <2>1 DEF Slots, Modified
  <2>3. slot' = [slot EXCEPT ![f] = Modified(slot[f], e)]
    BY <1>1
  <2> QED
    BY <2>1, <2>2, <2>3 DEF NetInv, TypeOK
<1>7. /\ game' \in [Threads -> Opened \cup {NULL}]
      /\ game'[t] # NULL /\ game'[t].made = game[t].made \cup {e}
      /\ game'[t].file = game[t].file /\ game'[t].handle = game[t].handle
      /\ game'[t].ref = game[t].ref
      /\ \A u \in Threads \ {t} : game'[u] = game[u]
  <2>1. game' = [game EXCEPT ![t] = [game[t] EXCEPT !.made = @ \cup {e}]]
    BY <1>1
  <2>2. [game[t] EXCEPT !.made = @ \cup {e}] \in Opened
    BY <1>2, <1>4 DEF Opened
  <2> QED
    BY <1>2, <2>1, <2>2, NULLIsNotOpened DEF NetInv, TypeOK, Opened
<1>8. pc'[t] = "idle" /\ \A u \in Threads \ {t} : pc'[u] = pc[u]
  BY <1>1 DEF NetInv, TypeOK
<1>9. \A u \in Threads \ {t} :
        File(u)' = File(u) /\ Live(u)' = Live(u) /\ Virtual(u)' = Virtual(u)
  BY <1>1, <1>6, <1>7, <1>8, OthersStay
<1>10. /\ File(t)' = File(t) /\ Live(t)' = Live(t) /\ Virtual(t)' /\ Virtual(t)
       /\ File(t) = f
  BY <1>2, <1>7 DEF File, Live, Virtual
<1>11. \A u \in Threads \ {t} : File(u) # f
  BY <1>1, FoundIsOwn
<1>12. TypeOK'
  <2>1. edits' \in [Threads -> 0 .. MaxEdits]
    BY <1>1, <1>2, BoundsAreNat DEF NetInv, TypeOK
  <2> QED
    BY <1>1, <1>6, <1>7, <2>1 DEF NetInv, TypeOK, PCs
<1>13. CallsOK'
  BY <1>1, <1>7, <1>8, <1>9 DEF NetInv, CallsOK, CallOK, TypeOK
<1>14. FilesApart'
  BY <1>9, <1>10 DEF NetInv, FilesApart
<1>15. SlotsAreUsed'
  BY <1>6, <1>7, <1>9, <1>10, ZeroIsVirtual DEF NetInv, SlotsAreUsed, Occupied
<1>16. SlotsServe'
  <2> SUFFICES ASSUME NEW u \in Threads
               PROVE  SlotServes(u)'
    BY DEF SlotsServe
  <2>1. CASE u = t
    BY <1>1, <1>2, <1>3, <1>6, <1>7, <1>8, <1>10, <2>1 DEF SlotServes
  <2>2. CASE u # t
    <3>1. SlotServes(u)
      BY DEF NetInv, SlotsServe
    <3>2. pc[u] # "idle" => found[u] \in VirtualFiles
      BY FoundIsOwn
    <3>3. Virtual(u) => game[u].file \in VirtualFiles \ {f}
      BY <1>11, <2>2, ZeroIsVirtual DEF Virtual, File
    <3> QED
      BY <1>1, <1>6, <1>7, <1>8, <1>9, <2>2, <3>1, <3>2, <3>3 DEF SlotServes
  <2> QED
    BY <2>1, <2>2
<1>17. HandlesApart'
  <2>1. \A u \in Threads : Live(u)' # NULL => Live(u)' \notin closed' \/ pc'[u] = "clear"
    BY <1>1, <1>8, <1>9, <1>10 DEF NetInv, HandlesApart
  <2>2. \A u, v \in Threads : Live(u)' = Live(v)' /\ Live(u)' # NULL => u = v
    BY <1>9, <1>10 DEF NetInv, HandlesApart
  <2>3. \A g \in Zero, u \in Threads :
          Live(u)' = slot'[g].handle /\ Live(u)' # NULL =>
            File(u)' = g /\ (game'[u] = NULL \/ Virtual(u)')
    BY <1>6, <1>7, <1>9, <1>10, ZeroIsVirtual DEF NetInv, HandlesApart
  <2>4. \A g, k \in Zero : slot'[g].handle = slot'[k].handle /\ slot'[g].handle # NULL => g = k
    BY <1>6, ZeroIsVirtual DEF NetInv, HandlesApart
  <2> QED
    BY <2>1, <2>2, <2>3, <2>4 DEF HandlesApart
<1>18. BuffersAreOfTheirFile'
  BY <1>5, <1>6 DEF NetInv, BuffersAreOfTheirFile, Remote
<1>19. EditsReachTheirFile' /\ SavedOrReported'
  BY <1>1 DEF NetInv, EditsReachTheirFile, SavedOrReported
<1>20. ClosesAreSaved' /\ MutexIsLeftUnlocked'
  BY <1>1, <1>7, <1>8, NULLIsNothing DEF NetInv, ClosesAreSaved, MutexIsLeftUnlocked
<1> QED
  BY <1>1, <1>2, <1>12, <1>13, <1>14, <1>15, <1>16, <1>17, <1>18, <1>19, <1>20 DEF NetInv

\* The upload of a buffer takes all writes that the stream has accepted.
LEMMA UploadKeeps ==
  ASSUME NetInv, NEW t \in Threads, NEW success \in BOOLEAN, Upload(t, success)
  PROVE  NetInv'
<1> DEFINE f == found[t]
<1>1. /\ pc[t] = "locked" /\ pc' = [pc EXCEPT ![t] = "destroy"] /\ op[t] = "fclose"
      /\ \/ /\ store' = [store EXCEPT ![Remote(f)] = slot[f].buffer]
            /\ reached' = reached \cup slot[f].buffer
         \/ ~success /\ UNCHANGED <<store, reached>>
      /\ res' = [res EXCEPT ![t] = success]
      /\ UNCHANGED <<overtaken, slot, closed, mutex, status, found, op, game, reported,
                     edits, opens>>
  BY DEF Upload, Goto, serverVars
<1>2. /\ Virtual(t) /\ f = game[t].file /\ f \in VirtualFiles /\ f \in Zero
  BY <1>1 DEF NetInv, CallsOK, CallOK, Virtual
<1>3. slot[f].ref \in Refs /\ game[t].made \subseteq slot[f].buffer
  BY <1>1, <1>2 DEF NetInv, SlotsServe, SlotServes
<1>4. /\ Remote(f) \in StoreFiles /\ slot[f].buffer \in SUBSET Edits
      /\ \A e \in slot[f].buffer : e.dest = Remote(f)
  BY <1>2, <1>3 DEF Remote, StoreFiles, VirtualFiles, NetInv, TypeOK, Slots,
                    BuffersAreOfTheirFile
<1>5. pc'[t] = "destroy" /\ \A u \in Threads \ {t} : pc'[u] = pc[u] /\ res'[u] = res[u]
  BY <1>1 DEF NetInv, TypeOK
<1>6. \A u \in Threads :
        File(u)' = File(u) /\ Live(u)' = Live(u) /\ Virtual(u)' = Virtual(u)
  BY <1>1, <1>2, <1>5 DEF File, Live, Virtual
<1>7. reached \subseteq reached'
  BY <1>1
<1>8. TypeOK'
  BY <1>1, <1>4 DEF NetInv, TypeOK, PCs
<1>9. CallsOK'
  BY <1>1, <1>5, <1>6 DEF NetInv, CallsOK, CallOK
<1>10. FilesApart' /\ SlotsAreUsed'
  BY <1>1, <1>6 DEF NetInv, FilesApart, SlotsAreUsed, Occupied
<1>11. SlotsServe'
  BY <1>1, <1>5, <1>6 DEF NetInv, SlotsServe, SlotServes
<1>12. HandlesApart'
  BY <1>1, <1>5, <1>6 DEF NetInv, HandlesApart
<1>13. BuffersAreOfTheirFile' /\ SavedOrReported'
  BY <1>1, <1>7 DEF NetInv, BuffersAreOfTheirFile, Remote, SavedOrReported
<1>14. EditsReachTheirFile'
  BY <1>1, <1>4 DEF NetInv, TypeOK, EditsReachTheirFile
<1>15. ClosesAreSaved'
  <2>1. res'[t] => game[t].made \subseteq reached'
    BY <1>1, <1>3 DEF NetInv, TypeOK
  <2> QED
    BY <1>1, <1>5, <1>7, <2>1 DEF NetInv, ClosesAreSaved
<1>16. MutexIsLeftUnlocked'
  BY <1>1, <1>5 DEF NetInv, MutexIsLeftUnlocked
<1> QED
  BY <1>1, <1>2, <1>8, <1>9, <1>10, <1>11, <1>12, <1>13, <1>14, <1>15, <1>16 DEF NetInv

LEMMA CloseDummyKeeps ==
  ASSUME NetInv, NEW t \in Threads, CloseDummy(t)
  PROVE  NetInv'
<1> DEFINE f == found[t]
<1>1. /\ pc[t] = "destroy" /\ pc' = [pc EXCEPT ![t] = "clear"]
      /\ closed' = closed \cup {slot[f].handle}
      /\ UNCHANGED <<overtaken, slot, mutex, store, reached, status, found, op, res, game, reported,
                     edits, opens>>
  BY DEF CloseDummy, Goto, serverVars, callVars
<1>2. CallOK(t) /\ SlotServes(t)
  BY DEF NetInv, CallsOK, SlotsServe
<1>3. /\ slot[f].handle \in FILEs /\ slot[f].handle # NULL
      /\ Live(t) = slot[f].handle
  BY <1>1, <1>2, FoundIsOwn, NULLIsNothing DEF SlotServes, CallOK, Live
<1>4. pc'[t] = "clear" /\ \A u \in Threads \ {t} : pc'[u] = pc[u]
  BY <1>1 DEF NetInv, TypeOK
<1>5. \A u \in Threads : /\ File(u)' = File(u) /\ Virtual(u)' = Virtual(u)
                         /\ Live(u)' = Live(u) \/ Live(u)' = NULL
  BY <1>1, <1>4 DEF File, Live, Virtual
<1>6. TypeOK'
  BY <1>1, <1>3 DEF NetInv, TypeOK, PCs
<1>7. CallsOK'
  BY <1>1, <1>2, <1>4, <1>5 DEF NetInv, CallsOK, CallOK
<1>8. FilesApart' /\ SlotsAreUsed'
  BY <1>1, <1>5 DEF NetInv, FilesApart, SlotsAreUsed, Occupied
<1>9. SlotsServe'
  BY <1>1, <1>4, <1>5 DEF NetInv, SlotsServe, SlotServes
<1>10. HandlesApart'
  BY <1>1, <1>3, <1>4, <1>5 DEF NetInv, HandlesApart
<1>11. BuffersAreOfTheirFile' /\ EditsReachTheirFile' /\ SavedOrReported'
  BY <1>1 DEF NetInv, BuffersAreOfTheirFile, Remote, EditsReachTheirFile, SavedOrReported
<1>12. ClosesAreSaved' /\ MutexIsLeftUnlocked'
  BY <1>1, <1>4 DEF NetInv, ClosesAreSaved, MutexIsLeftUnlocked
<1> QED
  BY <1>1, <1>2, <1>6, <1>7, <1>8, <1>9, <1>10, <1>11, <1>12 DEF NetInv

LEMMA ClearKeeps ==
  ASSUME NetInv, NEW t \in Threads, Clear(t)
  PROVE  NetInv'
<1> DEFINE f == found[t]
<1>1. /\ pc[t] = "clear" /\ pc' = [pc EXCEPT ![t] = "idle"]
      /\ slot' = [slot EXCEPT ![f] = Cleared(@)]
      /\ mutex' = NULL
      /\ UNCHANGED <<overtaken, closed, store, reached, status, found, op, res, edits, opens>>
  BY DEF Clear, Goto, serverVars, callVars
<1>2. CallOK(t) /\ SlotServes(t) /\ f \in VirtualFiles
  BY <1>1, FoundIsOwn DEF NetInv, CallsOK, SlotsServe
<1>3. \/ /\ op[t] = "fclose" /\ game' = [game EXCEPT ![t] = NULL]
         /\ reported' = IF res[t] THEN reported \cup game[t].made ELSE reported
      \/ /\ op[t] = "fopen" /\ game[t] = NULL /\ game' = game /\ reported' = reported
  BY <1>1, <1>2 DEF Clear, CallOK, Succeeds
<1>4. /\ game'[t] = NULL /\ game' \in [Threads -> Opened \cup {NULL}]
      /\ \A u \in Threads \ {t} : game'[u] = game[u]
  BY <1>3 DEF NetInv, TypeOK
<1>5. /\ slot' \in [VirtualFiles -> Slots]
      /\ slot'[f].handle = NULL /\ ~slot'[f].ready /\ slot'[f].buffer = {}
      /\ \A g \in VirtualFiles \ {f} : slot'[g] = slot[g]
  <2>1. slot[f] \in Slots
    BY <1>2 DEF NetInv, TypeOK
  <2>2. /\ Cleared(slot[f]) \in Slots /\ Cleared(slot[f]).handle = NULL
        /\ ~Cleared(slot[f]).ready /\ Cleared(slot[f]).buffer = {}
    BY <2>1 DEF Cleared, Slots
  <2>3. slot' = [slot EXCEPT ![f] = Cleared(slot[f])]
    BY <1>1
  <2> QED
    BY <1>2, <2>2, <2>3 DEF NetInv, TypeOK
<1>6. pc'[t] = "idle" /\ \A u \in Threads \ {t} : pc'[u] = pc[u]
  BY <1>1 DEF NetInv, TypeOK
<1>7. \A u \in Threads \ {t} : File(u) # f
  BY <1>1, FoundIsOwn
<1>8. \A u \in Threads \ {t} :
        File(u)' = File(u) /\ Live(u)' = Live(u) /\ Virtual(u)' = Virtual(u)
  BY <1>1, <1>4, <1>5, <1>6, <1>7, OthersStay
<1>9. File(t)' = NULL /\ Live(t)' = NULL /\ ~Virtual(t)' /\ File(t) = f
  BY <1>1, <1>4, <1>6, FoundIsOwn DEF File, Live, Virtual
<1>10. reported' \subseteq reached /\ reported' \subseteq Edits
  BY <1>1, <1>3
     DEF NetInv, TypeOK, ClosesAreSaved, SavedOrReported
<1>11. TypeOK'
  BY <1>1, <1>4, <1>5, <1>10 DEF NetInv, TypeOK, PCs
<1>12. CallsOK'
  BY <1>1, <1>4, <1>6, <1>8 DEF NetInv, CallsOK, CallOK
<1>13. FilesApart'
  BY <1>8, <1>9 DEF NetInv, FilesApart
<1>14. SlotsAreUsed'
  <2> SUFFICES ASSUME NEW g \in Zero, Occupied(g)'
               PROVE  \E u \in Threads : File(u)' = g /\ (game'[u] = NULL \/ Virtual(u)')
    BY DEF SlotsAreUsed
  <2>1. g # f /\ Occupied(g)
    BY <1>5, ZeroIsVirtual DEF Occupied
  <2>2. PICK u \in Threads : File(u) = g /\ (game[u] = NULL \/ Virtual(u))
    BY <2>1 DEF NetInv, SlotsAreUsed
  <2> QED
    BY <1>4, <1>8, <1>9, <2>1, <2>2
<1>15. SlotsServe'
  <2> SUFFICES ASSUME NEW u \in Threads
               PROVE  SlotServes(u)'
    BY DEF SlotsServe
  <2>1. CASE u = t
    BY <1>4, <1>6, <1>9, <2>1 DEF SlotServes
  <2>2. CASE u # t
    <3>1. SlotServes(u)
      BY DEF NetInv, SlotsServe
    <3>2. pc[u] # "idle" => found[u] \in VirtualFiles \ {f}
      BY <1>7, <2>2, FoundIsOwn
    <3>3. Virtual(u) => game[u].file \in VirtualFiles \ {f}
      BY <1>7, <2>2, ZeroIsVirtual DEF Virtual, File
    <3> QED
      BY <1>1, <1>4, <1>5, <1>6, <1>8, <2>2, <3>1, <3>2, <3>3 DEF SlotServes
  <2> QED
    BY <2>1, <2>2
<1>16. HandlesApart'
  <2>1. \A u \in Threads : Live(u)' # NULL => Live(u)' \notin closed' \/ pc'[u] = "clear"
    BY <1>1, <1>6, <1>8, <1>9 DEF NetInv, HandlesApart
  <2>2. \A u, v \in Threads : Live(u)' = Live(v)' /\ Live(u)' # NULL => u = v
    BY <1>8, <1>9 DEF NetInv, HandlesApart
  <2>3. \A g \in Zero, u \in Threads :
          Live(u)' = slot'[g].handle /\ Live(u)' # NULL =>
            File(u)' = g /\ (game'[u] = NULL \/ Virtual(u)')
    BY <1>4, <1>5, <1>8, <1>9, ZeroIsVirtual DEF NetInv, HandlesApart
  <2>4. \A g, k \in Zero : slot'[g].handle = slot'[k].handle /\ slot'[g].handle # NULL => g = k
    BY <1>5, ZeroIsVirtual DEF NetInv, HandlesApart
  <2> QED
    BY <2>1, <2>2, <2>3, <2>4 DEF HandlesApart
<1>17. BuffersAreOfTheirFile'
  BY <1>5 DEF NetInv, BuffersAreOfTheirFile, Remote
<1>18. EditsReachTheirFile' /\ SavedOrReported'
  BY <1>1, <1>10 DEF NetInv, EditsReachTheirFile, SavedOrReported
<1>19. ClosesAreSaved' /\ MutexIsLeftUnlocked'
  BY <1>1, <1>4, <1>6, NULLIsNothing DEF NetInv, ClosesAreSaved, MutexIsLeftUnlocked
<1> QED
  BY <1>1, <1>2, <1>11, <1>12, <1>13, <1>14, <1>15, <1>16, <1>17, <1>18, <1>19 DEF NetInv

\* A step that at most ends the process.
LEMMA StatusKeeps ==
  ASSUME NetInv, status' \in {"running", "asserted"}, overtaken' = overtaken,
         UNCHANGED <<slot, closed, mutex, store, reached, pc, found, op, res, game,
                     reported, edits, opens>>
  PROVE  NetInv'
<1>1. \A u \in Threads :
        File(u)' = File(u) /\ Live(u)' = Live(u) /\ Virtual(u)' = Virtual(u)
  BY DEF File, Live, Virtual
<1> QED
  BY <1>1 DEF NetInv, TypeOK, CallsOK, CallOK, FilesApart, SlotsAreUsed, SlotsServe,
              SlotServes, HandlesApart, BuffersAreOfTheirFile, EditsReachTheirFile,
              ClosesAreSaved, SavedOrReported, MutexIsLeftUnlocked, Remote, Occupied

\* Nothing takes back that a FILE was handed out early.
LEMMA StaysOvertaken == overtaken /\ [Next]_vars => overtaken'
<1> SUFFICES ASSUME overtaken, [Next]_vars
             PROVE  overtaken'
  OBVIOUS
<1>1. CASE UNCHANGED vars
  BY <1>1 DEF vars
<1>2. ASSUME NEW t \in Threads, GameStep(t)
      PROVE  overtaken'
  BY <1>2 DEF GameStep, OpenVirtual, SetupAsserts, OpenLocal, Call, CloseLocal, HandOut, Die
<1>3. ASSUME NEW t \in Threads, OpenStep(t) \/ Lock(t) \/ LockedStep(t)
      PROVE  overtaken'
  BY <1>3 DEF OpenStep, LockedStep, Downloaded, DownloadFails, Lock, Read, Write,
              CloseUnwritten, Upload, CloseDummy, SlotIsGone, Die, Clear
<1> QED
  BY <1>1, <1>2, <1>3 DEF Next

\* As long as no FILE is handed out early, no call finds its slot gone.
LEMMA NoSlotIsGone ==
  ASSUME NetInv, NEW t \in Threads
  PROVE  ~SlotIsGone(t)
BY DEF NetInv, SlotsServe, SlotServes, SlotIsGone

LEMMA NetStep == NetInv /\ [Next]_vars /\ ~overtaken' => NetInv'
<1> SUFFICES ASSUME NetInv, [Next]_vars, ~overtaken'
             PROVE  NetInv'
  OBVIOUS
<1>1. CASE UNCHANGED vars
  BY <1>1, StatusKeeps DEF vars, NetInv, TypeOK
<1>2. ASSUME NEW t \in Threads, GameStep(t)
      PROVE  NetInv'
  <2>1. ASSUME NEW f \in VirtualFiles, SetupAsserts(t, f)
        PROVE  NetInv'
    BY <2>1, StatusKeeps DEF SetupAsserts, Die, serverVars, callVars
  <2> QED
    BY <1>2, <2>1, OpenVirtualKeeps, OpenLocalKeeps, CallKeeps, CloseLocalKeeps
       DEF GameStep
<1>3. ASSUME NEW t \in Threads, OpenStep(t) \/ Lock(t) \/ LockedStep(t)
      PROVE  NetInv'
  BY <1>3, NoSlotIsGone, DownloadedKeeps, QuietKeeps, WriteKeeps, UploadKeeps,
     CloseDummyKeeps, ClearKeeps
     DEF OpenStep, LockedStep
<1> QED
  BY <1>1, <1>2, <1>3 DEF Next

THEOREM NetInvariant == Spec => [](overtaken \/ NetInv)
BY InitNet, NetStep, StaysOvertaken, PTL DEF Spec

-----------------------------------------------------------------------------
(* What the hook promises the game                                           *)

\* When fclose reports success, every write that the stream accepted is on the
\* server, however the transfers before it ended.
THEOREM NoWriteIsLost == Spec => []SavedOrReported
<1>1. overtaken \/ NetInv => SavedOrReported
  BY DEF NetInv, SavedOrReported
<1> QED
  BY <1>1, NetInvariant, PTL

\* The server's file of a player and a type gets no edit of any other file, although
\* the slots are found by FILEs that are closed and handed out again.
THEOREM EditsStayInTheirFile == Spec => []EditsReachTheirFile
<1>1. overtaken \/ NetInv => EditsReachTheirFile
  BY DEF NetInv, EditsReachTheirFile
<1> QED
  BY <1>1, NetInvariant, PTL

\* A FILE of the first player leads to the slot it was opened for, any other to none.
THEOREM HandlesLead == Spec => []HandleLeadsToItsFile
<1>1. overtaken \/ NetInv => HandleLeadsToItsFile
  <2> SUFFICES ASSUME NetInv, NEW t \in Threads, game[t] # NULL
               PROVE  Lookup(game[t].handle) =
                        IF game[t].ref = NULL \/ game[t].file[1] # 0
                        THEN NULL ELSE game[t].file
    BY DEF HandleLeadsToItsFile, NetInv
  <2>1. /\ game[t] \in Opened /\ game[t].handle \in FILEs /\ game[t].handle # NULL
        /\ Live(t) = game[t].handle
    BY NULLIsNothing DEF NetInv, TypeOK, Opened, Live
  <2>2. Virtual(t) <=> ~(game[t].ref = NULL \/ game[t].file[1] # 0)
    BY <2>1 DEF Virtual, Opened, VirtualFiles, Zero
  <2>3. CASE Virtual(t)
    BY <2>1, <2>2, <2>3, LookupFinds DEF NetInv, SlotsServe, SlotServes, Virtual
  <2>4. CASE ~Virtual(t)
    BY <2>1, <2>2, <2>4, LookupFinds DEF NetInv, HandlesApart
  <2> QED
    BY <2>3, <2>4
<1> QED
  BY <1>1, NetInvariant, PTL

\* No call returns with the mutex locked, not even after a FILE was handed out early.
THEOREM MutexIsReleased == Spec => []MutexIsLeftUnlocked
<1> DEFINE J == pc \in [Threads -> PCs] /\ MutexIsLeftUnlocked
<1>1. Init => J
  BY NULLIsNothing DEF Init, PCs, MutexIsLeftUnlocked
<1>2. J /\ [Next]_vars => J'
  <2> SUFFICES ASSUME J, [Next]_vars
               PROVE  J'
    OBVIOUS
  <2>1. CASE UNCHANGED vars
    BY <2>1 DEF vars, MutexIsLeftUnlocked
  <2>2. ASSUME NEW t \in Threads, GameStep(t)
        PROVE  J'
    <3>1. /\ mutex' = mutex
          /\ \/ pc' = pc
             \/ pc[t] = "idle" /\ \E q \in PCs : pc' = [pc EXCEPT ![t] = q]
      BY <2>2 DEF GameStep, OpenVirtual, SetupAsserts, OpenLocal, Call, CloseLocal, Goto,
                  Die, PCs
    <3> QED
      BY <3>1 DEF MutexIsLeftUnlocked
  <2>3. ASSUME NEW t \in Threads, OpenStep(t) \/ Lock(t) \/ LockedStep(t)
        PROVE  J'
    <3>1. \/ mutex' = NULL /\ \E q \in PCs : pc' = [pc EXCEPT ![t] = q]
          \/ mutex' = t /\ pc' = [pc EXCEPT ![t] = "locked"]
          \/ mutex' = mutex /\ pc' = pc
          \/ mutex' = mutex /\ \E q \in {"destroy", "clear"} : pc' = [pc EXCEPT ![t] = q]
      BY <2>3 DEF OpenStep, LockedStep, Downloaded, DownloadFails, Lock, Read, Write,
                  CloseUnwritten, Upload, CloseDummy, SlotIsGone, Die, Clear, Goto, PCs
    <3> QED
      BY <3>1, NULLIsNothing DEF MutexIsLeftUnlocked, PCs
  <2> QED
    BY <2>1, <2>2, <2>3 DEF Next
<1> QED
  BY <1>1, <1>2, PTL DEF Spec

\* Whatever transfers failed: the slot of a file of player 0 that is not open is free,
\* and no thread leaves a call with the mutex locked.
THEOREM CallsLeaveNothingHeld == Spec => []NothingIsLeftHeld
<1>1. overtaken \/ NetInv => SlotIsFreeAfterClose
  <2> SUFFICES ASSUME NetInv, NEW t \in Threads, NEW f \in Zero, pc[t] = "idle",
                      MayOpen(t, f), Occupied(f)
               PROVE  FALSE
    BY DEF SlotIsFreeAfterClose, Zero, Occupied
  <2>1. PICK u \in Threads : File(u) = f
    BY DEF NetInv, SlotsAreUsed
  <2> QED
    BY <2>1, ZeroIsVirtual DEF MayOpen, File, NetInv, CallsOK, CallOK, Virtual
<1>2. SlotIsFreeAfterClose /\ MutexIsLeftUnlocked => NothingIsLeftHeld
  BY DEF NothingIsLeftHeld
<1> QED
  BY <1>1, <1>2, NetInvariant, MutexIsReleased, PTL
=============================================================================
