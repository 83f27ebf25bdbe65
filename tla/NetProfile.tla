----------------------------- MODULE NetProfile -----------------------------
(***************************************************************************)
(* patch/net-profile.c: the profile files of the two players are served    *)
(* from a remote store instead of the USB sticks.  Opening a file looks    *)
(* for a token on the player's stick, occupies the file's slot with a      *)
(* dummy FILE and a buffer, and downloads; reads and writes go to the      *)
(* buffer; closing uploads a written buffer and frees the slot.            *)
(*                                                                         *)
(* Threads of the game each open a file, access it and close it; no file   *)
(* is open twice at a time.  FILEs are libc's: a closed one is handed out  *)
(* again, also one whose slot is about to be cleared, since fopen takes no *)
(* mutex.  From then on the calls of two threads may meet in one slot, and *)
(* find it without file_info and buffer: overtaken remembers that.         *)
(* Positions within a buffer are in VirtualFile, the retries of a transfer *)
(* in Pumpnet; the outcomes here are those of ProfileServer: a failed      *)
(* upload may have reached the store.                                      *)
(***************************************************************************)
EXTENDS Naturals, FiniteSets

CONSTANTS
  Threads,        \* the threads of the game
  Players,        \* 0 .. PUMPNET_MAX_NUM_PLAYERS - 1
  Types,          \* SAVE = 0 and RANK = 1
  Plugged,        \* the players whose stick carries a token (pumpnet.bin)
  Refs,           \* the player references in tokens
  FILEs,          \* the FILEs libc hands out
  NULL,           \* no FILE, no slot, nothing open, no thread
  MaxOpens,       \* bound: how often each thread opens a file
  MaxEdits        \* bound: how often each thread writes

ASSUME PlayerZeroExists == 0 \in Players
ASSUME TypesAreOrdered == Types \subseteq Nat
ASSUME PluggedArePlayers == Plugged \subseteq Players
ASSUME NULLIsNothing ==
  NULL \notin FILEs /\ NULL \notin Threads /\ NULL \notin Players \X Types
    /\ NULL \notin Refs
ASSUME BoundsAreNat == MaxOpens \in Nat /\ MaxEdits \in Nat

VARIABLES
  slot,        \* _patch_net_profile_virtual_mnt_points
  closed,      \* the FILEs that are not open
  mutex,       \* the thread that has locked _patch_net_profile_mutex, or NULL
  store,       \* what the server has: the edits in each reference's files
  reached,     \* all edits that the server ever had
  status,      \* "running", or how the process ended
  pc,          \* where each thread is
  found,       \* the slot its hooked call works on
  op,          \* the hooked call it is in
  res,         \* its local res: the upload of a close succeeded
  game,        \* what the game has open in the thread
  reported,    \* the edits of files whose close returned success
  overtaken,   \* history: a FILE was handed out that a slot of player 0 still
               \* had, between the close of the FILE and the end of its slot
  edits,       \* how many edits each thread made
  opens        \* how many files each thread opened

vars == <<slot, closed, mutex, store, reached, status, pc, found, op, res,
          game, reported, overtaken, edits, opens>>
callVars == <<found, op, res>>
serverVars == <<store, reached>>

VirtualFiles == Players \X Types
StoreFiles == Refs \X Types
\* An edit is a write of the game: by and nr tell it from others, dest is where
\* it belongs.
Edits == [by : Threads, nr : 1 .. MaxEdits,
          dest : (Refs \cup {NULL}) \X Types]
\* ready: file_info and buffer are set.
Slots == [handle : FILEs \cup {NULL}, ref : Refs \cup {NULL}, ready : BOOLEAN,
          buffer : SUBSET Edits, is_written : BOOLEAN]
\* What the game has open; made are the writes its stream accepted.
Opened == [file : VirtualFiles, handle : FILEs, ref : Refs \cup {NULL},
           made : SUBSET Edits]
ASSUME NULLIsNotOpened == NULL \notin Opened
Ops == {"fopen", "fread", "fwrite", "fclose"}
PCs == {"idle", "download", "lock", "locked", "destroy", "clear"}

EmptySlot == [handle |-> NULL, ref |-> NULL, ready |-> FALSE, buffer |-> {},
              is_written |-> FALSE]

Init ==
  /\ slot = [f \in VirtualFiles |-> EmptySlot]
  /\ closed = FILEs
  /\ mutex = NULL
  /\ store = [s \in StoreFiles |-> {}]
  /\ reached = {}
  /\ status = "running"
  /\ pc = [t \in Threads |-> "idle"]
  /\ found = [t \in Threads |-> NULL]
  /\ op = [t \in Threads |-> "fopen"]
  /\ res = [t \in Threads |-> TRUE]
  /\ game = [t \in Threads |-> NULL]
  /\ reported = {}
  /\ overtaken = FALSE
  /\ edits = [t \in Threads |-> 0]
  /\ opens = [t \in Threads |-> 0]

Goto(t, from, to) == /\ status = "running"
                     /\ pc[t] = from
                     /\ pc' = [pc EXCEPT ![t] = to]

Die(how) == /\ status' = how
            /\ UNCHANGED <<slot, closed, mutex, serverVars, pc, callVars, game,
                           reported, overtaken, edits, opens>>

-----------------------------------------------------------------------------
(* fopen                                                                   *)

\* libc hands out any closed FILE, the one of a slot that another thread is
\* about to clear too.
HandOut(h) ==
  /\ h \in closed
  /\ closed' = closed \ {h}
  /\ overtaken' = (overtaken \/ \E f \in {0} \X Types : slot[f].handle = h)

\* The game opens a file that it has not got open in any thread.
MayOpen(t, f) ==
  /\ game[t] = NULL
  /\ opens[t] < MaxOpens
  /\ \A u \in Threads \ {t} :
       /\ game[u] # NULL => game[u].file # f
       /\ pc[u] # "idle" /\ op[u] = "fopen" => found[u] # f

\* The token of the player's stick is there and readable: the slot is set up.
OpenVirtual(t, f, ref) ==
  /\ MayOpen(t, f)
  /\ f[1] \in Plugged
  /\ slot[f].handle = NULL /\ ~slot[f].ready
  /\ Goto(t, "idle", "download")
  /\ \E h \in FILEs :
       /\ HandOut(h)
       /\ slot' = [slot EXCEPT ![f] =
                     [handle |-> h, ref |-> ref, ready |-> TRUE, buffer |-> {},
                      is_written |-> FALSE]]
  /\ found' = [found EXCEPT ![t] = f]
  /\ op' = [op EXCEPT ![t] = "fopen"]
  /\ opens' = [opens EXCEPT ![t] = @ + 1]
  /\ UNCHANGED <<mutex, serverVars, status, res, game, reported, edits>>

\* log_assert(!virtual_file->handle), ..->file_info and ..->buffer
SetupAsserts(t, f) ==
  /\ status = "running" /\ pc[t] = "idle"
  /\ MayOpen(t, f)
  /\ f[1] \in Plugged
  /\ slot[f].handle # NULL \/ slot[f].ready
  /\ Die("asserted")

\* No token, or none that can be read: the game opens the file on the stick.
OpenLocal(t, f) ==
  /\ MayOpen(t, f)
  /\ Goto(t, "idle", "idle")
  /\ \E h \in FILEs :
       /\ HandOut(h)
       /\ game' = [game EXCEPT ![t] = [file |-> f, handle |-> h, ref |-> NULL,
                                       made |-> {}]]
  /\ opens' = [opens EXCEPT ![t] = @ + 1]
  /\ UNCHANGED <<slot, mutex, serverVars, status, callVars, reported, edits>>

\* Mutation: every file is transferred as the save file.
Remote_Save(f) == <<slot[f].ref, 0>>

\* What a slot is downloaded from and uploaded to.
Remote(f) == <<slot[f].ref, f[2]>>

\* The download succeeds.  The mutex is unlocked, though this thread has not
\* locked it: glibc lets it go whoever holds it.
Downloaded(t) ==
  LET f == found[t]  s == slot[f] IN
  /\ Goto(t, "download", "idle")
  /\ s.ready
  /\ slot' = [slot EXCEPT ![f].buffer = store[Remote(f)]]
  /\ game' = [game EXCEPT ![t] = [file |-> f, handle |-> s.handle,
                                  ref |-> s.ref, made |-> {}]]
  /\ mutex' = NULL
  /\ UNCHANGED <<overtaken, closed, serverVars, status, callVars, reported, edits, opens>>

DownloadFails(t) ==
  /\ Goto(t, "download", "destroy")
  /\ UNCHANGED <<overtaken, slot, closed, mutex, serverVars, status, callVars, game,
                 reported, edits, opens>>

-----------------------------------------------------------------------------
(* The calls on an open FILE                                               *)

\* Mutation: the file index is ignored as well.
Matching_FirstType(h) == {f \in {0} \X Types : slot[<<0, 0>>].handle = h}

\* get_virtual_mnt_point looks at the slots of player 0 for both players.
Matching(h) == {f \in {0} \X Types : slot[f].handle = h}
Lookup(h) == IF Matching(h) = {} THEN NULL
             ELSE CHOOSE f \in Matching(h) : \A g \in Matching(h) : f[2] <= g[2]

Call(t, o) ==
  /\ game[t] # NULL
  /\ Goto(t, "idle", "lock")
  /\ Lookup(game[t].handle) # NULL
  /\ found' = [found EXCEPT ![t] = Lookup(game[t].handle)]
  /\ op' = [op EXCEPT ![t] = o]
  /\ res' = [res EXCEPT ![t] = TRUE]
  /\ UNCHANGED <<overtaken, slot, closed, mutex, serverVars, status, game, reported, edits,
                 opens>>

\* An fclose that is passed on closes the FILE, also if it is on /dev/null.
\* (An fread or fwrite that is passed on changes nothing here: a FILE on
\* /dev/null reads as empty and accepts no write.)
CloseLocal(t) ==
  /\ game[t] # NULL
  /\ Goto(t, "idle", "idle")
  /\ Lookup(game[t].handle) = NULL
  /\ closed' = closed \cup {game[t].handle}
  /\ reported' = reported \cup game[t].made
  /\ game' = [game EXCEPT ![t] = NULL]
  /\ UNCHANGED <<overtaken, slot, mutex, serverVars, status, callVars, edits, opens>>

Lock(t) ==
  /\ Goto(t, "lock", "locked")
  /\ mutex = NULL
  /\ mutex' = t
  /\ UNCHANGED <<overtaken, slot, closed, serverVars, status, callVars, game, reported,
                 edits, opens>>

\* Mutation: fread returns with the mutex locked.
Read_KeepsLock(t) ==
  /\ Goto(t, "locked", "idle")
  /\ op[t] = "fread"
  /\ UNCHANGED <<overtaken, slot, closed, mutex, serverVars, status, callVars, game,
                 reported, edits, opens>>

Read(t) ==
  /\ Goto(t, "locked", "idle")
  /\ op[t] = "fread"
  /\ slot[found[t]].ready
  /\ mutex' = NULL
  /\ UNCHANGED <<overtaken, slot, closed, serverVars, status, callVars, game, reported,
                 edits, opens>>

Modified(s, e) == [s EXCEPT !.buffer = @ \cup {e}, !.is_written = TRUE]

Write(t) ==
  LET f == found[t]
      e == [by |-> t, nr |-> edits[t] + 1,
            dest |-> <<game[t].ref, game[t].file[2]>>] IN
  /\ Goto(t, "locked", "idle")
  /\ op[t] = "fwrite"
  /\ slot[f].ready
  /\ edits' = [edits EXCEPT ![t] = @ + 1]
  /\ slot' = [slot EXCEPT ![f] = Modified(@, e)]
  /\ game' = [game EXCEPT ![t].made = @ \cup {e}]
  /\ mutex' = NULL
  /\ UNCHANGED <<overtaken, closed, serverVars, status, callVars, reported, opens>>

CloseUnwritten(t) ==
  /\ Goto(t, "locked", "destroy")
  /\ op[t] = "fclose"
  /\ ~slot[found[t]].is_written
  /\ UNCHANGED <<overtaken, slot, closed, mutex, serverVars, status, callVars, game,
                 reported, edits, opens>>

\* The upload of a written buffer, which may reach the store and yet be
\* reported as failed.
Upload(t, success) ==
  LET f == found[t]  s == slot[f] IN
  /\ Goto(t, "locked", "destroy")
  /\ op[t] = "fclose"
  /\ s.is_written /\ s.ready
  /\ \/ /\ store' = [store EXCEPT ![Remote(f)] = s.buffer]
        /\ reached' = reached \cup s.buffer
     \/ ~success /\ UNCHANGED serverVars
  /\ res' = [res EXCEPT ![t] = success]
  /\ UNCHANGED <<overtaken, slot, closed, mutex, status, found, op, game, reported, edits,
                 opens>>

\* Mutation: the handle is cleared before it is closed.
CloseDummy_Cleared(t) ==
  /\ Goto(t, "destroy", "clear")
  /\ closed' = closed \cup {NULL}
  /\ UNCHANGED <<overtaken, slot, mutex, serverVars, status, callVars, game, reported,
                 edits, opens>>

\* destroy_virtual_file: the dummy FILE is closed, then the slot is cleared.
CloseDummy(t) ==
  /\ Goto(t, "destroy", "clear")
  /\ slot[found[t]].ready
  /\ closed' = closed \cup {slot[found[t]].handle}
  /\ UNCHANGED <<overtaken, slot, mutex, serverVars, status, callVars, game, reported,
                 edits, opens>>

\* Another thread has cleared the slot that this one found before it locked, or
\* sets up: file_info and buffer are NULL, or the buffer is freed.  (A download
\* that failed asserts that they are there.)
SlotIsGone(t) ==
  /\ status = "running" /\ pc[t] \in {"download", "locked", "destroy"}
  /\ ~slot[found[t]].ready
  /\ Die(IF pc[t] = "destroy" /\ op[t] = "fopen" THEN "asserted" ELSE "crashed")

\* Mutation: the handle of a destroyed file stays in its slot.
Cleared_KeepsHandle(s) == [s EXCEPT !.ready = FALSE]

\* player_ref_id and is_written stay as they are.
Cleared(s) == [s EXCEPT !.handle = NULL, !.ready = FALSE, !.buffer = {}]

\* Mutation: a failed upload is not reported to the game.
Succeeds_Always(t) == TRUE

\* What fclose tells the game.
Succeeds(t) == res[t]

\* The slot is cleared, the mutex unlocked, and the fopen or fclose returns.
Clear(t) ==
  /\ Goto(t, "clear", "idle")
  /\ slot' = [slot EXCEPT ![found[t]] = Cleared(@)]
  /\ mutex' = NULL
  /\ IF op[t] = "fclose"
     THEN /\ game' = [game EXCEPT ![t] = NULL]
          /\ reported' = IF Succeeds(t) THEN reported \cup game[t].made
                         ELSE reported
     ELSE UNCHANGED <<game, reported>>
  /\ UNCHANGED <<overtaken, closed, serverVars, status, callVars, edits, opens>>

-----------------------------------------------------------------------------

OpenStep(t) == Downloaded(t) \/ DownloadFails(t)

LockedStep(t) ==
  \/ Read(t) \/ Write(t)
  \/ CloseUnwritten(t) \/ \E success \in BOOLEAN : Upload(t, success)
  \/ CloseDummy(t) \/ SlotIsGone(t) \/ Clear(t)

GameStep(t) ==
  \/ \E f \in VirtualFiles :
       \/ \E ref \in Refs : OpenVirtual(t, f, ref)
       \/ SetupAsserts(t, f)
       \/ OpenLocal(t, f)
  \/ Call(t, "fread") \/ Call(t, "fclose")
  \/ edits[t] < MaxEdits /\ Call(t, "fwrite")
  \/ CloseLocal(t)

Next == \E t \in Threads :
          GameStep(t) \/ OpenStep(t) \/ Lock(t) \/ LockedStep(t)

Spec == Init /\ [][Next]_vars
-----------------------------------------------------------------------------

TypeOK ==
  /\ slot \in [VirtualFiles -> Slots]
  /\ closed \subseteq FILEs
  /\ mutex \in Threads \cup {NULL}
  /\ store \in [StoreFiles -> SUBSET Edits]
  /\ reached \subseteq Edits
  /\ status \in {"running", "asserted", "crashed"}
  /\ pc \in [Threads -> PCs]
  /\ found \in [Threads -> VirtualFiles \cup {NULL}]
  /\ op \in [Threads -> Ops]
  /\ res \in [Threads -> BOOLEAN]
  /\ game \in [Threads -> Opened \cup {NULL}]
  /\ reported \subseteq Edits
  /\ overtaken \in BOOLEAN
  /\ edits \in [Threads -> 0 .. MaxEdits]
  /\ opens \in [Threads -> 0 .. MaxOpens]

\* The promises below are kept until a FILE is handed out between its close and
\* the end of its slot; what two threads do to each other's files from then on
\* none of them says.

\* A profile is not lost silently: when fclose reports success, every write
\* that the stream accepted has reached the server, whatever failed before.
SavedOrReported == overtaken \/ reported \subseteq reached

\* Writes end up in the file they were made to: the server's file of a player
\* reference and type never contains an edit of another player's file, of
\* another type, or of a file on the stick.
EditsReachTheirFile ==
  overtaken \/ \A s \in StoreFiles : \A e \in store[s] : e.dest = s

\* A FILE of the first player leads to the slot of the file that the game
\* opened it for, and a FILE on a stick to none.  (The second player's FILEs
\* lead to none, see CanBeReopened.)  The slot that a call has found is still
\* set up when the call gets the mutex: nothing is read from address zero.
HandleLeadsToItsFile ==
  \/ overtaken
  \/ /\ status # "crashed"
     /\ \A t \in Threads : pc[t] = "idle" /\ game[t] # NULL =>
          Lookup(game[t].handle) = IF game[t].ref = NULL \/ game[t].file[1] # 0
                                   THEN NULL ELSE game[t].file

\* When the game has closed a file of the first player, or could not open it,
\* the slot is free again, whatever transfers failed: the next fopen does not
\* die in the sanity checks.
SlotIsFreeAfterClose ==
  overtaken \/ \A t \in Threads, f \in {0} \X Types :
    pc[t] = "idle" /\ MayOpen(t, f) => slot[f].handle = NULL /\ ~slot[f].ready

\* The mutex is locked only while its owner is in a call: no early return and
\* no failed transfer leaves it locked.
MutexIsLeftUnlocked ==
  \A t \in Threads : mutex = t => pc[t] \in {"locked", "destroy", "clear"}

\* What a call leaves behind is free for the next one: the slot of a file that is
\* not open, and the mutex.
NothingIsLeftHeld == SlotIsFreeAfterClose /\ MutexIsLeftUnlocked

\* log_assert(virtual_file->handle), ..->file_info and ..->buffer: who destroys a
\* file finds it set up.
DestroyFindsItsFile ==
  \A t \in Threads : pc[t] = "destroy" => slot[found[t]].ready

\* A player's files can be opened again after they were closed: to load the
\* profile, and later to save it.
CanBeReopened == status # "asserted"
=============================================================================
