----------------------------- MODULE HookProofs -----------------------------
(* Proofs about the two parts of a hook module, its lazy initialisation and   *)
(* its table of handlers.                                                     *)
EXTENDS HookInit, HookChain, SequenceTheorems, TLAPS

(***************************************************************************)
(* Initialisation, for every set of callers.                               *)
(*                                                                         *)
(* The inductive invariant has three parts.  Owner says what the           *)
(* init_in_progress flag means: it is a lock on the region Flagged.        *)
(* Progress says what the owner has done so far at each of its steps.      *)
(* Holder says that, until a push goes past the init function early, a     *)
(* lock was only ever taken after initialisation, which is where the       *)
(* assertion of invoke_next comes in: without it pthread_mutex_init may    *)
(* run on a mutex that a thread holds.                                     *)
(***************************************************************************)

Owner ==
  /\ init_in_progress = 0 => \A t \in Callers : init_pc[t] \notin Flagged
  /\ \A t, u \in Callers : init_pc[t] \in Flagged /\ init_pc[u] \in Flagged => t = u

Progress ==
  /\ \A t \in Callers : init_pc[t] \in InitBody => initted = 0
  /\ \A t \in Callers : init_pc[t] \in {"mutex", "publish"} => resolved
  /\ \A t \in Callers : init_pc[t] = "publish" => mutexInit
  /\ initted > 0 => resolved /\ mutexInit
  /\ mutexInit => initted > 0 \/ \E t \in Callers : init_pc[t] = "publish"

Holder ==
  \/ early
  \/ /\ \A t \in Callers : init_pc[t] \in {"lock", "locked"} => initted > 0
     /\ \A t \in Callers : init_pc[t] = "locked" => ~mutexFree
     /\ Exclusive

LazyInv == LazyTypeOK /\ Owner /\ Progress /\ Holder

-----------------------------------------------------------------------------

(* The initial state satisfies the inductive invariant: no flag, no thread  *)
(* inside the init function.                                                *)
LEMMA InitLazyInv == LazyInit => LazyInv
<1> SUFFICES ASSUME LazyInit PROVE LazyInv
  OBVIOUS
<1> USE DEF LazyInit
<1>1. LazyTypeOK
  BY DEF LazyTypeOK, InitPCs
<1>2. Owner
  BY DEF Owner, Flagged, InitBody
<1>3. Progress
  BY DEF Progress, InitBody
<1>4. Holder
  BY DEF Holder, Exclusive
<1> QED
  BY <1>1, <1>2, <1>3, <1>4 DEF LazyInv

(* Every step of every thread preserves the inductive invariant.            *)
LEMMA NextLazyInv == LazyInv /\ [LazyNext]_init_vars => LazyInv'
<1> SUFFICES ASSUME LazyInv, [LazyNext]_init_vars PROVE LazyInv'
  OBVIOUS
<1> USE DEF LazyInv, LazyTypeOK, Owner, Progress, Holder, Exclusive, Flagged,
            InitBody, InitPCs, StepsTo, pushVars
<1>1. ASSUME NEW t \in Callers, Call(t) PROVE LazyInv'
  BY <1>1 DEF Call
<1>2. ASSUME NEW t \in Callers, Check(t) PROVE LazyInv'
  BY <1>2 DEF Check
<1>3. ASSUME NEW t \in Callers, CompareExchange(t) PROVE LazyInv'
  <2>1. CASE init_in_progress = 0
    BY <1>3, <2>1 DEF CompareExchange
  <2>2. CASE init_in_progress # 0
    BY <1>3, <2>2 DEF CompareExchange
  <2> QED BY <2>1, <2>2
<1>4. ASSUME NEW t \in Callers, Spin(t) PROVE LazyInv'
  BY <1>4 DEF Spin
<1>5. ASSUME NEW t \in Callers, Recheck(t) PROVE LazyInv'
  <2>1. CASE initted > 0
    BY <1>5, <2>1 DEF Recheck
  <2>2. CASE ~(initted > 0)
    BY <1>5, <2>2 DEF Recheck
  <2> QED BY <2>1, <2>2
<1>6. ASSUME NEW t \in Callers, Revert(t) PROVE LazyInv'
  BY <1>6 DEF Revert
<1>7. ASSUME NEW t \in Callers, ResolveFuncs(t) PROVE LazyInv'
  BY <1>7 DEF ResolveFuncs
<1>8. ASSUME NEW t \in Callers, InitMutex(t) PROVE LazyInv'
  BY <1>8 DEF InitMutex
<1>9. ASSUME NEW t \in Callers, Publish(t) PROVE LazyInv'
  BY <1>9 DEF Publish
<1>10. ASSUME NEW t \in Callers, Release(t) PROVE LazyInv'
  BY <1>10 DEF Release
<1>11. ASSUME NEW t \in Callers, AssertInitted(t) PROVE LazyInv'
  <2>1. CASE aborted' = aborted
    BY <1>11, <2>1 DEF AssertInitted
  <2>2. CASE aborted' # aborted
    BY <1>11, <2>2 DEF AssertInitted
  <2> QED BY <2>1, <2>2
<1>12. ASSUME NEW t \in Callers, Lock(t) PROVE LazyInv'
  BY <1>12 DEF Lock
<1>13. ASSUME NEW t \in Callers, Unlock(t) PROVE LazyInv'
  BY <1>13 DEF Unlock
<1>14. ASSUME NEW t \in Callers, PushGoesOn(t) PROVE LazyInv'
  <2>1. early' = TRUE \/ (initted # 0 /\ early' = early)
    BY <1>14 DEF PushGoesOn
  <2>2. early' \in BOOLEAN
    BY <1>14 DEF PushGoesOn
  <2>3. initted = 0 \/ initted > 0
    OBVIOUS
  <2> QED
    BY <1>14, <2>1, <2>2, <2>3 DEF PushGoesOn
<1>15. CASE UNCHANGED init_vars
  BY <1>15 DEF init_vars
<1> QED
  BY <1>1, <1>2, <1>3, <1>4, <1>5, <1>6, <1>7, <1>8, <1>9, <1>10, <1>11,
     <1>12, <1>13, <1>14, <1>15 DEF LazyNext, InitStep, UseStep

(* The inductive invariant holds in every reachable state.                  *)
THEOREM LazyInvHolds == LazySpec => []LazyInv
  BY InitLazyInv, NextLazyInv, PTL DEF LazySpec

(* Every variable keeps its type, for any number of threads.                *)
THEOREM LazyTypeCorrect == LazySpec => []LazyTypeOK
  BY LazyInvHolds, PTL DEF LazyInv

(* The body of the init function is entered by one thread at a time and     *)
(* only while the module is not initialised.                                *)
THEOREM InitRunsOnce == LazySpec => []InitOnce
<1>1. LazyInv => InitOnce
  BY DEF LazyInv, Owner, Progress, InitOnce
<1> QED
  BY <1>1, LazyInvHolds, PTL

(* initted is stored after everything it announces.                         *)
THEOREM PublicationIsOrdered == LazySpec => []PublishedIsReady
<1>1. LazyInv => PublishedIsReady
  BY DEF LazyInv, Progress, PublishedIsReady
<1> QED
  BY <1>1, LazyInvHolds, PTL

(* The mutex of a hook module excludes, for any number of threads, until a  *)
(* push_handler has lost the compare-exchange and gone on to lock before    *)
(* the winner published.  No interleaving of hooked functions, and none     *)
(* with pushes that come later, lets two threads into the section.          *)
THEOREM HookMutexExcludes == LazySpec => []LockExclusion
<1>1. LazyInv => LockExclusion
  BY DEF LazyInv, Holder, LockExclusion
<1> QED
  BY <1>1, LazyInvHolds, PTL

(* pthread_mutex_init never runs on a mutex that is already initialised.    *)
THEOREM MutexIsInitialisedOnce == LazySpec => MutexInitialisedOnce
<1>1. LazyInv /\ [LazyNext]_init_vars => [\A t \in Callers : InitMutex(t) => ~mutexInit]_init_vars
  <2> SUFFICES ASSUME LazyInv, NEW t \in Callers, InitMutex(t) PROVE ~mutexInit
    OBVIOUS
  <2>1. init_pc[t] = "mutex" /\ initted = 0
    BY DEF InitMutex, StepsTo, LazyInv, Progress, InitBody
  <2>2. \A u \in Callers : init_pc[u] # "publish"
    BY <2>1 DEF LazyInv, Owner, Flagged, InitBody
  <2> QED
    BY <2>1, <2>2 DEF LazyInv, Progress
<1> QED
  BY <1>1, LazyInvHolds, PTL DEF LazySpec, MutexInitialisedOnce

-----------------------------------------------------------------------------
(***************************************************************************)
(* Table and dispatch, for every set of threads and of handlers and        *)
(* every bound.                                                            *)
(*                                                                         *)
(* What makes the dispatch correct is that the cursor of a call equals the *)
(* number of its active handlers whenever the innermost one may pass the   *)
(* call on.  The invariant therefore says what every frame of a call       *)
(* remembers: a frame invoked by the reset-advance variant saved the depth *)
(* it was invoked at, and any other frame left its caller unable to pass   *)
(* the call on again.                                                      *)
(***************************************************************************)

Critical == {"push_grow", "push_store", "next_pick"}
Pushing == {"push_lock", "push_grow", "push_store"}
Passing == {"next_lock", "next_pick"}

Locked == \A t \in Threads : pc[t] \in Critical => lock = t

Table ==
  /\ \A i \in 1 .. nhandlers : i \in DOMAIN slots /\ slots[i] \in Handlers
  /\ nhandlers <= Len(slots)
  /\ \A t \in Threads : pc[t] \in Pushing => pushed[t] \in Handlers
  /\ \A t \in Threads : pc[t] = "push_store" =>
       Len(slots) = nhandlers + 1 /\ nhandlers + 1 < SIZE_MAX

FrameOK(t, i) ==
  /\ i < Depth(t) => frames[t][i].fn # Real
  /\ frames[t][i].fn # Real => i <= nhandlers /\ frames[t][i].fn = slots[i]
  /\ frames[t][i].reset => frames[t][i].cur = i - 1
  /\ i < Depth(t) /\ ~frames[t][i + 1].reset => frames[t][i].spent

CallOK(t) ==
  /\ \A i \in 1 .. Depth(t) : FrameOK(t, i)
  /\ pc[t] \in Pushing \cup {"idle"} => frames[t] = <<>>
  /\ pc[t] = "handler" => /\ Depth(t) > 0
                          /\ MayInvoke(Top(t)) => next_handler[t] = Depth(t)
  /\ pc[t] \in Passing =>
       /\ next_handler[t] = Depth(t)
       /\ request[t].cur = Depth(t)
       /\ Depth(t) > 0 => Top(t).fn # Real
       /\ Depth(t) > 0 /\ ~request[t].reset => Top(t).spent

IInv ==
  /\ DispatchTypeOK
  /\ Locked
  /\ Table
  /\ \A t \in Threads : CallOK(t)

-----------------------------------------------------------------------------

(* The empty table and idle threads satisfy the inductive invariant.        *)
LEMMA InitIInv == DispatchInit => IInv
<1> SUFFICES ASSUME DispatchInit PROVE IInv
  OBVIOUS
<1> USE DEF DispatchInit
<1>1. DispatchTypeOK
  <2>1. slots \in Seq(Handlers \cup {Garbage}) /\ <<>> \in Seq(Frames)
    OBVIOUS
  <2>2. request \in [Threads -> Requests]
    BY SizeMaxIsNat DEF Requests
  <2>3. frames \in [Threads -> Seq(Frames)]
    BY <2>1
  <2>4. calls \in [Threads -> 0 .. MaxCalls]
    BY BoundsAreNat
  <2>5. nhandlers \in 0 .. SIZE_MAX /\ next_handler \in [Threads -> 0 .. SIZE_MAX]
    BY SizeMaxIsNat
  <2>6. pc \in [Threads -> PCs] /\ pushed \in [Threads -> Handlers \cup {Garbage}]
    BY DEF PCs
  <2>7. lock \in Threads \cup {NoThread}
    OBVIOUS
  <2>8. nhandlers > 0 => nhandlers < SIZE_MAX
    OBVIOUS
  <2> QED
    BY ONLY <2>1, <2>2, <2>3, <2>4, <2>5, <2>6, <2>7, <2>8 DEF DispatchTypeOK
<1>2. Locked
  BY DEF Locked, Critical
<1>3. Table
  BY DEF Table, Pushing
<1>4. ASSUME NEW t \in Threads PROVE CallOK(t)
  BY <1>4 DEF CallOK, FrameOK, Depth, Passing, Pushing
<1> QED
  BY <1>1, <1>2, <1>3, <1>4 DEF IInv

(* A call that a step does not touch keeps its invariant as long as the     *)
(* table keeps what it holds.                                               *)
LEMMA UntouchedCall ==
  ASSUME NEW t \in Threads, CallOK(t), DispatchTypeOK,
         pc'[t] = pc[t], frames'[t] = frames[t], request'[t] = request[t],
         next_handler'[t] = next_handler[t],
         nhandlers' \in Nat, nhandlers <= nhandlers',
         \A i \in 1 .. nhandlers : slots'[i] = slots[i]
  PROVE  CallOK(t)'
<1>1. Depth(t) \in Nat /\ Depth(t)' = Depth(t) /\ Top(t)' = Top(t)
  <2>1. frames[t] \in Seq(Frames)
    BY DEF DispatchTypeOK
  <2> QED
    BY <2>1 DEF Depth, Top
<1>2. ASSUME NEW i \in 1 .. Depth(t) PROVE FrameOK(t, i)'
  <2>1. FrameOK(t, i)
    BY DEF CallOK
  <2>2. nhandlers \in Nat
    BY SizeMaxIsNat DEF DispatchTypeOK
  <2> QED
    BY <1>1, <2>1, <2>2 DEF FrameOK
<1> QED
  BY <1>1, <1>2 DEF CallOK, MayInvoke

(* A thread that is outside a hooked call keeps its part of the invariant.  *)
LEMMA EmptyCall ==
  ASSUME NEW t \in Threads, frames'[t] = <<>>, pc'[t] \in Pushing \cup {"idle"}
  PROVE  CallOK(t)'
<1>1. Depth(t)' = 0
  BY DEF Depth
<1>2. \A i \in 1 .. Depth(t)' : FALSE
  BY <1>1
<1> QED
  BY <1>1, <1>2 DEF CallOK, Pushing, Passing

(* Outside a hooked call a thread has no frames.                            *)
LEMMA NoFrames ==
  ASSUME IInv, NEW t \in Threads, pc[t] \in Pushing \cup {"idle"}
  PROVE  frames[t] = <<>>
  BY DEF IInv, CallOK

(* The steps of push_handler.                                               *)
LEMMA PushIInv ==
  ASSUME IInv, NEW t \in Threads,
         \/ \E h \in Handlers : BeginPush(t, h)
         \/ PushStep(t)
  PROVE  IInv'
<1> USE SizeMaxIsNat
<1>0. /\ DispatchTypeOK /\ Locked /\ Table
      /\ \A u \in Threads : CallOK(u)
      /\ nhandlers \in Nat
      /\ slots \in Seq(Handlers \cup {Garbage})
      /\ frames' = frames /\ request' = request
      /\ next_handler' = next_handler
  BY DEF IInv, DispatchTypeOK, PushStep, BeginPush, PushLock, GrowTable, GrowFails,
         StoreHandler, callVars, tableVars
<1>1. ASSUME NEW h \in Handlers, BeginPush(t, h) PROVE IInv'
  <2>1. DispatchTypeOK'
    BY <1>0, <1>1, BoundsAreNat DEF DispatchTypeOK, BeginPush, Goto, PCs, Count, tableVars, callVars
  <2>2. Locked' /\ Table'
    BY <1>0, <1>1 DEF BeginPush, Goto, Locked, Critical, Table, Pushing,
                      DispatchTypeOK, tableVars
  <2>3. ASSUME NEW u \in Threads PROVE CallOK(u)'
    <3>1. CASE u = t
      <4>1. pc[t] \in Pushing \cup {"idle"} /\ pc'[t] \in Pushing \cup {"idle"}
        BY <1>0, <1>1 DEF BeginPush, Goto, Pushing, DispatchTypeOK
      <4> QED
        BY <1>0, <3>1, <4>1, NoFrames, EmptyCall
    <3>2. CASE u # t
      <4>1. /\ pc'[u] = pc[u] /\ nhandlers' \in Nat /\ nhandlers <= nhandlers'
            /\ \A i \in 1 .. nhandlers : slots'[i] = slots[i]
        BY <1>0, <1>1, <3>2 DEF BeginPush, Goto, DispatchTypeOK, tableVars
      <4>2. /\ frames'[u] = frames[u] /\ request'[u] = request[u]
            /\ next_handler'[u] = next_handler[u]
        BY <1>0
      <4> QED
        BY <1>0, <4>1, <4>2, UntouchedCall
    <3> QED BY <3>1, <3>2
  <2> QED BY <2>1, <2>2, <2>3 DEF IInv
<1>2. CASE PushLock(t)
  <2>1. DispatchTypeOK'
    BY <1>0, <1>2 DEF DispatchTypeOK, PushLock, Goto, PCs, Acquire, tableVars, callVars
  <2>2. Locked' /\ Table'
    BY <1>0, <1>2, NoThreadIsNoThread DEF PushLock, Goto, Acquire, Locked, Critical, Table,
                      Pushing, DispatchTypeOK, tableVars
  <2>3. ASSUME NEW u \in Threads PROVE CallOK(u)'
    <3>1. CASE u = t
      <4>1. pc[t] \in Pushing \cup {"idle"} /\ pc'[t] \in Pushing \cup {"idle"}
        BY <1>0, <1>2 DEF PushLock, Goto, Pushing, DispatchTypeOK
      <4> QED
        BY <1>0, <3>1, <4>1, NoFrames, EmptyCall
    <3>2. CASE u # t
      <4>1. /\ pc'[u] = pc[u] /\ nhandlers' \in Nat /\ nhandlers <= nhandlers'
            /\ \A i \in 1 .. nhandlers : slots'[i] = slots[i]
        BY <1>0, <1>2, <3>2 DEF PushLock, Goto, DispatchTypeOK, tableVars
      <4>2. /\ frames'[u] = frames[u] /\ request'[u] = request[u]
            /\ next_handler'[u] = next_handler[u]
        BY <1>0
      <4> QED
        BY <1>0, <4>1, <4>2, UntouchedCall
    <3> QED BY <3>1, <3>2
  <2> QED BY <2>1, <2>2, <2>3 DEF IInv
<1>3. CASE GrowTable(t)
  <2>0. /\ slots' \in Seq(Handlers \cup {Garbage})
        /\ Len(slots') = nhandlers + 1
        /\ \A i \in 1 .. nhandlers : slots'[i] = slots[i]
    <3>1. slots' = [i \in 1 .. nhandlers + 1 |->
                      IF i \in DOMAIN slots THEN slots[i] ELSE Garbage]
      BY <1>3 DEF GrowTable, Resized
    <3>2. \A i \in 1 .. nhandlers + 1 : slots'[i] \in Handlers \cup {Garbage}
      BY <1>0, <3>1
    <3> QED
      BY <1>0, <3>1, <3>2 DEF Table
  <2>1. DispatchTypeOK'
    BY <1>0, <1>3, <2>0 DEF DispatchTypeOK, GrowTable, Goto, PCs, callVars
  <2>2. lock = t /\ \A u \in Threads : pc[u] \in Critical => u = t
    BY <1>0, <1>3 DEF GrowTable, Goto, Locked, Critical
  <2>3. Locked' /\ Table'
    BY <1>0, <1>3, <2>0, <2>2 DEF GrowTable, Goto, Locked, Critical, Table,
                                  Pushing, DispatchTypeOK
  <2>4. ASSUME NEW u \in Threads PROVE CallOK(u)'
    <3>1. CASE u = t
      <4>1. pc[t] \in Pushing \cup {"idle"} /\ pc'[t] \in Pushing \cup {"idle"}
        BY <1>0, <1>3 DEF GrowTable, Goto, Pushing, DispatchTypeOK
      <4> QED
        BY <1>0, <3>1, <4>1, NoFrames, EmptyCall
    <3>2. CASE u # t
      <4>1. /\ pc'[u] = pc[u] /\ nhandlers' \in Nat /\ nhandlers <= nhandlers'
            /\ \A i \in 1 .. nhandlers : slots'[i] = slots[i]
        BY <1>0, <1>3, <2>0, <3>2 DEF GrowTable, Goto, DispatchTypeOK
      <4>2. /\ frames'[u] = frames[u] /\ request'[u] = request[u]
            /\ next_handler'[u] = next_handler[u]
        BY <1>0
      <4> QED
        BY <1>0, <4>1, <4>2, UntouchedCall
    <3> QED BY <3>1, <3>2
  <2> QED BY <2>1, <2>3, <2>4 DEF IInv
<1>4. CASE GrowFails(t)
  <2>1. DispatchTypeOK'
    BY <1>0, <1>4 DEF DispatchTypeOK, GrowFails, Goto, PCs, tableVars, callVars
  <2>2. Locked' /\ Table'
    BY <1>0, <1>4 DEF GrowFails, Goto, Locked, Critical, Table, Pushing,
                      DispatchTypeOK, tableVars
  <2>3. ASSUME NEW u \in Threads PROVE CallOK(u)'
    <3>1. CASE u = t
      <4>1. pc[t] \in Pushing \cup {"idle"} /\ pc'[t] \in Pushing \cup {"idle"}
        BY <1>0, <1>4 DEF GrowFails, Goto, Pushing, DispatchTypeOK
      <4> QED
        BY <1>0, <3>1, <4>1, NoFrames, EmptyCall
    <3>2. CASE u # t
      <4>1. /\ pc'[u] = pc[u] /\ nhandlers' \in Nat /\ nhandlers <= nhandlers'
            /\ \A i \in 1 .. nhandlers : slots'[i] = slots[i]
        BY <1>0, <1>4, <3>2 DEF GrowFails, Goto, DispatchTypeOK, tableVars
      <4>2. /\ frames'[u] = frames[u] /\ request'[u] = request[u]
            /\ next_handler'[u] = next_handler[u]
        BY <1>0
      <4> QED
        BY <1>0, <4>1, <4>2, UntouchedCall
    <3> QED BY <3>1, <3>2
  <2> QED BY <2>1, <2>2, <2>3 DEF IInv
<1>5. CASE StoreHandler(t)
  <2>0. /\ slots' \in Seq(Handlers \cup {Garbage})
        /\ Len(slots') = nhandlers + 1
        /\ \A i \in 1 .. nhandlers : slots'[i] = slots[i]
        /\ slots'[nhandlers + 1] = pushed[t]
        /\ pushed[t] \in Handlers
        /\ nhandlers' = nhandlers + 1
        /\ nhandlers + 1 < SIZE_MAX
    <3>1. /\ Len(slots) = nhandlers + 1
          /\ pushed[t] \in Handlers
          /\ nhandlers + 1 < SIZE_MAX
      BY <1>0, <1>5 DEF StoreHandler, Goto, Table, Pushing
    <3>2. /\ slots' = [slots EXCEPT ![nhandlers + 1] = pushed[t]]
          /\ nhandlers' = nhandlers + 1
      BY <1>5 DEF StoreHandler
    <3> QED
      BY <1>0, <3>1, <3>2
  <2>1. DispatchTypeOK'
    BY <1>0, <1>5, <2>0 DEF DispatchTypeOK, StoreHandler, Goto, PCs, callVars
  <2>2. lock = t /\ \A u \in Threads : pc[u] \in Critical => u = t
    BY <1>0, <1>5 DEF StoreHandler, Goto, Locked, Critical
  <2>3. Locked'
    BY <1>0, <1>5, <2>2 DEF StoreHandler, Goto, Locked, Critical, DispatchTypeOK
  <2>4. Table'
    <3>1. \A i \in 1 .. nhandlers' : i \in DOMAIN slots' /\ slots'[i] \in Handlers
      BY <1>0, <2>0 DEF Table
    <3>2. \A u \in Threads : pc'[u] # "push_store"
      BY <1>0, <1>5, <2>2 DEF StoreHandler, Goto, DispatchTypeOK, Critical
    <3>3. \A u \in Threads : pc'[u] \in Pushing => pushed'[u] \in Handlers
      BY <1>0, <1>5 DEF StoreHandler, Goto, DispatchTypeOK, Pushing, Table
    <3> QED
      BY <1>0, <2>0, <3>1, <3>2, <3>3 DEF Table
  <2>5. ASSUME NEW u \in Threads PROVE CallOK(u)'
    <3>1. CASE u = t
      <4>1. pc[t] \in Pushing \cup {"idle"} /\ pc'[t] \in Pushing \cup {"idle"}
        BY <1>0, <1>5 DEF StoreHandler, Goto, Pushing, DispatchTypeOK
      <4> QED
        BY <1>0, <3>1, <4>1, NoFrames, EmptyCall
    <3>2. CASE u # t
      <4>1. /\ pc'[u] = pc[u] /\ nhandlers' \in Nat /\ nhandlers <= nhandlers'
            /\ \A i \in 1 .. nhandlers : slots'[i] = slots[i]
        BY <1>0, <1>5, <2>0, <3>2 DEF StoreHandler, Goto, DispatchTypeOK
      <4>2. /\ frames'[u] = frames[u] /\ request'[u] = request[u]
            /\ next_handler'[u] = next_handler[u]
        BY <1>0
      <4> QED
        BY <1>0, <4>1, <4>2, UntouchedCall
    <3> QED BY <3>1, <3>2
  <2> QED BY <2>1, <2>3, <2>4, <2>5 DEF IInv
<1> QED
  BY <1>1, <1>2, <1>3, <1>4, <1>5 DEF PushStep

(* The steps that dispatch a call, up to the choice of a handler.           *)
LEMMA DispatchIInv ==
  ASSUME IInv, NEW t \in Threads, BeginCall(t) \/ DispatchStep(t)
  PROVE  IInv'
<1> USE SizeMaxIsNat
<1> DEFINE F == frames[t]
           d == Depth(t)
<1>0. /\ DispatchTypeOK /\ Locked /\ Table
      /\ \A u \in Threads : CallOK(u)
      /\ nhandlers \in Nat
      /\ nhandlers' = nhandlers /\ slots' = slots /\ pushed' = pushed
      /\ F \in Seq(Frames) /\ d \in Nat /\ d = Len(F)
  BY DEF IInv, DispatchTypeOK, DispatchStep, BeginCall, NextLock, PickHandler,
         tableVars, Depth
<1>1. ASSUME NEW u \in Threads, u # t, pc'[u] = pc[u], frames'[u] = frames[u],
             request'[u] = request[u], next_handler'[u] = next_handler[u]
      PROVE  CallOK(u)'
  BY <1>0, <1>1, UntouchedCall
<1>2. CASE BeginCall(t)
  <2>1. DispatchTypeOK'
    <3>1. [reset |-> FALSE, cur |-> 0] \in Requests
      BY DEF Requests
    <3> QED
      BY <1>0, <1>2, <3>1, BoundsAreNat DEF DispatchTypeOK, BeginCall, Goto, PCs, Count, tableVars
  <2>2. Locked' /\ Table'
    BY <1>0, <1>2 DEF BeginCall, Goto, Locked, Critical, Table, Pushing,
                      DispatchTypeOK, tableVars
  <2>3. ASSUME NEW u \in Threads PROVE CallOK(u)'
    <3>1. CASE u = t
      <4>1. F = <<>> /\ frames' = frames
        BY <1>2, NoFrames DEF BeginCall, Goto
      <4>2. /\ pc'[t] = "next_lock" /\ next_handler'[t] = 0
            /\ request'[t] = [reset |-> FALSE, cur |-> 0]
        BY <1>0, <1>2 DEF BeginCall, Goto, DispatchTypeOK
      <4>3. Depth(t)' = 0 /\ \A i \in 1 .. Depth(t)' : FALSE
        BY <4>1 DEF Depth
      <4> QED
        BY <3>1, <4>2, <4>3 DEF CallOK, Pushing, Passing
    <3>2. CASE u # t
      <4>1. /\ pc'[u] = pc[u] /\ frames'[u] = frames[u]
            /\ request'[u] = request[u] /\ next_handler'[u] = next_handler[u]
        BY <1>0, <1>2, <3>2 DEF BeginCall, Goto, DispatchTypeOK
      <4> QED
        BY <1>1, <3>2, <4>1
    <3> QED BY <3>1, <3>2
  <2> QED BY <2>1, <2>2, <2>3 DEF IInv
<1>3. CASE NextLock(t)
  <2>0. frames' = frames /\ request' = request /\ next_handler' = next_handler
    BY <1>3 DEF NextLock, callVars
  <2>1. DispatchTypeOK'
    BY <1>0, <1>3 DEF DispatchTypeOK, NextLock, Goto, PCs, Acquire, tableVars, callVars
  <2>2. Locked' /\ Table'
    BY <1>0, <1>3, NoThreadIsNoThread DEF NextLock, Goto, Acquire, Locked,
       Critical, Table, Pushing, DispatchTypeOK, tableVars
  <2>3. ASSUME NEW u \in Threads PROVE CallOK(u)'
    <3>1. CASE u = t
      <4>1. pc[t] = "next_lock" /\ pc'[t] = "next_pick"
        BY <1>0, <1>3 DEF NextLock, Goto, DispatchTypeOK
      <4>2. Depth(t)' = Depth(t) /\ Top(t)' = Top(t)
        BY <2>0 DEF Depth, Top
      <4>3. \A i \in 1 .. Depth(t) : FrameOK(t, i)'
        BY <1>0, <2>0, <4>2 DEF CallOK, FrameOK
      <4> QED
        BY <1>0, <2>0, <3>1, <4>1, <4>2, <4>3 DEF CallOK, Pushing, Passing
    <3>2. CASE u # t
      <4>1. pc'[u] = pc[u]
        BY <1>0, <1>3, <3>2 DEF NextLock, Goto, DispatchTypeOK
      <4> QED
        BY <1>1, <2>0, <3>2, <4>1
    <3> QED BY <3>1, <3>2
  <2> QED BY <2>1, <2>2, <2>3 DEF IInv
<1>4. CASE PickHandler(t)
  <2> DEFINE f == [fn |-> Picked(t), reset |-> request[t].reset,
                   cur |-> request[t].cur, spent |-> FALSE, tries |-> 0]
  <2>1. /\ pc[t] = "next_pick" /\ pc'[t] = "handler"
        /\ next_handler[t] = d /\ request[t].cur = d
        /\ d > 0 => F[d].fn # Real
        /\ d > 0 /\ ~request[t].reset => F[d].spent
        /\ \A i \in 1 .. d : FrameOK(t, i)
    BY <1>0, <1>4 DEF PickHandler, Goto, CallOK, Passing, Top, DispatchTypeOK
  <2>2. \/ d < nhandlers /\ Picked(t) = slots[d + 1] /\ Picked(t) \in Handlers
           /\ Advanced(t) = d + 1
        \/ d >= nhandlers /\ Picked(t) = Real /\ Advanced(t) = SIZE_MAX
    BY <1>0, <2>1 DEF Picked, Advanced, Table
  <2>3. f \in Frames
    <3>1. request[t] \in Requests
      BY <1>0 DEF DispatchTypeOK
    <3> QED
      BY <2>2, <3>1, BoundsAreNat DEF Frames, Requests
  <2>4. /\ frames' = [frames EXCEPT ![t] = Append(F, f)]
        /\ frames'[t] = Append(F, f)
        /\ next_handler'[t] = Advanced(t)
    BY <1>0, <1>4 DEF PickHandler, DispatchTypeOK
  <2>5. /\ Append(F, f) \in Seq(Frames)
        /\ Depth(t)' = d + 1
        /\ \A i \in 1 .. d : frames'[t][i] = F[i]
        /\ frames'[t][d + 1] = f
    BY <1>0, <2>3, <2>4 DEF Depth
  <2>6. DispatchTypeOK'
    <3>1. Advanced(t) \in 0 .. SIZE_MAX
      BY <1>0, <2>2 DEF DispatchTypeOK
    <3> QED
      BY <1>0, <1>4, <2>4, <2>5, <3>1 DEF DispatchTypeOK, PickHandler, Goto, PCs, tableVars
  <2>7. Locked' /\ Table'
    BY <1>0, <1>4 DEF PickHandler, Goto, Locked, Critical, Table, Pushing, DispatchTypeOK
  <2>8. ASSUME NEW u \in Threads PROVE CallOK(u)'
    <3>1. CASE u = t
      <4>1. ASSUME NEW i \in 1 .. d PROVE FrameOK(t, i)'
        <5>1. FrameOK(t, i)
          BY <2>1
        <5>2. CASE i < d
          <6>1. frames'[t][i + 1] = F[i + 1]
            BY <2>5, <5>2, <1>0
          <6> QED
            BY <1>0, <2>5, <5>1, <5>2, <6>1 DEF FrameOK, Depth
        <5>3. CASE i = d
          BY <1>0, <2>1, <2>5, <5>1, <5>3 DEF FrameOK, Depth
        <5> QED BY <1>0, <5>2, <5>3
      <4>0. /\ frames'[t][d + 1].fn = Picked(t)
            /\ frames'[t][d + 1].reset = request[t].reset
            /\ frames'[t][d + 1].cur = request[t].cur
        BY <2>5
      <4>2. ASSUME NEW i \in 1 .. d + 1, i = d + 1 PROVE FrameOK(t, i)'
        BY <1>0, <2>1, <2>2, <2>5, <4>0, <4>2 DEF FrameOK
      <4>3. \A i \in 1 .. Depth(t)' : FrameOK(t, i)'
        <5>1. ASSUME NEW i \in 1 .. d + 1 PROVE FrameOK(t, i)'
          <6>1. i \in 1 .. d \/ i = d + 1
            BY <1>0
          <6> QED
            BY <4>1, <4>2, <6>1
        <5> QED
          BY <2>5, <5>1
      <4>4. MayInvoke(Top(t))' => next_handler'[t] = d + 1
        <5>1. Top(t)' = frames'[t][d + 1]
          BY <2>5 DEF Top
        <5> QED
          BY <2>2, <2>4, <4>0, <5>1 DEF MayInvoke
      <4> QED
        BY <1>0, <2>1, <2>5, <3>1, <4>3, <4>4 DEF CallOK, Pushing, Passing
    <3>2. CASE u # t
      <4>1. /\ pc'[u] = pc[u] /\ frames'[u] = frames[u]
            /\ request'[u] = request[u] /\ next_handler'[u] = next_handler[u]
        BY <1>0, <1>4, <3>2 DEF PickHandler, Goto, DispatchTypeOK
      <4> QED
        BY <1>1, <3>2, <4>1
    <3> QED BY <3>1, <3>2
  <2> QED BY <2>6, <2>7, <2>8 DEF IInv
<1> QED
  BY <1>2, <1>3, <1>4 DEF DispatchStep

(* The steps of a handler: it passes the call on, or returns.               *)
LEMMA HandlerIInv ==
  ASSUME IInv, NEW t \in Threads, HandlerStep(t)
  PROVE  IInv'
<1> USE SizeMaxIsNat
<1> DEFINE F == frames[t]
           d == Depth(t)
<1>0. /\ DispatchTypeOK /\ Locked /\ Table
      /\ \A u \in Threads : CallOK(u)
      /\ nhandlers \in Nat
      /\ UNCHANGED <<nhandlers, slots, pushed, lock, calls>>
      /\ pc[t] = "handler"
      /\ F \in Seq(Frames) /\ d \in Nat /\ d = Len(F)
  <2>1. DispatchTypeOK /\ Locked /\ Table /\ \A u \in Threads : CallOK(u)
    BY DEF IInv
  <2>2. nhandlers \in Nat /\ F \in Seq(Frames)
    BY <2>1 DEF DispatchTypeOK
  <2>3. UNCHANGED <<nhandlers, slots, pushed, lock, calls>> /\ pc[t] = "handler"
    BY DEF HandlerStep, Invoke, HandlerReturns, tableVars, Goto
  <2> QED
    BY <2>1, <2>2, <2>3 DEF Depth
<1>1. ASSUME NEW u \in Threads, u # t, pc'[u] = pc[u], frames'[u] = frames[u],
             request'[u] = request[u], next_handler'[u] = next_handler[u]
      PROVE  CallOK(u)'
  BY <1>0, <1>1, UntouchedCall
<1>2. /\ pc[t] = "handler" /\ d > 0
      /\ MayInvoke(F[d]) => next_handler[t] = d
      /\ \A i \in 1 .. d : FrameOK(t, i)
      /\ \A i \in 1 .. d : F[i] \in Frames
  <2>1. \A i \in 1 .. d : F[i] \in Frames
    BY <1>0
  <2> QED
    BY <1>0, <2>1 DEF CallOK, Top
<1>3. d \in Nat \ {0} /\ d \in 1 .. d
  BY <1>0, <1>2
<1>4. ASSUME NEW reset \in BOOLEAN, Invoke(t, reset) PROVE IInv'
  <2> DEFINE g == Passed(F[d], reset)
  <2>1. /\ MayInvoke(F[d]) /\ (reset => F[d].tries < MaxTries)
        /\ frames' = [frames EXCEPT ![t] = [F EXCEPT ![d] = g]]
        /\ pc' = [pc EXCEPT ![t] = "next_lock"]
        /\ request' = [request EXCEPT ![t] =
                         [reset |-> reset, cur |-> next_handler[t]]]
        /\ next_handler' = next_handler
    BY <1>4 DEF Invoke, Goto, Top
  <2>2. /\ g \in Frames /\ g.fn = F[d].fn /\ g.reset = F[d].reset
        /\ g.cur = F[d].cur /\ g.spent = ~reset
    <3>1. F[d] \in Frames
      BY <1>2, <1>3
    <3>2. F[d].tries \in 0 .. MaxTries
      BY <3>1 DEF Frames
    <3>3. reset => F[d].tries + 1 \in 0 .. MaxTries
      BY <2>1, <3>2, BoundsAreNat
    <3> QED
      BY <3>1, <3>3 DEF Frames, Passed
  <2>3. /\ frames'[t] \in Seq(Frames)
        /\ frames'[t] = [F EXCEPT ![d] = g]
        /\ Depth(t)' = d
        /\ \A i \in 1 .. d : i # d => frames'[t][i] = F[i]
        /\ frames'[t][d] = g
    <3>1. frames'[t] = [F EXCEPT ![d] = g]
      BY <1>0, <2>1 DEF DispatchTypeOK
    <3>2. /\ [F EXCEPT ![d] = g] \in Seq(Frames)
          /\ Len([F EXCEPT ![d] = g]) = d
          /\ \A i \in 1 .. d : [F EXCEPT ![d] = g][i] = IF i = d THEN g ELSE F[i]
      BY <1>0, <1>3, <2>2, ExceptSeq
    <3> HIDE DEF g
    <3> QED
      BY <1>3, <3>1, <3>2 DEF Depth
  <2>4. request'[t] \in Requests /\ request'[t].reset = reset
        /\ request'[t].cur = d /\ next_handler'[t] = d /\ pc'[t] = "next_lock"
    BY <1>0, <1>2, <2>1 DEF DispatchTypeOK, Requests
  <2>5. DispatchTypeOK'
    <3>1. frames' \in [Threads -> Seq(Frames)]
      BY <1>0, <2>1, <2>3 DEF DispatchTypeOK
    <3>2. request' \in [Threads -> Requests]
      BY <1>0, <2>1, <2>4 DEF DispatchTypeOK
    <3>3. pc' \in [Threads -> PCs] /\ next_handler' \in [Threads -> 0 .. SIZE_MAX]
      BY <1>0, <2>1 DEF DispatchTypeOK, PCs
    <3> QED
      BY <1>0, <3>1, <3>2, <3>3 DEF DispatchTypeOK
  <2>6. Locked' /\ Table'
    BY <1>0, <2>1 DEF Locked, Critical, Table, Pushing, DispatchTypeOK
  <2>7. ASSUME NEW u \in Threads PROVE CallOK(u)'
    <3>1. CASE u = t
      <4>1. ASSUME NEW i \in 1 .. d PROVE FrameOK(t, i)'
        <5>1. FrameOK(t, i)
          BY <1>2
        <5>2. CASE i = d
          BY <1>0, <2>2, <2>3, <5>1, <5>2 DEF FrameOK, Depth
        <5>3. CASE i < d
          <6>1. frames'[t][i + 1].reset = F[i + 1].reset
            BY <1>0, <2>2, <2>3, <5>3
          <6> QED
            BY <1>0, <2>3, <5>1, <5>3, <6>1 DEF FrameOK, Depth
        <5> QED BY <1>0, <5>2, <5>3
      <4>2. Top(t)' = g
        BY <2>3 DEF Top
      <4>3. g.fn # Real /\ (~request'[t].reset => g.spent)
        BY <2>1, <2>2, <2>4 DEF MayInvoke
      <4> QED
        BY <1>0, <1>2, <2>3, <2>4, <3>1, <4>1, <4>2, <4>3 DEF CallOK, Pushing, Passing
    <3>2. CASE u # t
      <4>1. /\ pc'[u] = pc[u] /\ frames'[u] = frames[u]
            /\ request'[u] = request[u] /\ next_handler'[u] = next_handler[u]
        BY <1>0, <2>1, <3>2 DEF DispatchTypeOK
      <4> QED
        BY <1>1, <3>2, <4>1
    <3> QED BY <3>1, <3>2
  <2> QED BY <2>5, <2>6, <2>7 DEF IInv
<1>5. ASSUME NEW success \in BOOLEAN, HandlerReturns(t, success) PROVE IInv'
  <2> DEFINE c == CursorAfter(t, success)
             next == IF d = 1 THEN "idle" ELSE "handler"
  <2>1. /\ frames' = [frames EXCEPT ![t] = SubSeq(F, 1, d - 1)]
        /\ pc' = [pc EXCEPT ![t] = next]
        /\ request' = request
        /\ next_handler' = [next_handler EXCEPT ![t] = c]
    BY <1>0, <1>5 DEF HandlerReturns, Goto
  <2>2. /\ frames'[t] \in Seq(Frames)
        /\ Depth(t)' = d - 1
        /\ \A i \in 1 .. d - 1 : frames'[t][i] = F[i]
    <3>1. /\ SubSeq(F, 1, d - 1) \in Seq(Frames)
          /\ Len(SubSeq(F, 1, d - 1)) = d - 1
          /\ \A i \in 1 .. d - 1 : SubSeq(F, 1, d - 1)[i] = F[i]
      <4>1. \A i \in 1 .. d - 1 : F[i] \in Frames
        BY <1>0, <1>2
      <4> QED
        BY <1>3, <4>1, SubSeqProperties
    <3>2. frames'[t] = SubSeq(F, 1, d - 1)
      BY <1>0, <2>1 DEF DispatchTypeOK
    <3> QED
      BY <3>1, <3>2 DEF Depth
  <2>3. c \in 0 .. SIZE_MAX /\ (F[d].reset => c = d - 1)
    <3>1. FrameOK(t, d) /\ F[d] \in Frames
      BY <1>2, <1>3
    <3>2. F[d].reset => F[d].cur = d - 1
      BY <3>1 DEF FrameOK
    <3>3. F[d].cur \in 0 .. SIZE_MAX /\ next_handler[t] \in 0 .. SIZE_MAX
      BY <1>0, <3>1 DEF Frames, DispatchTypeOK
    <3> QED
      BY <3>2, <3>3 DEF CursorAfter, Top
  <2>4. next_handler'[t] = c /\ pc'[t] = next
    BY <1>0, <2>1 DEF DispatchTypeOK
  <2>5. DispatchTypeOK'
    <3>1. frames' \in [Threads -> Seq(Frames)]
      BY <1>0, <2>1, <2>2 DEF DispatchTypeOK
    <3>2. next_handler' \in [Threads -> 0 .. SIZE_MAX]
      BY <1>0, <2>1, <2>3 DEF DispatchTypeOK
    <3>3. pc' \in [Threads -> PCs]
      BY <1>0, <2>1 DEF DispatchTypeOK, PCs
    <3> QED
      BY <1>0, <2>1, <3>1, <3>2, <3>3 DEF DispatchTypeOK
  <2>6. Locked' /\ Table'
    BY <1>0, <2>1 DEF Locked, Critical, Table, Pushing, DispatchTypeOK
  <2>7. ASSUME NEW u \in Threads PROVE CallOK(u)'
    <3>1. CASE u = t
      <4>1. ASSUME NEW i \in 1 .. d - 1 PROVE FrameOK(t, i)'
        <5>1. FrameOK(t, i)
          BY <1>0, <1>2
        <5>2. i < d - 1 => frames'[t][i + 1] = F[i + 1]
          BY <1>0, <2>2
        <5>3. /\ frames'[t][i] = F[i] /\ Depth(t)' = d - 1
              /\ i < d - 1 => i < d
              /\ nhandlers' = nhandlers /\ slots' = slots
          BY <1>0, <2>2
        <5>4. /\ i < d => F[i].fn # Real
              /\ F[i].fn # Real => i <= nhandlers /\ F[i].fn = slots[i]
              /\ F[i].reset => F[i].cur = i - 1
              /\ i < d /\ ~F[i + 1].reset => F[i].spent
          BY <5>1 DEF FrameOK
        <5> QED
          BY <5>2, <5>3, <5>4 DEF FrameOK
      <4>2. CASE d = 1
        <5>1. frames'[t] = <<>>
          BY <1>0, <2>2, <4>2 DEF Depth
        <5> QED
          BY <2>4, <3>1, <4>2, <5>1, EmptyCall
      <4>3. CASE d > 1
        <5>1. Top(t)' = F[d - 1]
          BY <1>0, <2>2, <4>3 DEF Top
        <5>2. MayInvoke(F[d - 1]) => next_handler'[t] = d - 1
          <6>1. FrameOK(t, d - 1)
            BY <1>0, <1>2, <4>3
          <6> QED
            BY <1>0, <2>3, <2>4, <4>3, <6>1 DEF FrameOK, MayInvoke
        <5> QED
          <6>1. pc'[t] = "handler" /\ Depth(t)' > 0
            BY <1>3, <2>2, <2>4, <4>3
          <6>2. MayInvoke(Top(t))' => next_handler'[t] = Depth(t)'
            BY <2>2, <5>1, <5>2 DEF MayInvoke
          <6>3. \A i \in 1 .. Depth(t)' : FrameOK(t, i)'
            BY <2>2, <4>1
          <6> QED
            BY <3>1, <6>1, <6>2, <6>3 DEF CallOK, Pushing, Passing
      <4>4. d = 1 \/ d > 1
        BY <1>3
      <4> QED BY <4>2, <4>3, <4>4
    <3>2. CASE u # t
      <4>1. /\ pc'[u] = pc[u] /\ frames'[u] = frames[u]
            /\ request'[u] = request[u] /\ next_handler'[u] = next_handler[u]
        BY <1>0, <2>1, <3>2 DEF DispatchTypeOK
      <4> QED
        BY <1>1, <3>2, <4>1
    <3> QED BY <3>1, <3>2
  <2> QED BY <2>5, <2>6, <2>7 DEF IInv
<1> QED
  BY <1>4, <1>5 DEF HandlerStep

(* Every step of every thread preserves the inductive invariant.            *)
LEMMA NextIInv == IInv /\ [DispatchNext]_dispatch_vars => IInv'
<1> SUFFICES ASSUME IInv, [DispatchNext]_dispatch_vars PROVE IInv'
  OBVIOUS
<1>1. CASE DispatchNext
  BY <1>1, PushIInv, DispatchIInv, HandlerIInv DEF DispatchNext
<1>2. CASE UNCHANGED dispatch_vars
  BY <1>2 DEF dispatch_vars, tableVars, callVars, IInv, DispatchTypeOK, Locked, Table, CallOK, FrameOK, Depth,
              Top
<1> QED
  BY <1>1, <1>2

(* The inductive invariant holds in every reachable state.                  *)
THEOREM IInvHolds == DispatchSpec => []IInv
  BY InitIInv, NextIInv, PTL DEF DispatchSpec

(* Every variable keeps its type, whatever the bounds.                      *)
THEOREM TypeCorrect == DispatchSpec => []DispatchTypeOK
  BY IInvHolds, PTL DEF IInv

(* The dispatch never reads a slot that push_handler has not filled.        *)
THEOREM TableCorrect == DispatchSpec => []TableIsFilled
<1>1. IInv => TableIsFilled
  BY DEF IInv, Table, TableIsFilled
<1> QED
  BY <1>1, IInvHolds, PTL

(* assert(irp->next_handler <= nhandlers) never fails.                      *)
THEOREM CursorCorrect == DispatchSpec => []CursorIsInTable
<1>1. IInv => CursorIsInTable
  <2> SUFFICES ASSUME IInv, NEW t \in Threads, pc[t] = "next_pick"
               PROVE  next_handler[t] <= nhandlers
    BY DEF CursorIsInTable
  <2>1. /\ CallOK(t)
        /\ next_handler[t] = Depth(t)
        /\ Depth(t) > 0 => Top(t).fn # Real
    BY DEF IInv, CallOK, Passing
  <2>2. Depth(t) \in Nat /\ nhandlers \in Nat
    BY SizeMaxIsNat DEF IInv, DispatchTypeOK, Depth
  <2>3. CASE Depth(t) = 0
    BY <2>1, <2>2, <2>3
  <2>4. CASE Depth(t) > 0
    <3>1. FrameOK(t, Depth(t))
      BY <2>1, <2>2, <2>4 DEF CallOK
    <3> QED
      BY <2>1, <3>1, <2>4 DEF FrameOK, Top
  <2> QED
    BY <2>2, <2>3, <2>4
<1> QED
  BY <1>1, IInvHolds, PTL

(* A call visits the handlers in push order, none skipped, none twice.      *)
THEOREM VisitsCorrect == DispatchSpec => []VisitsInOrder
<1>1. IInv => VisitsInOrder
  <2> SUFFICES ASSUME IInv, NEW t \in Threads, NEW i \in 1 .. Depth(t)
               PROVE  \/ i <= nhandlers /\ frames[t][i].fn = slots[i]
                      \/ i = Depth(t) /\ frames[t][i].fn = Real
    BY DEF VisitsInOrder
  <2>1. FrameOK(t, i) /\ Depth(t) \in Nat
    BY DEF IInv, CallOK, DispatchTypeOK, Depth
  <2> QED
    BY <2>1 DEF FrameOK
<1> QED
  BY <1>1, IInvHolds, PTL

-----------------------------------------------------------------------------
(* The refinement: pushing a handler registers it, picking one descends, a   *)
(* return returns, and every other step leaves the chain and the stacks.     *)

chainOf == [i \in 1 .. nhandlers |-> slots[i]]
stackOf == [t \in Threads |-> [i \in 1 .. Depth(t) |-> frames[t][i].fn]]

Sequences ==
  /\ nhandlers \in Nat /\ chainOf \in Seq(Handlers) /\ Len(chainOf) = nhandlers
  /\ \A t \in Threads :
       /\ frames[t] \in Seq(Frames) /\ Depth(t) \in Nat
       /\ stackOf[t] \in Seq(Handlers \cup {Real})
       /\ Len(stackOf[t]) = Depth(t)
       /\ \A i \in 1 .. Depth(t) : stackOf[t][i] = frames[t][i].fn

(* The chain and the stacks that the table and the frames stand for are      *)
(* sequences of functions.                                                   *)
LEMMA ChainAndStacks == IInv => Sequences
<1> SUFFICES ASSUME IInv PROVE Sequences
  OBVIOUS
<1>1. nhandlers \in Nat
  BY SizeMaxIsNat DEF IInv, DispatchTypeOK
<1>2. \A i \in 1 .. nhandlers : slots[i] \in Handlers
  BY DEF IInv, Table
<1>3. ASSUME NEW t \in Threads
      PROVE  /\ frames[t] \in Seq(Frames) /\ Depth(t) \in Nat
             /\ \A i \in 1 .. Depth(t) : frames[t][i].fn \in Handlers \cup {Real}
  <2>1. frames[t] \in Seq(Frames)
    BY DEF IInv, DispatchTypeOK
  <2>2. Depth(t) \in Nat /\ \A i \in 1 .. Depth(t) : frames[t][i] \in Frames
    BY <2>1 DEF Depth
  <2>3. \A f \in Frames : f.fn \in Handlers \cup {Real}
    BY DEF Frames
  <2> QED
    BY <2>1, <2>2, <2>3
<1>4. chainOf \in Seq(Handlers) /\ Len(chainOf) = nhandlers
  BY <1>1, <1>2 DEF chainOf
<1>5. ASSUME NEW t \in Threads
      PROVE  /\ stackOf[t] \in Seq(Handlers \cup {Real})
             /\ Len(stackOf[t]) = Depth(t)
             /\ \A i \in 1 .. Depth(t) : stackOf[t][i] = frames[t][i].fn
  <2>1. stackOf[t] = [i \in 1 .. Depth(t) |-> frames[t][i].fn]
    BY DEF stackOf
  <2>2. stackOf[t] \in [1 .. Depth(t) -> Handlers \cup {Real}]
    BY <1>3, <2>1
  <2>3. stackOf[t] \in Seq(Handlers \cup {Real})
    <3>1. Seq(Handlers \cup {Real}) = UNION {[1 .. n -> Handlers \cup {Real}] : n \in Nat}
      BY SeqDef
    <3>2. [1 .. Depth(t) -> Handlers \cup {Real}] \in
            {[1 .. n -> Handlers \cup {Real}] : n \in Nat}
      BY <1>3
    <3> QED
      BY ONLY <2>2, <3>1, <3>2, Zenon
  <2>4. Len(stackOf[t]) = Depth(t)
    <3>1. DOMAIN stackOf[t] = 1 .. Depth(t)
      BY <2>2
    <3> QED
      BY <1>3, <2>3, <3>1, LenProperties
  <2> QED
    BY <2>1, <2>3, <2>4
<1> QED
  BY <1>1, <1>3, <1>4, <1>5 DEF Sequences

(* So they are after a step.                                                *)
LEMMA ChainAndStacksNext == IInv' => Sequences'
  BY ChainAndStacks, PTL

(* The initial states map to initial states.                                *)
LEMMA InitRefines == DispatchInit => Chain!Init
  BY DEF DispatchInit, Chain!Init, Depth

(* A step that leaves the table and the functions of the frames alone       *)
(* stutters.                                                                *)
LEMMA Stutters ==
  ASSUME nhandlers' = nhandlers,
         \A i \in 1 .. nhandlers : slots'[i] = slots[i],
         \A t \in Threads : Depth(t)' = Depth(t),
         \A t \in Threads : \A i \in 1 .. Depth(t) : frames'[t][i].fn = frames[t][i].fn
  PROVE  UNCHANGED <<chainOf, stackOf>>
<1>1. chainOf' = chainOf
  BY DEF chainOf
<1>2. ASSUME NEW t \in Threads PROVE stackOf'[t] = stackOf[t]
  BY DEF stackOf
<1>3. stackOf' = stackOf
  <2>1. stackOf = [t \in Threads |-> stackOf[t]] /\ stackOf' = [t \in Threads |-> stackOf'[t]]
    BY DEF stackOf
  <2> QED
    BY <1>2, <2>1
<1> QED
  BY <1>1, <1>3

(* Every step maps to a step of the chain or to a stutter.                  *)
LEMMA NextRefines ==
  ASSUME IInv, IInv', [DispatchNext]_dispatch_vars
  PROVE  [Chain!Next]_<<chainOf, stackOf>>
<1> DEFINE Goal == [Chain!Next]_<<chainOf, stackOf>>
<1>0. /\ chainOf \in Seq(Handlers) /\ chainOf' \in Seq(Handlers)
      /\ Len(chainOf) = nhandlers /\ Len(chainOf)' = nhandlers'
      /\ nhandlers \in Nat
      /\ \A u \in Threads :
           /\ stackOf[u] \in Seq(Handlers \cup {Real})
           /\ stackOf'[u] \in Seq(Handlers \cup {Real})
           /\ Len(stackOf[u]) = Depth(u) /\ Len(stackOf'[u]) = Depth(u)'
           /\ frames[u] \in Seq(Frames) /\ Depth(u) = Len(frames[u]) /\ Depth(u) \in Nat
           /\ \A i \in 1 .. Depth(u) : stackOf[u][i] = frames[u][i].fn
           /\ \A i \in 1 .. Depth(u)' : stackOf'[u][i] = frames'[u][i].fn
  BY ChainAndStacks, ChainAndStacksNext DEF Sequences, Depth
<1>1. ASSUME NEW t \in Threads, StoreHandler(t) PROVE Chain!Next
  <2>1. /\ nhandlers' = nhandlers + 1 /\ frames' = frames
        /\ slots' = [slots EXCEPT ![nhandlers + 1] = pushed[t]]
        /\ pushed[t] \in Handlers /\ Len(slots) = nhandlers + 1
        /\ slots \in Seq(Handlers \cup {Garbage})
    BY <1>1 DEF StoreHandler, Goto, callVars, IInv, Table, DispatchTypeOK, Pushing
  <2>2. /\ \A i \in 1 .. nhandlers : slots'[i] = slots[i]
        /\ slots'[nhandlers + 1] = pushed[t]
    BY <1>0, <2>1
  <2>3. chainOf' = Append(chainOf, pushed[t])
    <3>1. /\ Append(chainOf, pushed[t]) \in Seq(Handlers)
          /\ Len(Append(chainOf, pushed[t])) = nhandlers + 1
          /\ \A i \in 1 .. nhandlers : Append(chainOf, pushed[t])[i] = chainOf[i]
          /\ Append(chainOf, pushed[t])[nhandlers + 1] = pushed[t]
      BY <1>0, <2>1
    <3>2. /\ Len(chainOf') = nhandlers + 1
          /\ \A i \in 1 .. nhandlers : chainOf'[i] = slots[i] /\ chainOf[i] = slots[i]
          /\ chainOf'[nhandlers + 1] = pushed[t]
      BY <1>0, <2>1, <2>2 DEF chainOf
    <3>3. \A i \in 1 .. nhandlers + 1 : chainOf'[i] = Append(chainOf, pushed[t])[i]
      <4> TAKE i \in 1 .. nhandlers + 1
      <4>1. i \in 1 .. nhandlers \/ i = nhandlers + 1
        BY <1>0
      <4> QED
        BY <3>1, <3>2, <4>1
    <3> QED
      BY <1>0, <3>1, <3>2, <3>3, SeqEqual
  <2>4. stackOf' = stackOf
    BY <2>1 DEF stackOf, Depth
  <2>5. PICK h \in Handlers : h = pushed[t]
    BY <2>1
  <2>6. Chain!Register(h)
    BY <2>3, <2>4, <2>5 DEF Chain!Register, chainOf, stackOf
  <2> QED
    BY <2>6 DEF Chain!Next
<1>2. ASSUME NEW t \in Threads, PickHandler(t) PROVE Chain!Next
  <2>1. /\ nhandlers' = nhandlers /\ slots' = slots
        /\ frames' = [frames EXCEPT ![t] = Append(@,
             [fn |-> Picked(t), reset |-> request[t].reset,
              cur |-> request[t].cur, spent |-> FALSE, tries |-> 0])]
        /\ pc[t] = "next_pick"
    BY <1>2 DEF PickHandler, tableVars, Goto
  <2>2. /\ next_handler[t] = Depth(t)
        /\ Depth(t) > 0 => frames[t][Depth(t)].fn # Real
    BY <2>1 DEF IInv, CallOK, Passing, Top
  <2>3. Picked(t) = IF Len(stackOf[t]) < Len(chainOf)
                    THEN chainOf[Len(stackOf[t]) + 1] ELSE Real
    BY <1>0, <2>2 DEF Picked, chainOf
  <2>4. /\ Depth(t)' = Depth(t) + 1
        /\ \A i \in 1 .. Depth(t) : frames'[t][i] = frames[t][i]
        /\ frames'[t][Depth(t) + 1].fn = Picked(t)
        /\ \A u \in Threads : u # t => frames'[u] = frames[u]
    BY <1>0, <2>1 DEF Depth, IInv, DispatchTypeOK
  <2>5. chainOf' = chainOf
    BY <2>1 DEF chainOf
  <2>6. stackOf'[t] = Append(stackOf[t], Picked(t))
    <3>1. Picked(t) \in Handlers \cup {Real}
      BY <1>0, <2>2, <2>3
    <3>2. /\ Append(stackOf[t], Picked(t)) \in Seq(Handlers \cup {Real})
          /\ Len(Append(stackOf[t], Picked(t))) = Depth(t) + 1
          /\ \A i \in 1 .. Depth(t) : Append(stackOf[t], Picked(t))[i] = stackOf[t][i]
          /\ Append(stackOf[t], Picked(t))[Depth(t) + 1] = Picked(t)
      BY <1>0, <3>1
    <3>3. ASSUME NEW i \in 1 .. Depth(t) + 1
          PROVE  stackOf'[t][i] = Append(stackOf[t], Picked(t))[i]
      <4>1. i \in 1 .. Depth(t) \/ i = Depth(t) + 1
        BY <1>0
      <4>2. stackOf'[t][i] = frames'[t][i].fn
        BY <1>0, <2>4
      <4> QED
        BY <1>0, <2>4, <3>2, <4>1, <4>2
    <3>4. /\ stackOf'[t] \in Seq(Handlers \cup {Real})
          /\ Len(stackOf'[t]) = Depth(t) + 1
      BY <1>0, <2>4
    <3> QED
      BY <3>2, <3>3, <3>4, SeqEqual
  <2>7. stackOf' = [stackOf EXCEPT ![t] = Append(@, Picked(t))]
    <3>1. ASSUME NEW u \in Threads, u # t PROVE stackOf'[u] = stackOf[u]
      BY <2>4, <3>1 DEF stackOf, Depth
    <3> QED
      BY <2>6, <3>1 DEF stackOf
  <2>8. stackOf[t] # <<>> => stackOf[t][Len(stackOf[t])] # Real
    BY <1>0, <2>2
  <2>9. Chain!Descend(t)
    BY <2>3, <2>5, <2>7, <2>8 DEF Chain!Descend, Chain!After, chainOf, stackOf
  <2> QED
    BY <2>9 DEF Chain!Next
<1>3. ASSUME NEW t \in Threads, NEW success \in BOOLEAN, HandlerReturns(t, success)
      PROVE  Chain!Next
  <2>1. /\ nhandlers' = nhandlers /\ slots' = slots
        /\ frames' = [frames EXCEPT ![t] = SubSeq(@, 1, Len(@) - 1)]
        /\ pc[t] = "handler"
    BY <1>3 DEF HandlerReturns, tableVars, Goto
  <2>2. Depth(t) \in Nat \ {0}
    BY <1>0, <2>1 DEF IInv, CallOK
  <2>3. chainOf' = chainOf
    BY <2>1 DEF chainOf
  <2>4. /\ frames'[t] = SubSeq(frames[t], 1, Depth(t) - 1)
        /\ \A u \in Threads : u # t => frames'[u] = frames[u]
    BY <1>0, <2>1 DEF IInv, DispatchTypeOK
  <2>5. /\ Depth(t)' = Depth(t) - 1
        /\ \A i \in 1 .. Depth(t) - 1 : frames'[t][i] = frames[t][i]
    <3>1. \A i \in 1 .. Depth(t) - 1 : frames[t][i] \in Frames
      BY <1>0
    <3> QED
      BY <2>2, <2>4, <3>1, SubSeqProperties DEF Depth
  <2>6. stackOf'[t] = SubSeq(stackOf[t], 1, Depth(t) - 1)
    <3>1. \A i \in 1 .. Depth(t) - 1 : stackOf[t][i] \in Handlers \cup {Real}
      BY <1>0
    <3>2. /\ SubSeq(stackOf[t], 1, Depth(t) - 1) \in Seq(Handlers \cup {Real})
          /\ Len(SubSeq(stackOf[t], 1, Depth(t) - 1)) = Depth(t) - 1
          /\ \A i \in 1 .. Depth(t) - 1 :
               SubSeq(stackOf[t], 1, Depth(t) - 1)[i] = stackOf[t][i]
      BY <2>2, <3>1, SubSeqProperties
    <3>3. ASSUME NEW i \in 1 .. Depth(t) - 1
          PROVE  stackOf'[t][i] = SubSeq(stackOf[t], 1, Depth(t) - 1)[i]
      <4>1. stackOf'[t][i] = frames'[t][i].fn /\ stackOf[t][i] = frames[t][i].fn
        <5>1. i \in 1 .. Depth(t) /\ i \in 1 .. Depth(t)'
          BY <2>2, <2>5
        <5> QED
          BY <1>0, <5>1
      <4> QED
        BY <2>5, <3>2, <4>1
    <3>4. /\ stackOf'[t] \in Seq(Handlers \cup {Real})
          /\ Len(stackOf'[t]) = Depth(t) - 1
      BY <1>0, <2>5
    <3> QED
      BY <3>2, <3>3, <3>4, SeqEqual
  <2>7. stackOf' = [stackOf EXCEPT ![t] = SubSeq(@, 1, Len(@) - 1)]
    <3>1. ASSUME NEW u \in Threads, u # t PROVE stackOf'[u] = stackOf[u]
      BY <2>4, <3>1 DEF stackOf, Depth
    <3> QED
      BY <1>0, <2>6, <3>1 DEF stackOf
  <2>8. stackOf[t] # <<>>
    BY <1>0, <2>2
  <2>9. Chain!Return(t)
    BY <2>3, <2>7, <2>8 DEF Chain!Return, chainOf, stackOf
  <2> QED
    BY <2>9 DEF Chain!Next
<1>4. ASSUME NEW t \in Threads, NEW reset \in BOOLEAN, Invoke(t, reset)
      PROVE  UNCHANGED <<chainOf, stackOf>>
  <2>1. /\ nhandlers' = nhandlers /\ slots' = slots
        /\ frames' = [frames EXCEPT ![t] =
                        [@ EXCEPT ![Depth(t)] = Passed(Top(t), reset)]]
        /\ pc[t] = "handler"
    BY <1>4 DEF Invoke, tableVars, Goto
  <2>2. Depth(t) > 0
    BY <2>1 DEF IInv, CallOK
  <2>3. Passed(Top(t), reset).fn = Top(t).fn
    <3>1. Top(t) \in Frames
      BY <1>0, <2>2 DEF Top
    <3> QED
      BY <3>1 DEF Passed, Frames
  <2>4. ASSUME NEW u \in Threads
        PROVE  /\ Depth(u)' = Depth(u)
               /\ \A i \in 1 .. Depth(u) : frames'[u][i].fn = frames[u][i].fn
    <3>1. CASE u = t
      <4>1. frames'[t] = [frames[t] EXCEPT ![Depth(t)] = Passed(Top(t), reset)]
        BY <2>1 DEF IInv, DispatchTypeOK
      <4>2. /\ DOMAIN frames'[t] = DOMAIN frames[t]
            /\ \A i \in 1 .. Depth(t) : frames'[t][i] =
                 IF i = Depth(t) THEN Passed(Top(t), reset) ELSE frames[t][i]
        BY <1>0, <4>1
      <4>3. Len(frames'[t]) = Len(frames[t])
        <5>1. frames'[t] \in Seq(Frames)
          BY DEF IInv, DispatchTypeOK
        <5> QED
          BY <1>0, <4>2, <5>1, LenProperties
      <4>4. \A i \in 1 .. Depth(t) : frames'[t][i].fn = frames[t][i].fn
        BY <2>3, <4>2 DEF Top
      <4> QED
        BY <3>1, <4>3, <4>4 DEF Depth
    <3>2. CASE u # t
      BY <2>1, <3>2 DEF Depth, IInv, DispatchTypeOK
    <3> QED BY <3>1, <3>2
  <2> QED
    BY <2>1, <2>4, Stutters
<1>5. ASSUME NEW t \in Threads, GrowTable(t) PROVE UNCHANGED <<chainOf, stackOf>>
  <2>1. /\ nhandlers' = nhandlers /\ frames' = frames /\ slots' = Resized
    BY <1>5 DEF GrowTable, callVars
  <2>2. \A i \in 1 .. nhandlers : slots'[i] = slots[i]
    BY <1>0, <2>1 DEF Resized, IInv, Table
  <2> QED
    BY <2>1, <2>2, Stutters DEF Depth
<1>6. ASSUME UNCHANGED <<tableVars, frames>> PROVE UNCHANGED <<chainOf, stackOf>>
  BY <1>6 DEF chainOf, stackOf, Depth, tableVars
<1>7. CASE UNCHANGED dispatch_vars
  BY <1>6, <1>7 DEF dispatch_vars, tableVars
<1>8. ASSUME NEW t \in Threads,
             \/ \E h \in Handlers : BeginPush(t, h)
             \/ BeginCall(t) \/ PushLock(t) \/ GrowFails(t) \/ NextLock(t)
      PROVE  UNCHANGED <<chainOf, stackOf>>
  BY <1>6, <1>8 DEF BeginPush, BeginCall, PushLock, GrowFails, NextLock,
                    callVars
<1> QED
  <2>1. CASE DispatchNext
    <3>1. PICK t \in Threads : \/ \E h \in Handlers : BeginPush(t, h)
                               \/ BeginCall(t)
                               \/ PushStep(t)
                               \/ DispatchStep(t)
                               \/ HandlerStep(t)
      BY <2>1 DEF DispatchNext
    <3> QED
      BY <3>1, <1>1, <1>2, <1>3, <1>4, <1>5, <1>8
         DEF PushStep, DispatchStep, HandlerStep
  <2> QED
    BY <1>7, <2>1

(* The hook module implements the chain of handlers: the mutex, the table,  *)
(* the cursor and its sentinel are invisible to handlers and callers.       *)
THEOREM ChainRefinement == DispatchSpec => ImplementsChain
<1>1. DispatchInit => Chain!Init
  BY InitRefines
<1>2. IInv /\ IInv' /\ [DispatchNext]_dispatch_vars => [Chain!Next]_(Chain!vars)
  BY NextRefines DEF Chain!vars, chainOf, stackOf
<1> QED
  BY <1>1, <1>2, IInvHolds, PTL DEF DispatchSpec, ImplementsChain, Chain!Spec

(* No push moves, drops or overwrites a handler that was pushed before.     *)
THEOREM PushedHandlersStay == DispatchSpec => PushedStays
<1> DEFINE A == /\ nhandlers' >= nhandlers
                /\ \A i \in 1 .. nhandlers : i \in DOMAIN slots' /\ slots'[i] = slots[i]
<1>1. IInv /\ IInv' /\ [DispatchNext]_dispatch_vars => [A]_dispatch_vars
  <2> SUFFICES ASSUME IInv, IInv', DispatchNext PROVE A
    OBVIOUS
  <2>1. /\ nhandlers \in Nat /\ slots \in Seq(Handlers \cup {Garbage})
        /\ \A i \in 1 .. nhandlers' : i \in DOMAIN slots'
        /\ nhandlers <= Len(slots)
    BY SizeMaxIsNat DEF IInv, DispatchTypeOK, Table
  <2>2. \/ nhandlers' = nhandlers /\ slots' = slots
        \/ nhandlers' = nhandlers /\ slots' = Resized
        \/ nhandlers' = nhandlers + 1 /\ \E x : slots' = [slots EXCEPT ![nhandlers + 1] = x]
    BY DEF DispatchNext, BeginPush, BeginCall, PushStep, PushLock, GrowTable, GrowFails,
           StoreHandler, DispatchStep, NextLock, PickHandler,
           HandlerStep, Invoke, HandlerReturns, tableVars
  <2> QED
    BY <2>1, <2>2 DEF Resized
<1> QED
  BY <1>1, IInvHolds, PTL DEF DispatchSpec, PushedStays
=============================================================================
