------------------------------ MODULE HookChain ------------------------------
(***************************************************************************)
(* A capnhook hook module once it is initialised: the handler table that   *)
(* push_handler extends, and the dispatch of hooked calls along it by      *)
(* invoke_next.  usbhook.c is modelled, which adds the reset-advance       *)
(* variant to what iohook.c, filehook.c and fshook.c do.                   *)
(*                                                                         *)
(* Each hooked call has an irp of its own, whose next_handler is a cursor  *)
(* into the shared table; -1 means that the call may not be passed on.     *)
(* Handlers run without the mutex, and may pass the call on, refuse it,    *)
(* answer it themselves or fail after having passed it on.                 *)
(***************************************************************************)
EXTENDS Naturals, Sequences

CONSTANTS
  Threads,     \* the threads that push handlers and make hooked calls
  Handlers,    \* the handler functions
  Real,        \* _cnh_usbhook_invoke_real
  NoThread,    \* nobody holds the mutex
  Garbage,     \* the content of a fresh slot of the table
  SIZE_MAX,    \* (size_t) -1, the dead cursor
  MaxTries,    \* bound: reset-advance calls one handler makes in a call (8)
  MaxCalls     \* bound: pushes and hooked calls each thread makes

ASSUME RealIsNoHandler == Real \notin Handlers /\ Garbage \notin Handlers
ASSUME GarbageIsNotReal == Garbage # Real
ASSUME NoThreadIsNoThread == NoThread \notin Threads
ASSUME SizeMaxIsNat == SIZE_MAX \in Nat
ASSUME BoundsAreNat == MaxTries \in Nat /\ MaxCalls \in Nat

VARIABLES
  slots,        \* _cnh_usbhook_handlers, the allocated array
  nhandlers,    \* _cnh_usbhook_nhandlers
  lock,         \* _cnh_usbhook_lock
  pc,           \* where each thread is
  pushed,       \* the argument of a pending push_handler, else Garbage
  next_handler, \* irp.next_handler of the thread's current call
  request,      \* the arguments and locals of a pending invoke_next
  frames,       \* the active handler invocations of the call, outermost first
  calls         \* how many pushes and calls each thread has begun

dispatch_vars == <<slots, nhandlers, lock, pc, pushed, next_handler, request, frames,
          calls>>
tableVars == <<slots, nhandlers>>
callVars == <<next_handler, request, frames>>

Requests == [reset : BOOLEAN, cur : 0 .. SIZE_MAX]
Frames == [fn : Handlers \cup {Real}, reset : BOOLEAN, cur : 0 .. SIZE_MAX,
           spent : BOOLEAN, tries : 0 .. MaxTries]
PCs == {"idle", "push_lock", "push_grow", "push_store",
        "next_lock", "next_pick", "handler"}

Depth(t) == Len(frames[t])
Top(t) == frames[t][Depth(t)]

DispatchInit ==
  /\ slots = <<>>
  /\ nhandlers = 0
  /\ lock = NoThread
  /\ pc = [t \in Threads |-> "idle"]
  /\ pushed = [t \in Threads |-> Garbage]
  /\ next_handler = [t \in Threads |-> 0]
  /\ request = [t \in Threads |-> [reset |-> FALSE, cur |-> 0]]
  /\ frames = [t \in Threads |-> <<>>]
  /\ calls = [t \in Threads |-> 0]

Goto(t, from, to) == pc[t] = from /\ pc' = [pc EXCEPT ![t] = to]

Count(t) == calls[t] < MaxCalls /\ calls' = [calls EXCEPT ![t] = @ + 1]

Acquire(t) == lock = NoThread /\ lock' = t

-----------------------------------------------------------------------------
(* cnh_usbhook_push_handler                                                *)

BeginPush(t, h) ==
  /\ Goto(t, "idle", "push_lock")
  /\ Count(t)
  /\ pushed' = [pushed EXCEPT ![t] = h]
  /\ UNCHANGED <<tableVars, lock, callVars>>

PushLock(t) ==
  /\ Goto(t, "push_lock", "push_grow")
  /\ Acquire(t)
  /\ UNCHANGED <<tableVars, pushed, callVars, calls>>

\* Mutation: a malloc in place of the realloc.
Resized_Fresh == [i \in 1 .. nhandlers + 1 |-> Garbage]

\* The realloc to nhandlers + 1 slots, and what happens when it fails:
\* OUT_OF_MEMORY, with the table as it was.
Resized == [i \in 1 .. nhandlers + 1 |-> IF i \in DOMAIN slots THEN slots[i]
                                         ELSE Garbage]

\* Mutation: a table that can grow up to the value of the dead cursor.
GrowTable_Unlimited(t) ==
  /\ Goto(t, "push_grow", "push_store")
  /\ slots' = Resized
  /\ UNCHANGED <<nhandlers, lock, pushed, callVars, calls>>

GrowTable(t) ==
  /\ Goto(t, "push_grow", "push_store")
  /\ nhandlers + 1 < SIZE_MAX
  /\ slots' = Resized
  /\ UNCHANGED <<nhandlers, lock, pushed, callVars, calls>>

\* Mutation: the error path returns with the mutex locked.
GrowFails_KeepsLock(t) ==
  /\ Goto(t, "push_grow", "idle")
  /\ pushed' = [pushed EXCEPT ![t] = Garbage]
  /\ UNCHANGED <<tableVars, lock, callVars, calls>>

GrowFails(t) ==
  /\ Goto(t, "push_grow", "idle")
  /\ lock' = NoThread
  /\ pushed' = [pushed EXCEPT ![t] = Garbage]
  /\ UNCHANGED <<tableVars, callVars, calls>>

StoreHandler(t) ==
  /\ Goto(t, "push_store", "idle")
  /\ slots' = [slots EXCEPT ![nhandlers + 1] = pushed[t]]
  /\ nhandlers' = nhandlers + 1
  /\ lock' = NoThread
  /\ pushed' = [pushed EXCEPT ![t] = Garbage]
  /\ UNCHANGED <<callVars, calls>>

-----------------------------------------------------------------------------
(* A hooked function and _cnh_usbhook_invoke_next_reset_advance            *)

\* The hooked function zeroes its irp and calls invoke_next.
BeginCall(t) ==
  /\ Goto(t, "idle", "next_lock")
  /\ Count(t)
  /\ next_handler' = [next_handler EXCEPT ![t] = 0]
  /\ request' = [request EXCEPT ![t] = [reset |-> FALSE, cur |-> 0]]
  /\ UNCHANGED <<tableVars, lock, pushed, frames>>

\* The handlers' side of the contract: the real function passes the call to
\* nobody, and a handler passes it on once, or, with the reset-advance
\* variant, several times.
MayInvoke(f) == f.fn # Real /\ ~f.spent

Passed(f, reset) ==
  [f EXCEPT !.spent = ~reset, !.tries = IF reset THEN @ + 1 ELSE @]

Invoke(t, reset) ==
  /\ Goto(t, "handler", "next_lock")
  /\ MayInvoke(Top(t))
  /\ reset => Top(t).tries < MaxTries
  /\ frames' = [frames EXCEPT ![t] =
                  [@ EXCEPT ![Depth(t)] = Passed(Top(t), reset)]]
  /\ request' = [request EXCEPT ![t] =
                   [reset |-> reset, cur |-> next_handler[t]]]
  /\ UNCHANGED <<tableVars, lock, pushed, next_handler, calls>>

NextLock(t) ==
  /\ Goto(t, "next_lock", "next_pick")
  /\ Acquire(t)
  /\ UNCHANGED <<tableVars, pushed, callVars, calls>>

\* Mutation: an off-by-one that reaches the real function one handler early.
Picked_SkipsLast(t) ==
  IF next_handler[t] + 1 < nhandlers THEN slots[next_handler[t] + 1] ELSE Real

\* The cursor names a handler, or the real function after the last one.
Picked(t) == IF next_handler[t] < nhandlers THEN slots[next_handler[t] + 1]
             ELSE Real

\* Mutation: the increment of the cursor is missing.
Advanced_Missing(t) ==
  IF next_handler[t] < nhandlers THEN next_handler[t] ELSE SIZE_MAX

Advanced(t) == IF next_handler[t] < nhandlers THEN next_handler[t] + 1
               ELSE SIZE_MAX

\* The guard is assert(irp->next_handler <= _cnh_usbhook_nhandlers): the process
\* stops where it fails, and CursorIsInTable says that it never does.
PickHandler(t) ==
  /\ next_handler[t] <= nhandlers
  /\ Goto(t, "next_pick", "handler")
  /\ lock' = NoThread
  /\ frames' = [frames EXCEPT ![t] = Append(@,
        [fn |-> Picked(t), reset |-> request[t].reset, cur |-> request[t].cur,
         spent |-> FALSE, tries |-> 0])]
  /\ next_handler' = [next_handler EXCEPT ![t] = Advanced(t)]
  /\ UNCHANGED <<tableVars, pushed, request, calls>>

\* Mutation: reset-advance does not restore the cursor.
CursorAfter_NotRestored(t, success) ==
  IF success THEN next_handler[t] ELSE SIZE_MAX

\* The invoked function returns: a failure kills the cursor, reset-advance
\* puts it back to where it was.  The outermost return ends the hooked call.
CursorAfter(t, success) ==
  IF Top(t).reset THEN Top(t).cur
  ELSE IF success THEN next_handler[t] ELSE SIZE_MAX

HandlerReturns(t, success) ==
  /\ Goto(t, "handler", IF Depth(t) = 1 THEN "idle" ELSE "handler")
  /\ next_handler' = [next_handler EXCEPT ![t] = CursorAfter(t, success)]
  /\ frames' = [frames EXCEPT ![t] = SubSeq(@, 1, Len(@) - 1)]
  /\ UNCHANGED <<tableVars, lock, pushed, request, calls>>

-----------------------------------------------------------------------------

PushStep(t) == PushLock(t) \/ GrowTable(t) \/ GrowFails(t) \/ StoreHandler(t)

DispatchStep(t) == NextLock(t) \/ PickHandler(t)

HandlerStep(t) ==
  \/ \E reset \in BOOLEAN : Invoke(t, reset)
  \/ \E success \in BOOLEAN : HandlerReturns(t, success)

DispatchNext ==
  \E t \in Threads :
    \/ \E h \in Handlers : BeginPush(t, h)
    \/ BeginCall(t)
    \/ PushStep(t)
    \/ DispatchStep(t)
    \/ HandlerStep(t)

DispatchSpec == DispatchInit /\ [][DispatchNext]_dispatch_vars

-----------------------------------------------------------------------------

DispatchTypeOK ==
  /\ slots \in Seq(Handlers \cup {Garbage})
  /\ nhandlers \in 0 .. SIZE_MAX
  /\ nhandlers > 0 => nhandlers < SIZE_MAX
  /\ lock \in Threads \cup {NoThread}
  /\ pc \in [Threads -> PCs]
  /\ pushed \in [Threads -> Handlers \cup {Garbage}]
  /\ next_handler \in [Threads -> 0 .. SIZE_MAX]
  /\ request \in [Threads -> Requests]
  /\ frames \in [Threads -> Seq(Frames)]
  /\ calls \in [Threads -> 0 .. MaxCalls]

\* Every slot below nhandlers is allocated and holds a pushed handler, also
\* between the realloc of one thread and the dispatch of another.
TableIsFilled ==
  \A i \in 1 .. nhandlers : i \in DOMAIN slots /\ slots[i] \in Handlers

\* The cursor of a call that is about to be dispatched is within the table:
\* assert(irp->next_handler <= nhandlers) holds, whatever was pushed since the
\* call began, and however often a handler rewound the cursor or a call of
\* its own failed.
CursorIsInTable ==
  \A t \in Threads : pc[t] = "next_pick" => next_handler[t] <= nhandlers

\* The functions active in a call are the first handlers of the table in push
\* order, none skipped and none twice, with only the real function after them.
VisitsInOrder ==
  \A t \in Threads : \A i \in 1 .. Depth(t) :
    \/ i <= nhandlers /\ frames[t][i].fn = slots[i]
    \/ i = Depth(t) /\ frames[t][i].fn = Real

\* A handler that was pushed stays at its place: no push, failed or not,
\* moves, drops or overwrites it.
PushedStays ==
  [][/\ nhandlers' >= nhandlers
     /\ \A i \in 1 .. nhandlers : i \in DOMAIN slots' /\ slots'[i] = slots[i]]_dispatch_vars

\* A thread that waits for the mutex gets past it, even while the handlers and
\* real functions of all other threads never return.
MutexIsGranted ==
  \A t \in Threads :
    /\ pc[t] = "next_lock" ~> pc[t] # "next_lock"
    /\ pc[t] = "push_lock" ~> pc[t] # "push_lock"

\* The table, the cursor and the mutex implement the chain of handlers.
Chain == INSTANCE HandlerChain WITH
  chain <- [i \in 1 .. nhandlers |-> slots[i]],
  stack <- [t \in Threads |-> [i \in 1 .. Depth(t) |-> frames[t][i].fn]]

ImplementsChain == Chain!Spec
=============================================================================
