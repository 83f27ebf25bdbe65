------------------------------ MODULE HookInit ------------------------------
(***************************************************************************)
(* The lazy initialisation every capnhook module runs at the start of      *)
(* every hooked function: _cnh_iohook_init, _cnh_filehook_init,            *)
(* _cnh_fshook_init, _cnh_usbhook_init, _cnh_redir_init and                *)
(* _cnh_usb_emu_init are the same function over different statics.  The    *)
(* line numbers in this module are those of iohook.c.                      *)
(*                                                                         *)
(* A thread calls a hooked function or pushes a handler, runs the init     *)
(* function and then takes the module's mutex.  A hooked function gets to  *)
(* the mutex through invoke_next, which asserts that the module is         *)
(* initialised; push_handler locks right after the init function.  In      *)
(* redir and usb-emu nothing is asserted: there every call is a push in    *)
(* the sense of this module.  One action is one atomic load, store or      *)
(* compare-exchange, or one call to the pthread library.                   *)
(***************************************************************************)
EXTENDS Naturals, FiniteSets

CONSTANT Callers   \* the threads that call hooked functions and push handlers

VARIABLES
  initted,         \* atomic_int _cnh_iohook_initted
  init_in_progress,\* atomic_int _cnh_iohook_init_in_progress
  resolved,        \* the _cnh_iohook_real_* function pointers are set
  mutexInit,       \* pthread_mutex_init has run on _cnh_iohook_lock
  mutexFree,       \* the mutex word says "unlocked"; a static mutex is zero,
                   \* which glibc reads as an unlocked default mutex
  aborted,         \* assert() failed and took the process down
  pushing,         \* the threads whose call is push_handler
  early,           \* history: a push went past the init function before the
                   \* winner of the compare-exchange had published
  init_pc          \* where each thread is

pushVars == <<pushing, early>>
init_vars == <<initted, init_in_progress, resolved, mutexInit, mutexFree, aborted,
               pushVars, init_pc>>

InitBody == {"resolve", "mutex", "publish"}
Flagged == InitBody \cup {"recheck", "revert", "release"}
InitPCs == Flagged \cup {"game", "check", "cas", "spin", "returned", "lock", "locked"}

LazyInit ==
  /\ initted = 0
  /\ init_in_progress = 0
  /\ resolved = FALSE
  /\ mutexInit = FALSE
  /\ mutexFree = TRUE
  /\ aborted = FALSE
  /\ pushing = {}
  /\ early = FALSE
  /\ init_pc = [t \in Callers |-> "game"]

StepsTo(t, from, to) == /\ ~aborted
                        /\ init_pc[t] = from
                        /\ init_pc' = [init_pc EXCEPT ![t] = to]

\* A hooked function, or push_handler, is called; its first statement calls
\* the init function.
Call(t) ==
  /\ StepsTo(t, "game", "check")
  /\ pushing' \in {pushing \ {t}, pushing \cup {t}}
  /\ UNCHANGED <<initted, init_in_progress, resolved, mutexInit, mutexFree, aborted, early>>

\* if (atomic_load(&initted) > 0) return;
Check(t) ==
  /\ StepsTo(t, "check", IF initted > 0 THEN "returned" ELSE "cas")
  /\ UNCHANGED <<initted, init_in_progress, resolved, mutexInit, mutexFree, aborted,
                 pushVars>>

\* Mutation: an atomic_fetch_add in place of the compare-exchange.
CompareExchange_FetchAdd(t) ==
  /\ init_in_progress' = init_in_progress + 1
  /\ StepsTo(t, "cas", IF init_in_progress = 0 THEN "recheck" ELSE "spin")
  /\ UNCHANGED <<initted, resolved, mutexInit, mutexFree, aborted,
                 pushVars>>

\* atomic_compare_exchange_strong(&init_in_progress, 0, 1)
CompareExchange(t) ==
  /\ \/ /\ init_in_progress = 0
        /\ init_in_progress' = 1
        /\ StepsTo(t, "cas", "recheck")
     \/ /\ init_in_progress # 0
        /\ StepsTo(t, "cas", "spin")
        /\ UNCHANGED init_in_progress
  /\ UNCHANGED <<initted, resolved, mutexInit, mutexFree, aborted,
                 pushVars>>

\* The loser's wait: while (atomic_load(&init_in_progress) > 1) sleep.
MustSleep == init_in_progress > 1

Spin(t) ==
  /\ ~MustSleep
  /\ StepsTo(t, "spin", "returned")
  /\ UNCHANGED <<initted, init_in_progress, resolved, mutexInit, mutexFree, aborted,
                 pushVars>>

\* Mutation: the winner trusts the initted it loaded before.
Recheck_Dropped(t) ==
  /\ StepsTo(t, "recheck", "resolve")
  /\ UNCHANGED <<initted, init_in_progress, resolved, mutexInit, mutexFree, aborted,
                 pushVars>>

\* The winner looks at initted again: it may have loaded 0 long ago.
Recheck(t) ==
  /\ StepsTo(t, "recheck", IF initted > 0 THEN "revert" ELSE "resolve")
  /\ UNCHANGED <<initted, init_in_progress, resolved, mutexInit, mutexFree, aborted,
                 pushVars>>

Revert(t) ==
  /\ StepsTo(t, "revert", "returned")
  /\ init_in_progress' = 0
  /\ UNCHANGED <<initted, resolved, mutexInit, mutexFree, aborted,
                 pushVars>>

\* Mutation: initted is stored before the mutex is initialised.
ResolveFuncs_PublishesEarly(t) ==
  /\ StepsTo(t, "resolve", "mutex")
  /\ resolved' = TRUE
  /\ initted' = 1
  /\ UNCHANGED <<init_in_progress, mutexInit, mutexFree, aborted,
                 pushVars>>

\* The cnh_lib_get_func_addr calls (none of them in redir and usb-emu).
ResolveFuncs(t) ==
  /\ StepsTo(t, "resolve", "mutex")
  /\ resolved' = TRUE
  /\ UNCHANGED <<initted, init_in_progress, mutexInit, mutexFree, aborted,
                 pushVars>>

\* pthread_mutex_init resets the mutex word, whoever holds it.
InitMutex(t) ==
  /\ StepsTo(t, "mutex", "publish")
  /\ mutexInit' = TRUE
  /\ mutexFree' = TRUE
  /\ UNCHANGED <<initted, init_in_progress, resolved, aborted,
                 pushVars>>

Publish(t) ==
  /\ StepsTo(t, "publish", "release")
  /\ initted' = 1
  /\ UNCHANGED <<init_in_progress, resolved, mutexInit, mutexFree, aborted,
                 pushVars>>

Release(t) ==
  /\ StepsTo(t, "release", "returned")
  /\ init_in_progress' = 0
  /\ UNCHANGED <<initted, resolved, mutexInit, mutexFree, aborted,
                 pushVars>>

\* Mutation: a build without assertions (NDEBUG).
AssertInitted_CompiledOut(t) ==
  /\ t \notin pushing
  /\ StepsTo(t, "returned", "lock")
  /\ UNCHANGED <<initted, init_in_progress, resolved, mutexInit, mutexFree, aborted,
                 pushVars>>

\* assert(initted > 0) at the head of invoke_next; a failed assertion aborts.
AssertInitted(t) ==
  /\ t \notin pushing
  /\ \/ /\ initted > 0
        /\ StepsTo(t, "returned", "lock")
        /\ UNCHANGED aborted
     \/ /\ ~aborted
        /\ init_pc[t] = "returned"
        /\ initted = 0
        /\ aborted' = TRUE
        /\ UNCHANGED init_pc
  /\ UNCHANGED <<initted, init_in_progress, resolved, mutexInit, mutexFree, pushVars>>

\* push_handler goes on to the mutex, whatever the init function did.
PushGoesOn(t) ==
  /\ t \in pushing
  /\ StepsTo(t, "returned", "lock")
  /\ early' = (early \/ initted = 0)
  /\ UNCHANGED <<initted, init_in_progress, resolved, mutexInit, mutexFree, aborted, pushing>>

Lock(t) ==
  /\ mutexFree
  /\ StepsTo(t, "lock", "locked")
  /\ mutexFree' = FALSE
  /\ UNCHANGED <<initted, init_in_progress, resolved, mutexInit, aborted,
                 pushVars>>

\* Unlock and finish the call: back in the game.
Unlock(t) ==
  /\ StepsTo(t, "locked", "game")
  /\ mutexFree' = TRUE
  /\ UNCHANGED <<initted, init_in_progress, resolved, mutexInit, aborted,
                 pushVars>>

InitStep(t) ==
  \/ Check(t) \/ CompareExchange(t) \/ Spin(t) \/ Recheck(t) \/ Revert(t)
  \/ ResolveFuncs(t) \/ InitMutex(t) \/ Publish(t) \/ Release(t)

UseStep(t) == AssertInitted(t) \/ PushGoesOn(t) \/ Lock(t) \/ Unlock(t)

LazyNext == \E t \in Callers : Call(t) \/ InitStep(t) \/ UseStep(t)

LazySpec == LazyInit /\ [][LazyNext]_init_vars

-----------------------------------------------------------------------------

LazyTypeOK ==
  /\ initted \in {0, 1}
  /\ init_in_progress \in {0, 1}
  /\ resolved \in BOOLEAN
  /\ mutexInit \in BOOLEAN
  /\ mutexFree \in BOOLEAN
  /\ aborted \in BOOLEAN
  /\ pushing \subseteq Callers
  /\ early \in BOOLEAN
  /\ init_pc \in [Callers -> InitPCs]

\* Two threads are never in the section the mutex protects, the handler table.
Exclusive == \A t, u \in Callers : init_pc[t] = "locked" /\ init_pc[u] = "locked" => t = u

\* The mutex is initialised after it may have been locked, and still excludes,
\* whatever hooked functions race with the init function, because of the
\* assertion before they lock.  Only a push can break it: one that loses the
\* compare-exchange locks the zeroed mutex, pthread_mutex_init resets it in
\* its hands, and a second thread walks the table that realloc moves.
LockExclusion == early \/ Exclusive

\* At most one thread is between the compare-exchange and the store that
\* reverts it, and the body is entered only while the module is not
\* initialised: the function pointers and the mutex are set up exactly once.
InitOnce ==
  /\ \A t, u \in Callers : init_pc[t] \in Flagged /\ init_pc[u] \in Flagged => t = u
  /\ \A t \in Callers : init_pc[t] \in InitBody => initted = 0

\* Who sees initted > 0 sees the function pointers and the mutex it stands for.
PublishedIsReady == initted > 0 => resolved /\ mutexInit

\* assert(_cnh_iohook_initted > 0) holds whenever a hooked function reaches it.
AssertionHolds ==
  \A t \in Callers \ pushing : init_pc[t] = "returned" => initted > 0

\* pthread_mutex_init never runs on a mutex that is already initialised.
MutexInitialisedOnce ==
  [][\A t \in Callers : InitMutex(t) => ~mutexInit]_init_vars
=============================================================================
