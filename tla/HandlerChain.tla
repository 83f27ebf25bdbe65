---------------------------- MODULE HandlerChain ----------------------------
(***************************************************************************)
(* What a capnhook hook module promises to its users, without the mutex,   *)
(* the realloc'd table and the irp cursor that implement it.               *)
(*                                                                         *)
(* Handlers register at the end of a chain.  A hooked call descends the    *)
(* chain from its first handler: whatever runs in the call may pass it to  *)
(* the next handler in registration order, and past the last handler       *)
(* registered so far to the real function, which passes it to nobody.      *)
(***************************************************************************)
EXTENDS Naturals, Sequences

CONSTANTS
  Threads,   \* the threads that make hooked calls
  Handlers,  \* the handler functions
  Real       \* the function of libc or libusb that is hooked

VARIABLES
  chain,  \* the handlers in registration order
  stack   \* for each thread the functions active in its call, outermost first

vars == <<chain, stack>>

Init == chain = <<>> /\ stack = [t \in Threads |-> <<>>]

Register(h) ==
  /\ chain' = Append(chain, h)
  /\ UNCHANGED stack

\* The function that a call which is s deep is passed to.
After(s) == IF Len(s) < Len(chain) THEN chain[Len(s) + 1] ELSE Real

Descend(t) ==
  /\ stack[t] # <<>> => stack[t][Len(stack[t])] # Real
  /\ stack' = [stack EXCEPT ![t] = Append(@, After(@))]
  /\ UNCHANGED chain

Return(t) ==
  /\ stack[t] # <<>>
  /\ stack' = [stack EXCEPT ![t] = SubSeq(@, 1, Len(@) - 1)]
  /\ UNCHANGED chain

Next ==
  \/ \E h \in Handlers : Register(h)
  \/ \E t \in Threads : Descend(t) \/ Return(t)

Spec == Init /\ [][Next]_vars
=============================================================================
