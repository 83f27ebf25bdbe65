---------------------------- MODULE ProfileServer ----------------------------
(***************************************************************************)
(* What pumpnet_lib_get and pumpnet_lib_put promise: calls on a remote     *)
(* store of profile files, from several threads of the game.               *)
(*                                                                         *)
(* A put that succeeds has reached the store at least once, a get that     *)
(* succeeds returns a content the store had during the call.  A put that   *)
(* is reported as failed may have reached the store, and a put may reach   *)
(* it (again) after its call has returned.                                 *)
(***************************************************************************)
EXTENDS Naturals

CONSTANTS
  Threads,     \* the threads of the game
  Files,       \* the files of the store: one per player reference and type
  Data,        \* the contents of a file
  NoData,      \* the data argument of a get
  NoCall,      \* the call of a thread that is not in a call
  Saved,       \* the result of a put that succeeded
  Failed       \* the result of a call that failed

VARIABLES
  server,      \* the content of each file
  call,        \* the call each thread is in
  late,        \* the puts that may still reach the store after their call
  result       \* what the last call of each thread returned

vars == <<server, call, late, result>>

\* Of a call, file and data are the arguments, done tells that the put reached
\* the store, and seen are the contents of the file since the call began.

Busy(t) == call[t] # NoCall
IsPut(c) == c.data # NoData

Begin(t, file, data) ==
  /\ ~Busy(t)
  /\ call' = [call EXCEPT ![t] = [file |-> file, data |-> data, done |-> FALSE,
                                  seen |-> {server[file]}]]
  /\ UNCHANGED <<server, late, result>>

\* The calls under way after the put of a content by thread t (or, when t is
\* no thread, by a call that has returned).
Witnessed(t, file, data) ==
  [u \in Threads |->
     IF Busy(u) /\ call[u].file = file
     THEN [call[u] EXCEPT !.seen = @ \cup {data}, !.done = @ \/ u = t]
     ELSE call[u]]

Apply(t) ==
  /\ Busy(t) /\ IsPut(call[t])
  /\ server' = [server EXCEPT ![call[t].file] = call[t].data]
  /\ call' = Witnessed(t, call[t].file, call[t].data)
  /\ UNCHANGED <<late, result>>

\* A late put reaches the store; the server may also refuse it for good.
ApplyLate(p) ==
  /\ \/ /\ server' = [server EXCEPT ![p.file] = p.data]
        /\ call' = Witnessed(NoCall, p.file, p.data)
     \/ UNCHANGED <<server, call>>
  /\ late' \in {late, late \ {p}}
  /\ UNCHANGED result

Overdue(c) == IF IsPut(c) THEN {[file |-> c.file, data |-> c.data]} ELSE {}

Outcomes(c) == {Failed} \cup (IF ~IsPut(c) THEN c.seen
                              ELSE IF c.done THEN {Saved} ELSE {})

Return(t) ==
  /\ Busy(t)
  /\ \E r \in Outcomes(call[t]) : result' = [result EXCEPT ![t] = r]
  /\ call' = [call EXCEPT ![t] = NoCall]
  /\ late' \in {late, late \cup Overdue(call[t])}
  /\ UNCHANGED server

Init ==
  /\ server \in [Files -> Data]
  /\ call = [t \in Threads |-> NoCall]
  /\ late = {}
  /\ result = [t \in Threads |-> Failed]

Next ==
  \/ \E t \in Threads :
       \/ \E file \in Files, data \in Data \cup {NoData} : Begin(t, file, data)
       \/ Apply(t)
       \/ Return(t)
  \/ \E p \in late : ApplyLate(p)

Spec == Init /\ [][Next]_vars
=============================================================================
