------------------------------ MODULE FixedFile ------------------------------
(***************************************************************************)
(* A stream on a file of a fixed size: what the game sees of a profile     *)
(* file.  A read or write moves as many bytes as are asked for, or as are  *)
(* left up to the end of the file; nothing is ever appended.               *)
(***************************************************************************)
EXTENDS Integers

CONSTANTS
  FileSize,    \* bytes of the file
  Data         \* what a byte can be

VARIABLES
  pos,         \* the position of the stream
  content,     \* the bytes of the file
  got          \* the bytes the last read returned, by their place in the file

vars == <<pos, content, got>>

Offsets == 0 .. FileSize - 1
Left == FileSize - pos
\* The places that an access of n bytes covers.
Span(n) == pos .. pos + (IF n < Left THEN n ELSE Left) - 1

Init ==
  /\ pos = 0
  /\ content \in [Offsets -> Data]
  /\ got = <<>>

Read(n) ==
  /\ got' = [k \in Span(n) |-> content[k]]
  /\ pos' = IF n < Left THEN pos + n ELSE FileSize
  /\ UNCHANGED content

Write(n, d) ==
  /\ content' = [k \in Offsets |-> IF k \in Span(n) THEN d ELSE content[k]]
  /\ pos' = IF n < Left THEN pos + n ELSE FileSize
  /\ UNCHANGED got

Seek == pos' \in 0 .. FileSize /\ UNCHANGED <<content, got>>

Next ==
  \/ \E n \in 0 .. FileSize : Read(n)
  \/ \E n \in 0 .. FileSize, d \in Data : Write(n, d)
  \/ Seek

Spec == Init /\ [][Next]_vars
=============================================================================
