----------------------------- MODULE VirtualFile -----------------------------
(***************************************************************************)
(* The buffer of a profile file in patch/net-profile.c, between the        *)
(* download at its opening and the upload at its closing: fread, fwrite,   *)
(* fseek, ftell and feof on it.  Positions and lengths are size_t and      *)
(* uint32_t, 32 bits wide in the games.                                    *)
(***************************************************************************)
EXTENDS Integers

CONSTANTS
  FileSize,    \* file_info->file_size
  Modulus,     \* 2^32, the number of values of size_t and uint32_t
  MaxBytes,    \* the longest read or write
  MaxOffset,   \* how far past the end a seek may lead
  Data         \* what a byte can be

ASSUME SizesFit ==
  /\ FileSize \in Nat \ {0}
  /\ MaxBytes \in Nat /\ MaxOffset \in Nat /\ Modulus \in Nat
  /\ FileSize + MaxBytes < Modulus
  /\ FileSize + MaxOffset < Modulus
ASSUME DataExist == Data # {}

VARIABLES
  buffer_pos,  \* virtual_file->buffer_pos
  buffer,      \* virtual_file->buffer
  is_written,  \* virtual_file->is_written
  bytes,       \* what the last fread copied, by its place in the buffer
  last,        \* the place after the last byte that an fread or fwrite copied
  tell_offset, \* the result of ftell
  eof          \* the result of feof

vars == <<buffer_pos, buffer, is_written, bytes, last, tell_offset, eof>>

Offsets == 0 .. FileSize - 1
SizeT == 0 .. Modulus - 1
Origins == {"SEEK_SET", "SEEK_CUR", "SEEK_END"}

Init ==
  /\ buffer_pos = 0
  /\ buffer \in [Offsets -> Data]
  /\ is_written = FALSE
  /\ bytes = <<>>
  /\ last = 0
  /\ tell_offset = 0
  /\ eof = FALSE

\* len: up to the end of the file only.
CopyLen(nbytes) ==
  IF (buffer_pos + nbytes) % Modulus < FileSize THEN nbytes
  ELSE (FileSize - buffer_pos) % Modulus

\* The places that a copy of nbytes covers.
Copied(nbytes) == buffer_pos .. buffer_pos + CopyLen(nbytes) - 1

\* Mutation: the position stays where it is.
Advance_Not(nbytes) == last' = buffer_pos + CopyLen(nbytes) /\ UNCHANGED buffer_pos

Advance(nbytes) ==
  /\ last' = buffer_pos + CopyLen(nbytes)
  /\ buffer_pos' = (buffer_pos + CopyLen(nbytes)) % Modulus

fread(nbytes) ==
  /\ Advance(nbytes)
  /\ bytes' = [k \in Copied(nbytes) \cap Offsets |-> buffer[k]]
  /\ UNCHANGED <<buffer, is_written, tell_offset, eof>>

fwrite(nbytes, d) ==
  /\ Advance(nbytes)
  /\ buffer' = [k \in Offsets |-> IF k \in Copied(nbytes) THEN d ELSE buffer[k]]
  /\ is_written' = TRUE
  /\ UNCHANGED <<bytes, tell_offset, eof>>

Base(origin) == CASE origin = "SEEK_SET" -> 0
                  [] origin = "SEEK_CUR" -> buffer_pos
                  [] origin = "SEEK_END" -> FileSize

\* MaxOffset bounds where the game seeks to: 0 is a seek within the file.
fseek(origin, offset) ==
  /\ Base(origin) + offset \in 0 .. FileSize + MaxOffset
  /\ buffer_pos' = (Base(origin) + offset) % Modulus
  /\ UNCHANGED <<buffer, is_written, bytes, last, tell_offset, eof>>

\* Mutation: the offset is told relative to the end.
ftell_FromEnd ==
  /\ tell_offset' = buffer_pos - FileSize
  /\ UNCHANGED <<buffer_pos, buffer, is_written, bytes, last, eof>>

ftell ==
  /\ tell_offset' = buffer_pos
  /\ UNCHANGED <<buffer_pos, buffer, is_written, bytes, last, eof>>

feof ==
  /\ eof' = (buffer_pos = FileSize)
  /\ UNCHANGED <<buffer_pos, buffer, is_written, bytes, last, tell_offset>>

Next ==
  \/ \E nbytes \in 0 .. MaxBytes : fread(nbytes)
  \/ \E nbytes \in 0 .. MaxBytes, d \in Data : fwrite(nbytes, d)
  \/ \E origin \in Origins, offset \in 0 - Modulus + 1 .. Modulus - 1 :
       fseek(origin, offset)
  \/ ftell
  \/ feof

Spec == Init /\ [][Next]_vars
-----------------------------------------------------------------------------

TypeOK ==
  /\ buffer_pos \in SizeT
  /\ buffer \in [Offsets -> Data]
  /\ is_written \in BOOLEAN
  /\ last \in Nat
  /\ tell_offset \in SizeT
  /\ eof \in BOOLEAN

\* "read up to eof, only", "write up to eof, only": no copy reaches beyond the
\* buffer, whatever the order of seeks and accesses.
UpToEofOnly == last <= FileSize

\* The stream is a stream on a file of a fixed size.
Stream == INSTANCE FixedFile WITH
  pos <- buffer_pos, content <- buffer, got <- bytes

ImplementsFile == Stream!Spec
=============================================================================
