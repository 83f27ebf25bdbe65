----------------------------- MODULE PartsProofs -----------------------------
(***************************************************************************)
(* Proofs about the parts that MCParts checks side by side.                *)
(*                                                                         *)
(* VirtualFile, for every file size and word width: as long as the game    *)
(* seeks within the file, the 32-bit arithmetic of net-profile never       *)
(* wraps, no copy leaves the buffer, and the stream behaves as one on a    *)
(* file of a fixed size.  Exceed, for every size of the eeprom and every   *)
(* file found in its place: what the game is told of the inputs, and what  *)
(* it finds of what it has stored.  Keyboard, for any keys, libraries and  *)
(* windows and any length of the queue: the inputs are as the keys are.    *)
(* Joysticks, for any sticks, files and length of the buffers: an input is *)
(* what the last event on it said, and the mutex matches the list.         *)
(* ProfileTool, for any bytes and any exclusive or that undoes itself: a   *)
(* profile decrypted and encrypted without an edit comes back.  HaspAsn1,  *)
(* for any messages: what the format can carry is read as it was written.  *)
(***************************************************************************)
EXTENDS VirtualFile, Exceed, Keyboard, Joysticks, ProfileTool, HaspAsn1,
        SequenceTheorems, FiniteSetTheorems, WellFoundedInduction, TLAPS

\* A number below the modulus is its own remainder.
LEMMA SmallMod ==
  ASSUME NEW x \in Nat, NEW m \in Nat, x < m
  PROVE  x % m = x
OBVIOUS

\* The inductive invariant: the position never leaves the file.
PosInFile == buffer_pos \in 0 .. FileSize

IInv == TypeOK /\ PosInFile /\ UpToEofOnly

\* What an access moves, when the position is in the file: the bytes asked
\* for, or those that are left.
LEMMA LenIsWhatIsLeft ==
  ASSUME PosInFile, NEW n \in 0 .. MaxBytes
  PROVE  CopyLen(n) = IF n < FileSize - buffer_pos THEN n ELSE FileSize - buffer_pos
<1>1. FileSize \in Nat /\ MaxBytes \in Nat /\ Modulus \in Nat
      /\ FileSize + MaxBytes < Modulus
  BY SizesFit
<1>2. buffer_pos \in Nat /\ buffer_pos <= FileSize
  BY <1>1 DEF PosInFile
<1>3. (buffer_pos + n) % Modulus = buffer_pos + n
  <2>1. buffer_pos + n \in Nat /\ buffer_pos + n < Modulus
    BY <1>1, <1>2
  <2> QED BY <2>1, <1>1, SmallMod
<1>4. (FileSize - buffer_pos) % Modulus = FileSize - buffer_pos
  <2>1. FileSize - buffer_pos \in Nat /\ FileSize - buffer_pos < Modulus
    BY <1>1, <1>2
  <2> QED BY <2>1, <1>1, SmallMod
<1> QED BY <1>1, <1>2, <1>3, <1>4 DEF CopyLen

\* The place after the last byte copied is in the file, and is the new
\* position.
LEMMA AdvanceStaysInFile ==
  ASSUME PosInFile, NEW n \in 0 .. MaxBytes, Advance(n)
  PROVE  /\ last' \in 0 .. FileSize
         /\ buffer_pos' = last'
         /\ buffer_pos' = IF n < FileSize - buffer_pos THEN buffer_pos + n
                          ELSE FileSize
<1>1. FileSize \in Nat /\ Modulus \in Nat /\ FileSize < Modulus
  BY SizesFit
<1>2. buffer_pos \in Nat /\ buffer_pos <= FileSize
  BY <1>1 DEF PosInFile
<1>3. CopyLen(n) = IF n < FileSize - buffer_pos THEN n ELSE FileSize - buffer_pos
  BY LenIsWhatIsLeft
<1>4. buffer_pos + CopyLen(n) \in 0 .. FileSize
      /\ buffer_pos + CopyLen(n) = IF n < FileSize - buffer_pos THEN buffer_pos + n
                               ELSE FileSize
  BY <1>1, <1>2, <1>3
<1>5. (buffer_pos + CopyLen(n)) % Modulus = buffer_pos + CopyLen(n)
  <2>1. buffer_pos + CopyLen(n) \in Nat /\ buffer_pos + CopyLen(n) < Modulus
    BY <1>1, <1>4
  <2> QED BY <2>1, <1>1, SmallMod
<1> QED BY <1>4, <1>5 DEF Advance

\* A seek of the game that leads into the file puts the position there.
LEMMA SeekStaysInFile ==
  ASSUME MaxOffset = 0, PosInFile,
         NEW origin \in Origins, NEW offset \in Int, fseek(origin, offset)
  PROVE  buffer_pos' \in 0 .. FileSize
<1>1. FileSize \in Nat /\ Modulus \in Nat /\ FileSize < Modulus
  BY SizesFit
<1>2. Base(origin) + offset \in 0 .. FileSize
  BY <1>1 DEF fseek
<1>3. (Base(origin) + offset) % Modulus = Base(origin) + offset
  BY <1>1, <1>2, SmallMod
<1> QED BY <1>2, <1>3 DEF fseek

LEMMA Inductive ==
  ASSUME MaxOffset = 0, IInv, [Next]_vars
  PROVE  IInv'
<1>0. FileSize \in Nat /\ Modulus \in Nat /\ FileSize < Modulus
  BY SizesFit
<1>1. ASSUME NEW n \in 0 .. MaxBytes, fread(n) PROVE IInv'
  <2>1. buffer_pos' = last' /\ last' \in 0 .. FileSize
    BY <1>1, AdvanceStaysInFile DEF fread, IInv
  <2>2. buffer_pos' \in SizeT /\ last' \in Nat
    BY <1>0, <2>1 DEF SizeT
  <2> QED
    BY <1>0, <1>1, <2>1, <2>2 DEF fread, IInv, TypeOK, PosInFile, UpToEofOnly
<1>2. ASSUME NEW n \in 0 .. MaxBytes, NEW d \in Data, fwrite(n, d) PROVE IInv'
  <2>1. buffer_pos' = last' /\ last' \in 0 .. FileSize
    BY <1>2, AdvanceStaysInFile DEF fwrite, IInv
  <2>2. buffer_pos' \in SizeT /\ last' \in Nat
    BY <1>0, <2>1 DEF SizeT
  <2>3. buffer' \in [Offsets -> Data]
    BY <1>2 DEF fwrite, IInv, TypeOK
  <2> QED
    BY <1>0, <1>2, <2>1, <2>2, <2>3
    DEF fwrite, IInv, TypeOK, PosInFile, UpToEofOnly
<1>3. ASSUME NEW origin \in Origins,
             NEW offset \in 0 - Modulus + 1 .. Modulus - 1,
             fseek(origin, offset)
      PROVE  IInv'
  <2>1. buffer_pos' \in 0 .. FileSize
    BY <1>0, <1>3, SeekStaysInFile DEF IInv
  <2>2. buffer_pos' \in SizeT
    BY <1>0, <2>1 DEF SizeT
  <2> QED BY <1>3, <2>1, <2>2 DEF fseek, IInv, TypeOK, PosInFile, UpToEofOnly
<1>4. CASE ftell
  BY <1>0, <1>4 DEF ftell, IInv, TypeOK, PosInFile, UpToEofOnly, SizeT
<1>5. CASE feof
  BY <1>5 DEF feof, IInv, TypeOK, PosInFile, UpToEofOnly
<1>6. CASE UNCHANGED vars
  BY <1>6 DEF vars, IInv, TypeOK, PosInFile, UpToEofOnly
<1> QED BY <1>1, <1>2, <1>3, <1>4, <1>5, <1>6 DEF Next

LEMMA Initial ==
  ASSUME Init PROVE IInv
<1>1. 0 \in SizeT /\ 0 \in 0 .. FileSize /\ 0 <= FileSize
  BY SizesFit DEF SizeT
<1>2. TypeOK
  BY <1>1 DEF Init, TypeOK
<1>3. PosInFile /\ UpToEofOnly
  BY <1>1 DEF Init, PosInFile, UpToEofOnly
<1> QED BY <1>2, <1>3 DEF IInv

LEMMA Invariant == ASSUME MaxOffset = 0 PROVE Spec => []IInv
<1>1. Init => IInv
  BY Initial
<1>2. IInv /\ [Next]_vars => IInv'
  BY Inductive
<1> QED BY <1>1, <1>2, PTL DEF Spec

\* Reads and writes of a profile file never copy beyond its buffer, for every
\* file size and word width, as long as the game seeks within the file.
THEOREM CopiesAreInBounds == ASSUME MaxOffset = 0 PROVE Spec => []UpToEofOnly
<1>1. IInv => UpToEofOnly
  BY DEF IInv
<1> QED BY <1>1, Invariant, PTL

-----------------------------------------------------------------------------

LEMMA InitialFile == Init => Stream!Init
BY DEF Init, Stream!Init, Offsets, Stream!Offsets

LEMMA ReadRefines ==
  ASSUME IInv, NEW n \in 0 .. MaxBytes, fread(n)
  PROVE  \E k \in 0 .. FileSize : Stream!Read(k)
<1> DEFINE k == IF n < FileSize - buffer_pos THEN n ELSE FileSize - buffer_pos
<1>0. FileSize \in Nat /\ MaxBytes \in Nat /\ buffer_pos \in 0 .. FileSize
  BY SizesFit DEF IInv, PosInFile
<1>1. k \in 0 .. FileSize
  BY <1>0
<1>2. CopyLen(n) = k
  BY LenIsWhatIsLeft DEF IInv
<1>3. Stream!Span(k) = Copied(n)
  BY <1>0, <1>2 DEF Stream!Span, Stream!Left, Copied
<1>4. Copied(n) \cap Offsets = Copied(n)
  BY <1>0, <1>2 DEF Copied, Offsets
<1>5. bytes' = [j \in Stream!Span(k) |-> buffer[j]]
  BY <1>3, <1>4 DEF fread
<1>6. buffer_pos' = IF k < Stream!Left THEN buffer_pos + k ELSE FileSize
  <2>1. buffer_pos' = IF n < FileSize - buffer_pos THEN buffer_pos + n
                      ELSE FileSize
    BY AdvanceStaysInFile DEF fread, IInv
  <2> QED BY <2>1, <1>0 DEF Stream!Left
<1> QED BY <1>1, <1>5, <1>6 DEF fread, Stream!Read

LEMMA WriteRefines ==
  ASSUME IInv, NEW n \in 0 .. MaxBytes, NEW d \in Data, fwrite(n, d)
  PROVE  \E k \in 0 .. FileSize : Stream!Write(k, d)
<1> DEFINE k == IF n < FileSize - buffer_pos THEN n ELSE FileSize - buffer_pos
<1>0. FileSize \in Nat /\ MaxBytes \in Nat /\ buffer_pos \in 0 .. FileSize
  BY SizesFit DEF IInv, PosInFile
<1>1. k \in 0 .. FileSize
  BY <1>0
<1>2. CopyLen(n) = k
  BY LenIsWhatIsLeft DEF IInv
<1>3. Stream!Span(k) = Copied(n)
  BY <1>0, <1>2 DEF Stream!Span, Stream!Left, Copied
<1>5. buffer' = [j \in Stream!Offsets |->
                   IF j \in Stream!Span(k) THEN d ELSE buffer[j]]
  BY <1>3 DEF fwrite, Offsets, Stream!Offsets
<1>6. buffer_pos' = IF k < Stream!Left THEN buffer_pos + k ELSE FileSize
  <2>1. buffer_pos' = IF n < FileSize - buffer_pos THEN buffer_pos + n
                      ELSE FileSize
    BY AdvanceStaysInFile DEF fwrite, IInv
  <2> QED BY <2>1, <1>0 DEF Stream!Left
<1> QED BY <1>1, <1>5, <1>6 DEF fwrite, Stream!Write

LEMMA StepRefines ==
  ASSUME MaxOffset = 0, IInv, [Next]_vars
  PROVE  [Stream!Next]_(Stream!vars)
<1>1. ASSUME NEW n \in 0 .. MaxBytes, fread(n) PROVE Stream!Next
  BY <1>1, ReadRefines DEF Stream!Next
<1>2. ASSUME NEW n \in 0 .. MaxBytes, NEW d \in Data, fwrite(n, d)
      PROVE  Stream!Next
  BY <1>2, WriteRefines DEF Stream!Next
<1>3. ASSUME NEW origin \in Origins,
             NEW offset \in 0 - Modulus + 1 .. Modulus - 1,
             fseek(origin, offset)
      PROVE  Stream!Next
  <2>1. offset \in Int
    BY SizesFit
  <2>2. buffer_pos' \in 0 .. FileSize
    BY <1>3, <2>1, SeekStaysInFile DEF IInv
  <2> QED BY <1>3, <2>2 DEF fseek, Stream!Seek, Stream!Next
<1>4. CASE ftell
  BY <1>4 DEF ftell, Stream!vars
<1>5. CASE feof
  BY <1>5 DEF feof, Stream!vars
<1>6. CASE UNCHANGED vars
  BY <1>6 DEF vars, Stream!vars
<1> QED BY <1>1, <1>2, <1>3, <1>4, <1>5, <1>6 DEF Next

\* The stream on the buffer is a stream on a file of a fixed size: the game
\* cannot tell the difference, for every file size and word width.
THEOREM FileRefinement == ASSUME MaxOffset = 0 PROVE Spec => ImplementsFile
<1>1. Init => Stream!Init
  BY InitialFile
<1>2. IInv /\ [Next]_vars => [Stream!Next]_(Stream!vars)
  BY StepRefines
<1> QED BY <1>1, <1>2, Invariant, PTL DEF Spec, ImplementsFile, Stream!Spec

-----------------------------------------------------------------------------
(* The inputs of Exceed.  FrameInv is inductive: the word that the hook     *)
(* keeps of the last frame is what the game was given in it, and the game's *)
(* own words are clear whenever the hook is to add to them.                 *)

FrameInv ==
  /\ stat_prev = sensed
  /\ exc_pc \in {"check", "input"} => stat = {} /\ stat_down = {}
  /\ PressesAreCounted

LEMMA FrameStep ==
  ASSUME FrameInv, IoNext \/ EepromNext \/ UNCHANGED vars_exceed
  PROVE  FrameInv'
<1> USE DEF FrameInv, PressesAreCounted, exc_words, exc_lights, exc_io
<1>1. ASSUME NEW fails \in BOOLEAN, NEW sparse \in BOOLEAN, exchook_io_check(fails, sparse)
      PROVE  FrameInv'
  BY <1>1 DEF exchook_io_check
<1>2. CASE exchook_io_input
  <2> DEFINE now == PanelsDown \cup (exc_lib \cap ExcSystem)
  <2>1. \/ exc_pc' = "exited" /\ stat_prev' = stat_prev /\ sensed' = sensed
        \/ /\ exc_pc' = "game" /\ stat = {} /\ stat_down = {}
           /\ stat' = stat \cup now /\ stat_down' = stat_down \cup (now \ stat_prev)
           /\ stat_up' = stat_prev \ now /\ stat_prev' = stat'
           /\ sensed' = now /\ sensed_before' = sensed
    BY <1>2 DEF exchook_io_input, stat_prev_next
  <2> HIDE DEF now
  <2> QED
    BY <2>1
<1>3. CASE GameTakes
  BY <1>3 DEF GameTakes
<1>4. ASSUME NEW on \in BOOLEAN,
             \/ exchook_io_light_all(on) \/ exchook_io_light_cab(on, {"halo_l1"})
             \/ exchook_io_light_ccfl(on, {<<0, "cn">>})
      PROVE  FrameInv'
  <2>1. Light
    BY <1>4 DEF exchook_io_light_all, exchook_io_light_cab, exchook_io_light_ccfl
  <2> QED
    BY <2>1 DEF Light
<1>5. CASE ExcMove
  BY <1>5 DEF ExcMove
<1>6. CASE UNCHANGED exc_io
  BY <1>6
<1>7. CASE EepromNext
  BY <1>6, <1>7 DEF EepromNext, exchook_eeprom_init, exchook_eeprom_write, PowerLost,
                    GameStops
<1> QED
  BY <1>1, <1>2, <1>3, <1>4, <1>5, <1>6, <1>7 DEF IoNext, vars_exceed

\* In every frame the game is told of exactly the presses and releases since the
\* frame before, and of all that is held.
THEOREM EveryPressIsCounted == ExceedSpec => []PressesAreCounted
<1>1. ExceedInit => FrameInv
  BY DEF ExceedInit, FrameInv, PressesAreCounted
<1>2. FrameInv /\ [IoNext \/ EepromNext]_vars_exceed => FrameInv'
  BY FrameStep
<1>3. FrameInv => PressesAreCounted
  BY DEF FrameInv
<1> QED
  BY <1>1, <1>2, <1>3, PTL DEF ExceedSpec

-----------------------------------------------------------------------------
(* The eeprom of Exceed.  EepromInv is inductive: as long as no save or     *)
(* load was cut short, the file is what was written last, and the buffer    *)
(* begins with it.                                                          *)

AnyByte == EepromBytes \cup {"FF", "00"}

EepromInv ==
  /\ written \in Seq(AnyByte)
  /\ eeprom_file # Absent => eeprom_file \in Seq(AnyByte) /\ IsPrefix(eeprom_file, written)
  /\ eeprom_file # Absent /\ ~torn => eeprom_file = written
  /\ eeprom_pc = "hooked" =>
       eeprom_buffer \in Seq(AnyByte) /\ Len(eeprom_buffer) = EEPROM_SIZE
  /\ eeprom_pc = "hooked" /\ ~torn =>
       Len(written) <= EEPROM_SIZE /\ eeprom_buffer = Over(eeprom_buffer, written)

\* Storing the same bytes again changes nothing.
LEMMA OverTwice ==
  ASSUME NEW S, NEW buffer1 \in Seq(S), NEW bytes1 \in Seq(S), Len(bytes1) <= Len(buffer1)
  PROVE  /\ Over(buffer1, bytes1) \in Seq(S)
         /\ Len(Over(buffer1, bytes1)) = Len(buffer1)
         /\ Over(Over(buffer1, bytes1), bytes1) = Over(buffer1, bytes1)
<1> DEFINE rest == SubSeq(buffer1, Len(bytes1) + 1, Len(buffer1))
           once == bytes1 \o rest
<1>1. rest \in Seq(S) /\ Len(rest) = Len(buffer1) - Len(bytes1)
  OBVIOUS
<1>2. once \in Seq(S) /\ Len(once) = Len(buffer1)
  BY <1>1
<1>3. SubSeq(once, Len(bytes1) + 1, Len(once)) = rest
  <2> HIDE DEF rest
  <2> QED
    BY <1>1, <1>2
<1> QED
  BY <1>2, <1>3 DEF Over

\* Any part of what is written is the start of it.
LEMMA PartialIsPrefix ==
  ASSUME NEW S, NEW bytes1 \in Seq(S), NEW part \in Partial(bytes1)
  PROVE  part \in Seq(S) /\ IsPrefix(part, bytes1)
<1>1. PICK n \in 0 .. Len(bytes1) - 1 : part = SubSeq(bytes1, 1, n)
  BY DEF Partial
<1>2. Len(part) = n /\ part \in Seq(S)
  BY <1>1
<1>3. SubSeq(part, 1, n) = part
  BY <1>2
<1> QED
  BY <1>1, <1>2, <1>3 DEF IsPrefix

LEMMA WholeIsPrefix ==
  ASSUME NEW S, NEW bytes1 \in Seq(S)
  PROVE  IsPrefix(bytes1, bytes1)
BY DEF IsPrefix

LEMMA EepromStep ==
  ASSUME EepromInv, IoNext \/ EepromNext \/ UNCHANGED vars_exceed
  PROVE  EepromInv'
<1>0. EEPROM_SIZE \in Nat
  BY SizeIsNat
<1>f. ASSUME NEW byte \in AnyByte
      PROVE  Filled(byte, EEPROM_SIZE) \in Seq(AnyByte)
             /\ Len(Filled(byte, EEPROM_SIZE)) = EEPROM_SIZE
  BY <1>0 DEF Filled
<1>w. ASSUME NEW word \in Words
      PROVE  word \in Seq(AnyByte)
  BY <1>0 DEF Words, AnyByte
<1>1. ASSUME NEW loads \in BOOLEAN, exchook_eeprom_init(loads)
      PROVE  EepromInv'
  <2> DEFINE new == Filled("FF", EEPROM_SIZE)
             clear == Filled("00", EEPROM_SIZE)
  <2>n. /\ new \in Seq(AnyByte) /\ Len(new) = EEPROM_SIZE
        /\ clear \in Seq(AnyByte) /\ Len(clear) = EEPROM_SIZE
    BY <1>f DEF AnyByte
  <2>c. \/ /\ written' = new /\ eeprom_buffer' = new
           /\ eeprom_file' = new \/ (eeprom_file' \in Partial(new) /\ torn')
        \/ /\ eeprom_file # Absent /\ eeprom_pc' = "unhooked"
           /\ UNCHANGED <<eeprom_file, written, torn>>
        \/ /\ eeprom_file # Absent /\ Len(eeprom_file) <= EEPROM_SIZE
           /\ eeprom_buffer' = Over(clear, eeprom_file)
           /\ UNCHANGED <<eeprom_file, written, torn>>
        \/ /\ eeprom_file # Absent /\ torn' /\ eeprom_buffer' = clear
           /\ UNCHANGED <<eeprom_file, written>>
    <3>1. eeprom_file # Absent => Len(eeprom_file) \in Nat
      BY DEF EepromInv
    <3> QED
      BY <1>0, <1>1, <3>1 DEF exchook_eeprom_init
  <2> HIDE DEF new, clear
  <2>1. CASE /\ written' = new /\ eeprom_buffer' = new
             /\ eeprom_file' = new \/ (eeprom_file' \in Partial(new) /\ torn')
    <3>1. new = Over(new, new)
      <4>1. SubSeq(new, Len(new) + 1, Len(new)) = <<>>
        BY <2>n, <1>0
      <4> QED
        BY <2>n, <4>1 DEF Over
    <3>2. eeprom_file' \in Seq(AnyByte) /\ IsPrefix(eeprom_file', new)
      BY <2>n, <2>1, PartialIsPrefix, WholeIsPrefix
    <3> QED
      BY <1>0, <2>n, <2>1, <3>1, <3>2 DEF EepromInv
  <2>2. CASE /\ eeprom_file # Absent /\ eeprom_pc' = "unhooked"
             /\ UNCHANGED <<eeprom_file, written, torn>>
    BY <2>2 DEF EepromInv
  <2>3. CASE /\ eeprom_file # Absent /\ Len(eeprom_file) <= EEPROM_SIZE
             /\ eeprom_buffer' = Over(clear, eeprom_file)
             /\ UNCHANGED <<eeprom_file, written, torn>>
    <3>1. eeprom_file \in Seq(AnyByte)
      BY <2>3 DEF EepromInv
    <3>2. /\ eeprom_buffer' \in Seq(AnyByte) /\ Len(eeprom_buffer') = EEPROM_SIZE
          /\ Over(eeprom_buffer', eeprom_file) = eeprom_buffer'
      BY <2>n, <2>3, <3>1, OverTwice
    <3> QED
      BY <2>3, <3>1, <3>2 DEF EepromInv
  <2>4. CASE /\ eeprom_file # Absent /\ torn' /\ eeprom_buffer' = clear
             /\ UNCHANGED <<eeprom_file, written>>
    BY <2>n, <2>4 DEF EepromInv
  <2> QED
    BY <2>c, <2>1, <2>2, <2>3, <2>4
<1>2. ASSUME NEW word \in Words, exchook_eeprom_write(word)
      PROVE  EepromInv'
  <2>1. word \in Seq(AnyByte)
    BY <1>w
  <2>2. eeprom_pc = "hooked" /\ eeprom_pc' = eeprom_pc
    BY <1>2 DEF exchook_eeprom_write
  <2>3. CASE UNCHANGED <<eeprom_file, eeprom_buffer, written, torn>>
    BY <2>2, <2>3 DEF EepromInv
  <2>4. CASE Len(word) <= EEPROM_SIZE
    <3>1. /\ eeprom_buffer' = Over(eeprom_buffer, word)
          /\ \/ eeprom_file' = word /\ written' = word
             \/ UNCHANGED <<eeprom_file, written>> /\ torn'
             \/ eeprom_file' \in Partial(word) /\ written' = word /\ torn'
      BY <1>0, <1>2, <2>1, <2>4 DEF exchook_eeprom_write, saved_bytes
    <3>2. /\ eeprom_buffer' \in Seq(AnyByte) /\ Len(eeprom_buffer') = EEPROM_SIZE
          /\ Over(eeprom_buffer', word) = eeprom_buffer'
      BY <2>1, <2>2, <2>4, <3>1, OverTwice DEF EepromInv
    <3>3. CASE eeprom_file' = word /\ written' = word
      BY <2>1, <2>4, <3>2, <3>3, WholeIsPrefix DEF EepromInv
    <3>4. CASE UNCHANGED <<eeprom_file, written>> /\ torn'
      BY <3>2, <3>4 DEF EepromInv
    <3>5. CASE eeprom_file' \in Partial(word) /\ written' = word /\ torn'
      BY <2>1, <3>2, <3>5, PartialIsPrefix DEF EepromInv
    <3> QED
      BY <3>1, <3>3, <3>4, <3>5
  <2>5. Len(word) \in Nat
    BY <2>1
  <2> QED
    BY <1>0, <1>2, <2>3, <2>4, <2>5 DEF exchook_eeprom_write
<1>3. ASSUME NEW word \in Words, PowerLost(word)
      PROVE  EepromInv'
  <2>1. eeprom_file' \in Partial(word) /\ written' = word /\ torn' /\ eeprom_pc' = "stopped"
    BY <1>3 DEF PowerLost, saved_bytes
  <2> QED
    BY <1>w, <2>1, PartialIsPrefix DEF EepromInv
<1>4. CASE GameStops
  BY <1>4 DEF GameStops, EepromInv
<1>5. CASE UNCHANGED eeprom
  BY <1>5 DEF eeprom, EepromInv
<1>6. CASE IoNext
  <2>1. UNCHANGED eeprom
    BY <1>6 DEF IoNext, exchook_io_check, exchook_io_input, GameTakes, Light, ExcMove,
                exchook_io_light_all, exchook_io_light_cab, exchook_io_light_ccfl
  <2> QED
    BY <1>5, <2>1
<1> QED
  BY <1>1, <1>2, <1>3, <1>4, <1>5, <1>6 DEF EepromNext, vars_exceed

\* What the game has stored last is there after any restart, whatever was in the
\* file at first, and a save that is cut short leaves the start of it.
THEOREM StoredIsFound == ExceedSpec => []EepromSurvives
<1>1. ExceedInit => EepromInv
  <2> SUFFICES ASSUME ExceedInit
               PROVE  EepromInv
    OBVIOUS
  <2>1. eeprom_file # Absent => eeprom_file \in Seq(AnyByte)
    BY FilesAreBytes DEF ExceedInit, AnyByte
  <2> QED
    BY <2>1, WholeIsPrefix DEF ExceedInit, EepromInv
<1>2. EepromInv /\ [IoNext \/ EepromNext]_vars_exceed => EepromInv'
  BY EepromStep
<1>3. EepromInv => EepromSurvives
  <2> SUFFICES ASSUME EepromInv, eeprom_pc = "hooked", ~torn
               PROVE  exchook_eeprom_read(EEPROM_SIZE)
                        = Over(exchook_eeprom_read(EEPROM_SIZE), written)
    BY DEF EepromInv, EepromSurvives
  <2>1. exchook_eeprom_read(EEPROM_SIZE) = eeprom_buffer
    BY SizeIsNat DEF EepromInv, exchook_eeprom_read
  <2> QED
    BY <2>1 DEF EepromInv
<1> QED
  BY <1>1, <1>2, <1>3, PTL DEF ExceedSpec

(*************** Keyboard: the inputs are down as their keys ***************)
\* The queue may hold any number of events of a key, and a release may be in the
\* hands of the thread: what a library has of the key and these events, taken in
\* their order, lead to the state the key is in.
Types == {"press", "release"}
KeyEvents == [type : Types, key : Keys, soon : BOOLEAN]

\* The event after which a key is as it is in S.
State(S, k) == IF k \in S THEN "press" ELSE "release"

\* The events of k in q, each a change, lead from the one before them to the last.
Leads(q, k, before, after) ==
  \E f \in [0 .. Len(q) -> Types] :
    /\ f[0] = before /\ f[Len(q)] = after
    /\ \A n \in 1 .. Len(q) :
         IF q[n].key = k THEN q[n].type # f[n - 1] /\ f[n] = q[n].type ELSE f[n] = f[n - 1]

\* The release of k that the thread has taken, and not dispatched yet.
Holds(k) == loop.pc \in {"released", "peek", "drop"} /\ loop.key = k

KeyTypes ==
  /\ patch \in {"main_loop", "event_loop"} /\ down \subseteq Keys /\ queue \in Seq(KeyEvents)
  /\ key_buffer \in [Boards -> SUBSET Keys]
  /\ keyboard_conf \in [Boards -> KeyFiles \cup {NULL}]
  /\ key_files \in [{"lib", "executable"} -> KeyFiles \cup {NULL}]
  /\ loop \in [pc : {"none", "select", "run", "next"}]
              \cup [pc : {"released", "peek", "drop"}, key : Keys]
  /\ ctx \in {NULL} \cup [run : BOOLEAN, window : Windows]
  /\ ctx = NULL \/ patch = "main_loop" => loop.pc = "none"

\* What the thread is about to drop is the press of a repeat.
DropsARepeat ==
  loop.pc = "drop" => queue # <<>> /\ queue[1].type = "press" /\ queue[1].key = loop.key

\* What an open library has of a key, and the events on the way, lead to the key.
Follows(b, k) ==
  /\ Leads(queue, k, IF Holds(k) THEN "release" ELSE State(key_buffer[b], k), State(down, k))
  /\ Holds(k) => k \in key_buffer[b]

Followed ==
  \A b \in Boards : \A k \in Keys \ missed :
    keyboard_conf[b] # NULL /\ dispatches(k) => Follows(b, k)

\* The inductive invariant.
KeyInv == KeyTypes /\ (~game_reads => DropsARepeat /\ Followed)

\* Without an event of its own a key stays as it is.
LEMMA LeadsNowhere ==
  ASSUME NEW q \in Seq(KeyEvents), NEW k, NEW a \in Types, \A n \in 1 .. Len(q) : q[n].key # k
  PROVE  Leads(q, k, a, a)
<1> DEFINE f == [n \in 0 .. Len(q) |-> a]
<1>1. Len(q) \in Nat
  OBVIOUS
<1>2. f \in [0 .. Len(q) -> Types] /\ f[0] = a /\ f[Len(q)] = a
  BY <1>1
<1>3. \A n \in 1 .. Len(q) : f[n] = f[n - 1]
  BY <1>1
<1> QED
  BY <1>2, <1>3 DEF Leads

\* And so it does when no event waits.
LEMMA LeadsFromNowhere ==
  ASSUME NEW k, NEW a, NEW z, Leads(<<>>, k, a, z)
  PROVE  a = z
BY DEF Leads

\* The first event is taken.
LEMMA LeadsOn ==
  ASSUME NEW q \in Seq(KeyEvents), q # <<>>, NEW k, NEW a, NEW z, Leads(q, k, a, z)
  PROVE  /\ q[1].key = k => q[1].type # a
         /\ Leads(Tail(q), k, IF q[1].key = k THEN q[1].type ELSE a, z)
<1> DEFINE len == Len(q)
           t == Tail(q)
           b == IF q[1].key = k THEN q[1].type ELSE a
<1>1. len \in Nat /\ len > 0 /\ Len(t) = len - 1 /\ \A n \in 1 .. Len(t) : t[n] = q[n + 1]
  BY HeadTailProperties
<1>2. PICK f \in [0 .. len -> Types] :
        /\ f[0] = a /\ f[len] = z
        /\ \A n \in 1 .. len :
             IF q[n].key = k THEN q[n].type # f[n - 1] /\ f[n] = q[n].type ELSE f[n] = f[n - 1]
  BY DEF Leads
<1> HIDE DEF t, len
<1>3. 1 \in 1 .. len /\ 1 - 1 = 0
  BY <1>1
<1>4. (q[1].key = k => q[1].type # a) /\ f[1] = b
  BY <1>2, <1>3
<1> DEFINE g == [n \in 0 .. Len(t) |-> f[n + 1]]
<1>5. g \in [0 .. Len(t) -> Types] /\ g[0] = b /\ g[Len(t)] = z
  <2>1. \A n \in 0 .. Len(t) : n + 1 \in 0 .. len
    BY <1>1
  <2>2. 0 \in 0 .. Len(t) /\ Len(t) \in 0 .. Len(t) /\ 0 + 1 = 1 /\ Len(t) + 1 = len
    BY <1>1
  <2> QED
    BY <1>2, <1>4, <2>1, <2>2
<1>6. ASSUME NEW n \in 1 .. Len(t)
      PROVE  IF t[n].key = k THEN t[n].type # g[n - 1] /\ g[n] = t[n].type ELSE g[n] = g[n - 1]
  <2>1. n + 1 \in 1 .. len /\ n \in 0 .. Len(t) /\ n - 1 \in 0 .. Len(t)
        /\ (n + 1) - 1 = n /\ (n - 1) + 1 = n
    BY <1>1
  <2>2. g[n] = f[n + 1] /\ g[n - 1] = f[n] /\ t[n] = q[n + 1]
    BY <1>1, <2>1
  <2>3. IF q[n + 1].key = k THEN q[n + 1].type # f[(n + 1) - 1] /\ f[n + 1] = q[n + 1].type
        ELSE f[n + 1] = f[(n + 1) - 1]
    BY <1>2, <2>1
  <2> QED
    BY <2>1, <2>2, <2>3
<1> HIDE DEF g
<1>7. Leads(t, k, b, z)
  BY <1>5, <1>6 DEF Leads
<1> QED
  BY <1>4, <1>7 DEF t

\* An event comes.
LEMMA LeadsFurther ==
  ASSUME NEW q \in Seq(KeyEvents), NEW e \in KeyEvents, NEW k, NEW a, NEW z, Leads(q, k, a, z),
         e.key = k => e.type # z
  PROVE  Leads(Append(q, e), k, a, IF e.key = k THEN e.type ELSE z)
<1> DEFINE len == Len(q)
           r == Append(q, e)
           y == IF e.key = k THEN e.type ELSE z
<1>1. /\ len \in Nat /\ Len(r) = len + 1 /\ r[len + 1] = e
      /\ \A n \in 1 .. len : r[n] = q[n]
  BY AppendProperties
<1>2. PICK f \in [0 .. len -> Types] :
        /\ f[0] = a /\ f[len] = z
        /\ \A n \in 1 .. len :
             IF q[n].key = k THEN q[n].type # f[n - 1] /\ f[n] = q[n].type ELSE f[n] = f[n - 1]
  BY DEF Leads
<1>3. y \in Types
  BY <1>1, <1>2 DEF KeyEvents
<1> HIDE DEF r, len, y
<1> DEFINE g == [n \in 0 .. len + 1 |-> IF n = len + 1 THEN y ELSE f[n]]
<1>4. g \in [0 .. len + 1 -> Types] /\ g[0] = a /\ g[len + 1] = y
  BY <1>1, <1>2, <1>3
<1>5. \A n \in 0 .. len : g[n] = f[n]
  BY <1>1
<1>6. ASSUME NEW n \in 1 .. len + 1
      PROVE  IF r[n].key = k THEN r[n].type # g[n - 1] /\ g[n] = r[n].type ELSE g[n] = g[n - 1]
  <2>1. CASE n \in 1 .. len
    <3>1. n \in 0 .. len /\ n - 1 \in 0 .. len
      BY <1>1, <2>1
    <3>2. g[n] = f[n] /\ g[n - 1] = f[n - 1] /\ r[n] = q[n]
      BY <1>1, <1>5, <2>1, <3>1
    <3> QED
      BY <1>2, <2>1, <3>2
  <2>2. CASE n = len + 1
    <3>1. n - 1 = len /\ len \in 0 .. len
      BY <1>1, <2>2
    <3>2. g[n - 1] = z /\ g[n] = y /\ r[n] = e
      BY <1>1, <1>2, <1>4, <1>5, <2>2, <3>1
    <3> QED
      BY <3>2 DEF y
  <2> QED
    BY <1>1, <2>1, <2>2
<1> HIDE DEF g
<1>7. Leads(r, k, a, y)
  BY <1>1, <1>4, <1>6 DEF Leads
<1> QED
  BY <1>7 DEF r, y

-----------------------------------------------------------------------------
LEMMA DispatchedIsKey == \A key \in Keys : Dispatched(key) \subseteq Keys
BY DEF Dispatched

LEMMA KeyTypesStep ==
  ASSUME KeyTypes, KeyboardNext \/ UNCHANGED vars_keyboard
  PROVE  KeyTypes'
<1> USE DEF KeyTypes, constant, program, tools, threads
<1>1. ASSUME NEW b \in Boards, ptapi_io_keyboard_open(b)
      PROVE  KeyTypes'
  <2>1. keyboard_conf_read \in KeyFiles \cup {NULL}
    BY DEF keyboard_conf_read
  <2> QED
    BY <1>1, <2>1 DEF ptapi_io_keyboard_open
<1>2. ASSUME NEW b \in Boards, ptapi_io_keyboard_close(b)
      PROVE  KeyTypes'
  BY <1>2 DEF ptapi_io_keyboard_close
<1>3. ASSUME queue # <<>>
      PROVE  /\ Tail(queue) \in Seq(KeyEvents) /\ Head(queue) = queue[1] /\ queue[1] \in KeyEvents
             /\ Len(queue) > 1 => Tail(Tail(queue)) \in Seq(KeyEvents)
  <2>1. Tail(queue) \in Seq(KeyEvents) /\ Len(Tail(queue)) = Len(queue) - 1 /\ Len(queue) \in Nat
    BY <1>3, HeadTailProperties
  <2>2. Head(queue) = queue[1] /\ queue[1] \in KeyEvents
    BY <1>3
  <2>3. Len(queue) > 1 => Tail(queue) # <<>>
    <3> DEFINE t == Tail(queue)
    <3>1. Len(t) = Len(queue) - 1
      BY <2>1
    <3> HIDE DEF t
    <3>2. Len(queue) > 1 => t # <<>>
      BY <2>1, <3>1
    <3> QED
      BY <3>2 DEF t
  <2> QED
    BY <2>1, <2>2, <2>3, HeadTailProperties
<1>4. ASSUME NEW key \in Keys, dispatch_key_press(key) \/ dispatch_key_release(key)
                      \/ UNCHANGED key_buffer
      PROVE  key_buffer' \in [Boards -> SUBSET Keys]
  <2>1. CASE dispatch_key_press(key)
    BY <2>1, DispatchedIsKey DEF dispatch_key_press
  <2>2. CASE dispatch_key_release(key)
    BY <2>2 DEF dispatch_key_release
  <2> QED
    BY <1>4, <2>1, <2>2
<1>5. CASE XNextEvent
  <2>1. queue' \in Seq(KeyEvents) /\ Head(queue) \in KeyEvents
    BY <1>3, <1>5 DEF XNextEvent
  <2>2. key_buffer' \in [Boards -> SUBSET Keys]
    <3>1. Head(queue).key \in Keys
      BY <2>1 DEF KeyEvents
    <3>2. \/ dispatch_key_press(Head(queue).key) \/ dispatch_key_release(Head(queue).key)
          \/ UNCHANGED key_buffer
      BY <1>5 DEF XNextEvent
    <3> QED
      BY <1>4, <3>1, <3>2
  <2> QED
    BY <1>5, <2>1, <2>2 DEF XNextEvent
<1>6. ASSUME NEW w \in Windows, XCreateWindow(w)
      PROVE  KeyTypes'
  <2>1. ctx' \in {NULL} \cup [run : BOOLEAN, window : Windows] /\ ctx' # NULL
    <3>1. [run |-> TRUE, window |-> w] \in [run : BOOLEAN, window : Windows]
      OBVIOUS
    <3>2. ctx' = IF ctx = NULL THEN [run |-> TRUE, window |-> w] ELSE ctx
      BY <1>6 DEF XCreateWindow
    <3> QED
      BY <3>1, <3>2, NULLIsNothing
  <2>2. loop' \in {loop, [pc |-> "select"]} /\ patch' = "event_loop"
    BY <1>6 DEF XCreateWindow
  <2> QED
    BY <1>6, <2>1, <2>2 DEF XCreateWindow
<1>7. ASSUME NEW w \in Windows, XDestroyWindow(w)
      PROVE  KeyTypes'
  BY <1>7, NULLIsNothing DEF XDestroyWindow
<1>8. CASE Joined
  BY <1>8 DEF Joined
<1>9. CASE Thread
  <2> USE <1>3 DEF Loop, Goto
  <2>1. CASE patch_x11_event_loop_run
    BY <2>1 DEF patch_x11_event_loop_run, libraries
  <2>2. CASE Outer
    BY <2>2 DEF Outer, libraries
  <2>3. CASE Take
    <3>1. key_buffer' \in [Boards -> SUBSET Keys]
      BY <1>4, <2>3 DEF Take, libraries, KeyEvents
    <3>2. loop' \in [pc : {"none", "select", "run", "next"}]
                  \cup [pc : {"released", "peek", "drop"}, key : Keys]
      BY <2>3 DEF Take, KeyEvents
    <3> QED
      BY <2>3, <3>1, <3>2 DEF Take
  <2>4. ASSUME Release, loop.pc \in {"released", "peek"}
        PROVE  /\ key_buffer' \in [Boards -> SUBSET Keys]
               /\ loop' = [pc |-> "run"]
    BY <1>4, <2>4 DEF Release
  <2>5. CASE Released
    BY <2>4, <2>5 DEF Released, libraries
  <2>6. CASE Peek
    BY <2>4, <2>6 DEF Peek, libraries
  <2>7. CASE Drop
    BY <2>7 DEF Drop, libraries
  <2> QED
    BY <1>9, <2>1, <2>2, <2>3, <2>5, <2>6, <2>7 DEF Thread
<1>10. ASSUME NEW k \in Keys, NEW soon \in BOOLEAN, KeyEvent(k, soon)
       PROVE  KeyTypes'
  <2>1. queue' \in Seq(KeyEvents)
    <3>1. [type |-> IF k \in down THEN "release" ELSE "press", key |-> k, soon |-> soon] \in KeyEvents
      BY DEF KeyEvents, Types
    <3> QED
      BY <1>10, <3>1, AppendProperties DEF KeyEvent
  <2>2. down' \subseteq Keys
    BY <1>10 DEF KeyEvent
  <2> QED
    BY <1>10, <2>1, <2>2 DEF KeyEvent
<1>11. CASE GameReads
  BY <1>3, <1>11 DEF GameReads
<1>12. CASE UNCHANGED vars_keyboard
  BY <1>12 DEF vars_keyboard
<1> QED
  BY <1>1, <1>2, <1>5, <1>6, <1>7, <1>8, <1>9, <1>10, <1>11, <1>12 DEF KeyboardNext

\* What is dispatched to the libraries is what they did not know yet.
LEMMA DispatchFollows ==
  ASSUME KeyTypes, KeyTypes', NEW key \in Keys, NEW on \in Types,
         IF on = "press" THEN dispatch_key_press(key) ELSE dispatch_key_release(key),
         down' = down, keyboard_conf' = keyboard_conf, \A k \in Keys : ~Holds(k)',
         \A b \in Boards : \A k \in Keys \ missed :
           keyboard_conf[b] # NULL /\ dispatches(k) =>
             Leads(queue', k, IF k = key THEN on ELSE State(key_buffer[b], k), State(down, k))
  PROVE  Followed'
<1> SUFFICES ASSUME NEW b \in Boards, NEW k \in Keys \ missed',
                    keyboard_conf[b] # NULL, dispatches(k)
             PROVE  Leads(queue', k, State(key_buffer'[b], k), State(down, k))
  BY DEF Followed, Follows
<1>1. key_buffer'[b] = IF on = "press" THEN key_buffer[b] \cup Dispatched(key)
                       ELSE key_buffer[b] \ Dispatched(key)
  BY DEF dispatch_key_press, dispatch_key_release
<1>2. State(key_buffer'[b], k) = IF k = key THEN on ELSE State(key_buffer[b], k)
  BY <1>1 DEF State, Dispatched, Types
<1>3. CASE k \notin missed
  BY <1>2, <1>3
<1>4. CASE k \in missed
  <2>1. k = key /\ (k \in down) = (on = "press") /\ \A n \in DOMAIN queue' : queue'[n].key # k
    BY <1>4 DEF dispatch_key_press, dispatch_key_release, Caught, Types
  <2>2. State(down, k) = on
    BY <2>1 DEF State, Types
  <2>3. Leads(queue', k, on, on)
    BY <2>1, LeadsNowhere DEF KeyTypes
  <2> QED
    BY <1>2, <2>1, <2>2, <2>3
<1> QED
  BY <1>3, <1>4

\* Steps that no key takes part in.
LEMMA QuietFollows ==
  ASSUME Followed, UNCHANGED <<queue, key_buffer, down, missed>>,
         \A b \in Boards : keyboard_conf'[b] # NULL => keyboard_conf[b] # NULL,
         \A k \in Keys : Holds(k)' = Holds(k)
  PROVE  Followed'
BY DEF Followed, Follows, Leads, State

\* The first event of the queue.
LEMMA FirstFollows ==
  ASSUME KeyTypes, queue # <<>>, NEW b \in Boards, NEW k \in Keys, Follows(b, k)
  PROVE  /\ Head(queue) = queue[1] /\ queue[1] \in KeyEvents /\ queue[1].key \in Keys
         /\ queue[1].type \in Types
         /\ queue[1].key = k =>
              /\ queue[1].type # IF Holds(k) THEN "release" ELSE State(key_buffer[b], k)
              /\ Leads(Tail(queue), k, queue[1].type, State(down, k))
         /\ queue[1].key # k =>
              Leads(Tail(queue), k, IF Holds(k) THEN "release" ELSE State(key_buffer[b], k),
                    State(down, k))
<1>1. queue \in Seq(KeyEvents)
  BY DEF KeyTypes
<1>2. Head(queue) = queue[1] /\ queue[1] \in KeyEvents
  BY <1>1
<1>3. queue[1].key \in Keys /\ queue[1].type \in Types
  BY <1>2 DEF KeyEvents
<1> DEFINE before == IF Holds(k) THEN "release" ELSE State(key_buffer[b], k)
<1>4. Leads(queue, k, before, State(down, k))
  BY DEF Follows
<1> HIDE DEF before
<1>5. /\ queue[1].key = k => queue[1].type # before
      /\ Leads(Tail(queue), k, IF queue[1].key = k THEN queue[1].type ELSE before, State(down, k))
  BY <1>1, <1>4, LeadsOn
<1> QED
  BY <1>2, <1>3, <1>5 DEF before

\* A library that is opened knows of no key that is down or has events waiting.
LEMMA OpenFollows ==
  ASSUME KeyTypes, Followed, NEW b \in Boards, ptapi_io_keyboard_open(b)
  PROVE  Followed'
<1> SUFFICES ASSUME NEW c \in Boards, NEW k \in Keys \ missed',
                    keyboard_conf'[c] # NULL, dispatches(k)
             PROVE  Follows(c, k)'
  BY DEF Followed
<1>1. /\ missed' = missed \cup down \cup Waiting
      /\ UNCHANGED <<down, queue, loop>>
      /\ keyboard_conf' = [keyboard_conf EXCEPT ![b] = keyboard_conf_read]
      /\ key_buffer' = [key_buffer EXCEPT ![b] = {}]
  BY DEF ptapi_io_keyboard_open, constant, tools, threads
<1>2. ~Holds(k)
  <2>1. loop.pc \in {"released", "peek", "drop"} => "key" \in DOMAIN loop
    BY DEF KeyTypes
  <2> QED
    BY <1>1, <2>1 DEF Waiting, Holds
<1>3. k \notin down /\ k \notin missed /\ \A n \in DOMAIN queue : queue[n].key # k
  BY <1>1 DEF Waiting
<1>4. CASE c = b
  <2>1. key_buffer'[c] = {}
    BY <1>1, <1>4 DEF KeyTypes
  <2>2. Leads(queue, k, "release", "release")
    BY <1>3, LeadsNowhere DEF KeyTypes, Types
  <2> QED
    BY <1>1, <1>2, <1>3, <2>1, <2>2 DEF Follows, State, Holds
<1>5. CASE c # b
  <2>1. key_buffer'[c] = key_buffer[c] /\ keyboard_conf'[c] = keyboard_conf[c]
    BY <1>1, <1>5 DEF KeyTypes
  <2>2. Follows(c, k)
    BY <1>3, <2>1 DEF Followed
  <2> QED
    BY <1>1, <2>1, <2>2 DEF Follows, State, Holds
<1> QED
  BY <1>4, <1>5

\* A key is pressed or released.
LEMMA EventFollows ==
  ASSUME KeyTypes, Followed, NEW key \in Keys, NEW soon \in BOOLEAN, KeyEvent(key, soon)
  PROVE  Followed'
<1> DEFINE delivered == patch = "main_loop" \/ selected # {}
           e == [type |-> IF key \in down THEN "release" ELSE "press", key |-> key, soon |-> soon]
<1> SUFFICES ASSUME NEW b \in Boards, NEW k \in Keys \ missed',
                    keyboard_conf'[b] # NULL, dispatches(k)
             PROVE  Follows(b, k)'
  BY DEF Followed
<1>1. /\ UNCHANGED <<key_buffer, keyboard_conf, loop>>
      /\ down' = IF key \in down THEN down \ {key} ELSE down \cup {key}
      /\ queue' = IF delivered THEN Append(queue, e) ELSE queue
      /\ missed' = IF delivered THEN missed ELSE missed \cup {key}
  BY DEF KeyEvent, constant, program, tools, threads
<1>2. k \notin missed /\ (~delivered => k # key)
  BY <1>1
<1>3. Follows(b, k)
  BY <1>1, <1>2 DEF Followed
<1> DEFINE before == IF Holds(k) THEN "release" ELSE State(key_buffer[b], k)
<1>4. Leads(queue, k, before, State(down, k)) /\ (Holds(k) => k \in key_buffer[b])
  BY <1>3 DEF Follows
<1>5. State(down', k) = IF k = key THEN e.type ELSE State(down, k)
  BY <1>1 DEF State
<1>6. e \in KeyEvents /\ e.key = key /\ (key = k => e.type # State(down, k))
  BY DEF KeyEvents, Types, State
<1>7. Leads(queue', k, before, State(down', k))
  <2> HIDE DEF before, e, delivered
  <2>1. CASE delivered
    <3>1. Leads(Append(queue, e), k, before, IF e.key = k THEN e.type ELSE State(down, k))
      BY <1>4, <1>6, LeadsFurther DEF KeyTypes
    <3> QED
      BY <1>1, <1>5, <1>6, <2>1, <3>1
  <2>2. CASE ~delivered
    BY <1>1, <1>2, <1>4, <1>5, <2>2
  <2> QED
    BY <2>1, <2>2
<1> QED
  BY <1>1, <1>4, <1>7 DEF Follows, Holds

\* patch/main-loop.c: no thread takes events.
LEMMA GameEventFollows ==
  ASSUME KeyTypes, KeyTypes', Followed, XNextEvent
  PROVE  Followed'
<1> DEFINE e == Head(queue)
           repeated == e.type = "release" /\ Len(queue) > 1 /\ is_key_repeated(e.key, queue[2])
<1>1. /\ queue # <<>> /\ patch = "main_loop"
      /\ queue' = IF repeated THEN Tail(Tail(queue)) ELSE Tail(queue)
      /\ IF e.type = "press" THEN dispatch_key_press(e.key)
         ELSE IF repeated THEN UNCHANGED <<key_buffer, missed>> ELSE dispatch_key_release(e.key)
      /\ UNCHANGED <<down, keyboard_conf, loop>>
  BY DEF XNextEvent, constant, tools, threads
<1>2. \A k \in Keys : ~Holds(k) /\ ~Holds(k)'
  BY <1>1 DEF KeyTypes, Holds
<1>3. e = queue[1] /\ e \in KeyEvents /\ e.key \in Keys /\ e.type \in Types
  <2>1. e = queue[1] /\ e \in KeyEvents
    BY <1>1 DEF KeyTypes
  <2> QED
    BY <2>1 DEF KeyEvents
<1> HIDE DEF e
<1>4. CASE ~repeated
  <2>1. IF e.type = "press" THEN dispatch_key_press(e.key) ELSE dispatch_key_release(e.key)
    BY <1>1, <1>4
  <2>2. ASSUME NEW b \in Boards, NEW k \in Keys \ missed, keyboard_conf[b] # NULL, dispatches(k)
        PROVE  Leads(queue', k, IF k = e.key THEN e.type ELSE State(key_buffer[b], k),
                     State(down, k))
    <3>1. Follows(b, k)
      BY <2>2 DEF Followed
    <3> QED
      BY <1>1, <1>2, <1>3, <1>4, <3>1, FirstFollows
  <2> QED
    BY <1>1, <1>2, <1>3, <2>1, <2>2, DispatchFollows
<1>5. CASE repeated
  <2> SUFFICES ASSUME NEW b \in Boards, NEW k \in Keys \ missed,
                      keyboard_conf[b] # NULL, dispatches(k)
               PROVE  Leads(queue', k, State(key_buffer[b], k), State(down, k))
    BY <1>1, <1>2, <1>5 DEF Followed, Follows, State, Types
  <2> DEFINE t == Tail(queue)
  <2>1. Follows(b, k)
    BY DEF Followed
  <2>2. /\ e.key = k => "release" # State(key_buffer[b], k) /\ Leads(t, k, "release", State(down, k))
        /\ e.key # k => Leads(t, k, State(key_buffer[b], k), State(down, k))
    BY <1>1, <1>2, <1>3, <1>5, <2>1, FirstFollows
  <2>3. t \in Seq(KeyEvents) /\ t[1] = queue[2] /\ Len(t) = Len(queue) - 1 /\ Len(queue) > 1
    <3>1. queue \in Seq(KeyEvents) /\ queue # <<>> /\ Len(queue) > 1
      BY <1>1, <1>5 DEF KeyTypes
    <3>2. t \in Seq(KeyEvents) /\ Len(t) = Len(queue) - 1 /\ \A i \in 1 .. Len(t) : t[i] = queue[i + 1]
      BY <3>1, HeadTailProperties
    <3> HIDE DEF t
    <3>3. 1 \in 1 .. Len(t)
      BY <3>1, <3>2
    <3> QED
      BY <3>1, <3>2, <3>3
  <2> HIDE DEF t
  <2>4. t # <<>> /\ t[1].key = e.key /\ t[1].type = "press"
    BY <1>5, <2>3 DEF is_key_repeated
  <2>5. queue' = Tail(t)
    BY <1>1, <1>5 DEF t
  <2>6. CASE e.key = k
    <3>1. State(key_buffer[b], k) = "press"
      BY <2>2, <2>6 DEF State
    <3> QED
      BY <2>2, <2>3, <2>4, <2>5, <2>6, <3>1, LeadsOn
  <2>7. CASE e.key # k
    BY <2>2, <2>3, <2>4, <2>5, <2>7, LeadsOn
  <2> QED
    BY <2>6, <2>7
<1> QED
  BY <1>4, <1>5

\* patch/x11-event-loop.c: its thread takes them.
LEMMA ThreadFollows ==
  ASSUME KeyTypes, KeyTypes', DropsARepeat, Followed, Thread
  PROVE  Followed' /\ DropsARepeat'
<1>1. UNCHANGED <<down, keyboard_conf>>
  BY DEF Thread, patch_x11_event_loop_run, Outer, Take, Released, Peek, Drop, Loop, constant
<1>2. CASE patch_x11_event_loop_run
  BY <1>1, <1>2, QuietFollows DEF patch_x11_event_loop_run, Loop, Goto, libraries, Holds, DropsARepeat
<1>3. CASE Outer
  BY <1>1, <1>3, QuietFollows DEF Outer, Loop, Goto, libraries, Holds, DropsARepeat
<1>4. CASE Take
  <2> DEFINE e == Head(queue)
  <2>1. queue # <<>> /\ queue' = Tail(queue) /\ loop.pc = "next"
    BY <1>4 DEF Take, Loop
  <2>2. \A k \in Keys : ~Holds(k)
    BY <2>1 DEF Holds
  <2>3. e = queue[1] /\ e \in KeyEvents /\ e.key \in Keys /\ e.type \in Types
    <3>1. e = queue[1] /\ e \in KeyEvents
      BY <2>1 DEF KeyTypes
    <3> QED
      BY <3>1 DEF KeyEvents
  <2> HIDE DEF e
  <2>4. ASSUME NEW b \in Boards, NEW k \in Keys \ missed, keyboard_conf[b] # NULL, dispatches(k)
        PROVE  /\ e.key = k => /\ e.type # State(key_buffer[b], k)
                               /\ Leads(queue', k, e.type, State(down, k))
               /\ e.key # k => Leads(queue', k, State(key_buffer[b], k), State(down, k))
    <3>1. Follows(b, k)
      BY <2>4 DEF Followed
    <3> QED
      BY <2>1, <2>2, <2>3, <3>1, FirstFollows
  <2>5. CASE e.type = "press"
    <3>1. dispatch_key_press(e.key) /\ loop' = [pc |-> "run"]
      BY <1>4, <2>5 DEF Take, Goto, e
    <3>2. (\A k \in Keys : ~Holds(k)') /\ DropsARepeat'
      BY <3>1 DEF Holds, DropsARepeat
    <3> QED
      BY <1>1, <2>3, <2>4, <2>5, <3>1, <3>2, DispatchFollows DEF Types
  <2>6. CASE e.type = "release"
    <3>1. loop' = [pc |-> "released", key |-> e.key] /\ UNCHANGED <<key_buffer, missed>>
      BY <1>4, <2>6 DEF Take, libraries, e
    <3>2. (\A k \in Keys : Holds(k)' = (k = e.key)) /\ DropsARepeat'
      BY <3>1 DEF Holds, DropsARepeat
    <3>3. ASSUME NEW b \in Boards, NEW k \in Keys \ missed, keyboard_conf[b] # NULL, dispatches(k)
          PROVE  Follows(b, k)'
      <4>1. CASE k = e.key
        <5>1. k \in key_buffer[b]
          BY <2>4, <2>6, <3>3, <4>1 DEF State
        <5> QED
          BY <1>1, <2>4, <2>6, <3>1, <3>2, <3>3, <4>1, <5>1 DEF Follows
      <4>2. CASE k # e.key
        BY <1>1, <2>4, <3>1, <3>2, <3>3, <4>2 DEF Follows
      <4> QED
        BY <4>1, <4>2
    <3> QED
      BY <1>1, <3>1, <3>2, <3>3 DEF Followed
  <2> QED
    BY <2>3, <2>5, <2>6 DEF Types
<1>5. ASSUME Release, loop.pc \in {"released", "peek"}, queue' = queue
      PROVE  Followed' /\ DropsARepeat'
  <2>1. loop.key \in Keys /\ (\A k \in Keys : Holds(k) <=> k = loop.key)
    BY <1>5 DEF KeyTypes, Holds
  <2>2. dispatch_key_release(loop.key) /\ loop' = [pc |-> "run"]
    BY <1>5 DEF Release, Goto
  <2>3. (\A k \in Keys : ~Holds(k)') /\ DropsARepeat'
    BY <2>2 DEF Holds, DropsARepeat
  <2>4. ASSUME NEW b \in Boards, NEW k \in Keys \ missed, keyboard_conf[b] # NULL, dispatches(k)
        PROVE  Leads(queue', k, IF k = loop.key THEN "release" ELSE State(key_buffer[b], k),
                     State(down, k))
    BY <1>5, <2>1, <2>4 DEF Followed, Follows
  <2> QED
    BY <1>1, <2>1, <2>2, <2>3, <2>4, DispatchFollows DEF Types
<1>6. ASSUME loop' = [loop EXCEPT !.pc = "peek"] \/ loop' = [loop EXCEPT !.pc = "drop"],
             loop.pc \in {"released", "peek"}, UNCHANGED <<queue, key_buffer, missed>>
      PROVE  Followed'
  <2>1. \A k \in Keys : Holds(k)' = Holds(k)
    BY <1>6 DEF Holds, KeyTypes
  <2> QED
    BY <1>1, <1>6, <2>1, QuietFollows
<1>7. CASE Released
  <2>1. loop.pc = "released" /\ queue' = queue
    BY <1>7 DEF Released, Loop
  <2>2. CASE queue = <<>>
    BY <1>5, <1>7, <2>1, <2>2 DEF Released
  <2>3. CASE queue # <<>>
    <3>1. loop' = [loop EXCEPT !.pc = "peek"] /\ UNCHANGED <<key_buffer, missed>>
      BY <1>7, <2>3 DEF Released, libraries
    <3>2. loop'.pc = "peek"
      BY <2>1, <3>1 DEF KeyTypes
    <3> QED
      BY <1>6, <2>1, <3>1, <3>2 DEF DropsARepeat
  <2> QED
    BY <2>2, <2>3
<1>8. CASE Peek
  <2>1. loop.pc = "peek" /\ queue' = queue /\ queue # <<>>
    BY <1>8 DEF Peek, Loop
  <2>2. CASE ~is_key_repeated(loop.key, Head(queue))
    BY <1>5, <1>8, <2>1, <2>2 DEF Peek
  <2>3. CASE is_key_repeated(loop.key, Head(queue))
    <3>1. loop' = [loop EXCEPT !.pc = "drop"] /\ UNCHANGED <<key_buffer, missed>>
      BY <1>8, <2>3 DEF Peek, libraries
    <3>2. loop'.key = loop.key
      BY <2>1, <3>1 DEF KeyTypes
    <3>3. Head(queue) = queue[1]
      BY <2>1 DEF KeyTypes
    <3>4. DropsARepeat'
      BY <2>1, <2>3, <3>2, <3>3 DEF DropsARepeat, is_key_repeated
    <3> QED
      BY <1>6, <2>1, <3>1, <3>4
  <2> QED
    BY <2>2, <2>3
<1>9. CASE Drop
  <2>1. /\ loop.pc = "drop" /\ queue # <<>> /\ queue' = Tail(queue) /\ loop' = [pc |-> "run"]
        /\ UNCHANGED <<key_buffer, missed>>
    BY <1>9 DEF Drop, Loop, Goto, libraries
  <2>2. /\ loop.key \in Keys /\ (\A k \in Keys : Holds(k) <=> k = loop.key)
        /\ (\A k \in Keys : ~Holds(k)') /\ DropsARepeat'
    BY <2>1 DEF KeyTypes, Holds, DropsARepeat
  <2>3. queue[1].type = "press" /\ queue[1].key = loop.key
    BY <2>1 DEF DropsARepeat
  <2>4. ASSUME NEW b \in Boards, NEW k \in Keys \ missed, keyboard_conf[b] # NULL, dispatches(k)
        PROVE  Leads(queue', k, State(key_buffer[b], k), State(down, k))
    <3>1. Follows(b, k)
      BY <2>4 DEF Followed
    <3>2. CASE k = loop.key
      <4>1. State(key_buffer[b], k) = "press"
        BY <2>2, <3>1, <3>2 DEF Follows, State
      <4> QED
        BY <2>1, <2>3, <3>1, <3>2, <4>1, FirstFollows
    <3>3. CASE k # loop.key
      BY <2>1, <2>2, <2>3, <3>1, <3>3, FirstFollows
    <3> QED
      BY <3>2, <3>3
  <2> QED
    BY <1>1, <2>1, <2>2, <2>4 DEF Followed, Follows
<1> QED
  BY <1>2, <1>3, <1>4, <1>7, <1>8, <1>9 DEF Thread

\* Every step keeps the invariant.
LEMMA KeyStep == KeyInv /\ [KeyboardNext]_vars_keyboard => KeyInv'
<1> SUFFICES ASSUME KeyInv, KeyboardNext \/ UNCHANGED vars_keyboard
             PROVE  KeyInv'
  OBVIOUS
<1>1. KeyTypes /\ KeyTypes'
  BY KeyTypesStep DEF KeyInv
<1> SUFFICES ASSUME ~game_reads'
             PROVE  DropsARepeat' /\ Followed'
  BY <1>1 DEF KeyInv
<1>2. ~game_reads
  BY DEF KeyboardNext, vars_keyboard, constant, ptapi_io_keyboard_open, ptapi_io_keyboard_close,
         XNextEvent, XCreateWindow, XDestroyWindow, Joined, Thread, patch_x11_event_loop_run, Outer,
         Take, Released, Peek, Drop, Loop, KeyEvent, GameReads
<1>3. DropsARepeat /\ Followed
  BY <1>2 DEF KeyInv
<1>4. ASSUME UNCHANGED <<queue, key_buffer, down, missed>>,
             \A b \in Boards : keyboard_conf'[b] # NULL => keyboard_conf[b] # NULL,
             loop' = loop \/ (loop.pc = "none" /\ loop' = [pc |-> "select"])
      PROVE  DropsARepeat' /\ Followed'
  BY <1>3, <1>4, QuietFollows DEF DropsARepeat, Holds
<1>5. ASSUME NEW b \in Boards, ptapi_io_keyboard_open(b)
      PROVE  DropsARepeat' /\ Followed'
  <2>1. Followed'
    BY <1>1, <1>3, <1>5, OpenFollows
  <2> QED
    BY <1>3, <1>5, <2>1 DEF ptapi_io_keyboard_open, threads, DropsARepeat
<1>6. ASSUME NEW b \in Boards, ptapi_io_keyboard_close(b)
      PROVE  DropsARepeat' /\ Followed'
  BY <1>1, <1>4, <1>6 DEF ptapi_io_keyboard_close, threads, KeyTypes
<1>7. CASE XNextEvent
  <2>1. Followed'
    BY <1>1, <1>3, <1>7, GameEventFollows
  <2>2. loop'.pc = "none"
    BY <1>1, <1>7 DEF XNextEvent, threads, KeyTypes
  <2> QED
    BY <2>1, <2>2 DEF DropsARepeat
<1>8. ASSUME NEW w \in Windows, XCreateWindow(w) \/ XDestroyWindow(w)
      PROVE  DropsARepeat' /\ Followed'
  BY <1>1, <1>4, <1>8 DEF XCreateWindow, XDestroyWindow, program, KeyTypes
<1>9. CASE Joined
  BY <1>4, <1>9 DEF Joined, program
<1>10. CASE Thread
  BY <1>1, <1>3, <1>10, ThreadFollows
<1>11. ASSUME NEW k \in Keys, NEW soon \in BOOLEAN, KeyEvent(k, soon)
       PROVE  DropsARepeat' /\ Followed'
  <2>1. Followed'
    BY <1>1, <1>3, <1>11, EventFollows
  <2>2. DropsARepeat'
    <3> DEFINE e == [type |-> IF k \in down THEN "release" ELSE "press", key |-> k, soon |-> soon]
    <3>1. loop' = loop /\ (queue' = queue \/ queue' = Append(queue, e))
      BY <1>11 DEF KeyEvent, threads
    <3>2. queue # <<>> => queue' # <<>> /\ queue'[1] = queue[1]
      <4>1. queue \in Seq(KeyEvents) /\ e \in KeyEvents
        BY <1>1 DEF KeyTypes, KeyEvents, Types
      <4> HIDE DEF e
      <4>2. /\ Len(Append(queue, e)) = Len(queue) + 1 /\ Append(queue, e) \in Seq(KeyEvents)
            /\ \A n \in 1 .. Len(queue) : Append(queue, e)[n] = queue[n]
        BY <4>1, AppendProperties
      <4>3. queue # <<>> => 1 \in 1 .. Len(queue)
        BY <4>1
      <4> QED
        BY <3>1, <4>1, <4>2, <4>3
    <3> QED
      BY <1>3, <3>1, <3>2 DEF DropsARepeat
  <2> QED
    BY <2>1, <2>2
<1>12. CASE GameReads
  BY <1>2, <1>12 DEF GameReads
<1>13. CASE UNCHANGED vars_keyboard
  BY <1>4, <1>13 DEF vars_keyboard, program, threads
<1> QED
  BY <1>5, <1>6, <1>7, <1>8, <1>9, <1>10, <1>11, <1>12, <1>13 DEF KeyboardNext

\* For every set of libraries, keys and windows and every length of the queue: once
\* no event waits, an input is down exactly when its key is (XNextEvent,
\* patch_x11_event_loop_run and the key buffers of the libraries).
THEOREM InputsAreKeys == KeyboardSpec => []InputsFollowKeys
<1>1. KeyboardInit => KeyInv
  <2> SUFFICES ASSUME KeyboardInit
               PROVE  KeyInv
    OBVIOUS
  <2>1. KeyTypes
    BY DEF KeyboardInit, KeyTypes
  <2>2. DropsARepeat
    BY DEF KeyboardInit, DropsARepeat
  <2>3. Followed
    BY DEF KeyboardInit, Followed
  <2> QED
    BY <2>1, <2>2, <2>3 DEF KeyInv
<1>2. KeyInv => InputsFollowKeys
  <2> SUFFICES ASSUME KeyInv, ~game_reads, queue = <<>>, loop.pc \in {"none", "select", "run"},
                      NEW b \in Boards, NEW i \in Range(KeyInputs), keyboard_conf[b] # NULL,
                      NEW k \in Keys \ missed, Sym[k] \in 1 .. KEY_MAP_SIZE - 1,
                      keyboard_conf[b][i] = Sym[k]
               PROVE  ptapi_io_keyboard_get_input(b, i) = {(k \in down)}
    BY DEF InputsFollowKeys
  <2>1. dispatches(k) /\ Sym[k] < KEY_MAP_SIZE /\ Sym[k] > 0
    BY KeysHaveSymbols DEF dispatches
  <2>2. ~Holds(k) /\ Follows(b, k)
    BY <2>1 DEF KeyInv, Followed, Holds
  <2>3. k \in key_buffer[b] <=> k \in down
    <3>1. Leads(<<>>, k, State(key_buffer[b], k), State(down, k))
      BY <2>2 DEF Follows
    <3>2. State(key_buffer[b], k) = State(down, k)
      BY <3>1, LeadsFromNowhere
    <3> QED
      BY <3>2 DEF State
  <2>4. (\E j \in key_buffer[b] : Sym[j] = Sym[k]) <=> k \in key_buffer[b]
    BY <2>1, KeysHaveSymbols DEF KeyInv, KeyTypes
  <2>5. ptapi_io_keyboard_get_input(b, i) = {\E j \in key_buffer[b] : Sym[j] = Sym[k]}
    BY <2>1 DEF ptapi_io_keyboard_get_input, buffer_at
  <2>6. CASE k \in down
    <3>1. (\E j \in key_buffer[b] : Sym[j] = Sym[k]) = TRUE /\ (k \in down) = TRUE
      BY <2>3, <2>4, <2>6
    <3> QED
      BY <2>5, <3>1, Zenon
  <2>7. CASE k \notin down
    <3>1. (\E j \in key_buffer[b] : Sym[j] = Sym[k]) = FALSE /\ (k \in down) = FALSE
      BY <2>3, <2>4, <2>7
    <3> QED
      BY <2>5, <3>1, Zenon
  <2> QED
    BY <2>6, <2>7
<1> QED
  BY <1>1, <1>2, KeyStep, PTL DEF KeyboardSpec

(******************************** Joysticks ********************************)
\* A set of numbers that is not empty has a least one.
LEMMA LeastOf ==
  ASSUME NEW T \in SUBSET Nat, NEW n \in T
  PROVE  \E m \in T : \A k \in T : m <= k
<1> DEFINE R == OpToRel(<, Nat)
<1>1. \A x, y \in Nat : <<x, y>> \in R <=> x < y
  BY DEF OpToRel
<1>2. IsWellFoundedOn(R, Nat)
  BY NatLessThanWellFounded
<1> HIDE DEF R
<1>3. PICK m \in T : \A k \in T : ~(<<k, m>> \in R)
  BY <1>2, WFMin
<1>4. \A k \in T : k \in Nat /\ m \in Nat /\ ~(k < m)
  BY <1>1, <1>3
<1> QED BY <1>4

\* A finite set has as many elements before one of them as that one's place says,
\* so that every place of its order is taken, and by an element of the set.
LEMMA OrderedIsOnto ==
  ASSUME NEW S, IsFiniteSet(S), NEW before,
         \A a \in S : <<a, a>> \notin before,
         \A a, b \in S : a # b => <<a, b>> \in before \/ <<b, a>> \in before,
         \A a, b, c \in S : <<a, b>> \in before /\ <<b, c>> \in before => <<a, c>> \in before
  PROVE  /\ Cardinality(S) \in Nat
         /\ Ordered(S, before) \in [1 .. Cardinality(S) -> S]
<1> DEFINE n == Cardinality(S)
           Below(i) == {l \in S : <<l, i>> \in before}
           rank == [i \in S |-> Cardinality(Below(i))]
<1>1. n \in Nat
  BY FS_CardinalityType
<1>2. ASSUME NEW i \in S
      PROVE  IsFiniteSet(Below(i)) /\ Cardinality(Below(i)) \in 0 .. n - 1
  <2>1. IsFiniteSet(S \ {i}) /\ Cardinality(S \ {i}) = n - 1
    BY FS_RemoveElement
  <2>2. Below(i) \subseteq S \ {i}
    OBVIOUS
  <2> HIDE DEF Below
  <2>3. IsFiniteSet(Below(i)) /\ Cardinality(Below(i)) <= Cardinality(S \ {i})
    BY <2>1, <2>2, FS_Subset
  <2>4. Cardinality(Below(i)) \in Nat
    BY <2>3, FS_CardinalityType
  <2> QED BY <1>1, <2>1, <2>3, <2>4
<1>3. ASSUME NEW a \in S, NEW b \in S, <<a, b>> \in before
      PROVE  Cardinality(Below(a)) # Cardinality(Below(b))
  <2>1. a \notin Below(a) /\ Below(a) \cup {a} \subseteq Below(b)
    BY <1>3
  <2> HIDE DEF Below
  <2>2. Cardinality(Below(a) \cup {a}) = Cardinality(Below(a)) + 1
    BY <2>1, <1>2, FS_AddElement
  <2>3. Cardinality(Below(a) \cup {a}) <= Cardinality(Below(b))
    BY <2>1, <1>2, FS_Subset
  <2>4. Cardinality(Below(a)) \in Int /\ Cardinality(Below(b)) \in Int
    BY <1>2, <1>1
  <2> QED BY <2>2, <2>3, <2>4
<1>4. ASSUME NEW k \in 1 .. n
      PROVE  \E i \in S : Cardinality(Below(i)) = k - 1
  <2> SUFFICES ASSUME \A i \in S : Cardinality(Below(i)) # k - 1
               PROVE  FALSE
    OBVIOUS
  <2> DEFINE Q == 0 .. n - 1
             R == Q \ {k - 1}
  <2>1. IsFiniteSet(0 .. n - 1) /\ Cardinality(0 .. n - 1) = n
    <3>1. \A b \in Int : IsFiniteSet(0 .. b) /\ Cardinality(0 .. b) = IF 0 > b THEN 0 ELSE b - 0 + 1
      <4>1. 0 \in Int
        OBVIOUS
      <4> QED BY <4>1, FS_Interval, Zenon
    <3>2. n - 1 \in Int /\ n >= 1
      BY <1>1
    <3> HIDE DEF n
    <3>3. IsFiniteSet(0 .. n - 1) /\ Cardinality(0 .. n - 1) = IF 0 > n - 1 THEN 0 ELSE (n - 1) - 0 + 1
      BY <3>1, <3>2, Zenon
    <3> QED BY <3>2, <3>3, <1>1
  <2>2. k - 1 \in 0 .. n - 1
    BY <1>1
  <2>3. IsFiniteSet(R) /\ Cardinality(R) = n - 1
    <3>1. IsFiniteSet(Q) /\ Cardinality(Q) = n /\ k - 1 \in Q
      BY <2>1, <2>2
    <3> HIDE DEF n, Q
    <3> QED BY <3>1, FS_RemoveElement
  <2>4. rank \in [S -> R]
    <3> HIDE DEF Below, n
    <3> QED BY <1>2
  <2>5. Cardinality(R) < n
    BY <2>3, <1>1
  <2> HIDE DEF R, rank
  <2>6. PICK x, y \in S : x # y /\ rank[x] = rank[y]
    BY <2>3, <2>4, <2>5, FS_PigeonHole
  <2> QED BY <2>6, <1>3, ZenonT(60) DEF rank
<1>5. Ordered(S, before) = [k \in 1 .. n |-> CHOOSE i \in S : Cardinality(Below(i)) = k - 1]
  BY Zenon DEF Ordered
<1>6. ASSUME NEW k \in 1 .. n
      PROVE  (CHOOSE i \in S : Cardinality(Below(i)) = k - 1) \in S
  <2> HIDE DEF Below, n
  <2> QED BY <1>4
<1> HIDE DEF n, Below
<1>7. Ordered(S, before) \in [1 .. n -> S]
  BY <1>5, <1>6
<1> QED BY <1>1, <1>7 DEF n

\* Being a member is true or false.
LEMMA MemberIsBoolean == ASSUME NEW S, NEW x PROVE (x \in S) \in BOOLEAN
OBVIOUS

\* The configurations there may be: one entry for a stick.
UniqueKeys(c) == \A j, l \in DOMAIN c : SameKey(c[j], c[l]) => j = l
Configurations == {c \in Seq(Entries) : UniqueKeys(c)}

\* What the states of the buttons of a stick are once its events are taken.
GoodStick(s, h) ==
  s.pad # None =>
    /\ s.pad \in Pads
    /\ s = [pad |-> s.pad, gone |-> s.gone, announced |-> s.announced, queue |-> s.queue,
            button_state |-> s.button_state]
    /\ s.gone \in BOOLEAN /\ s.announced \in BOOLEAN
    /\ s.queue \in Seq(Nat \X BOOLEAN)
    /\ s.button_state \in [ButtonsOf(s.pad) -> BOOLEAN]
    /\ ~s.announced => s.queue = <<>>
    /\ s.announced /\ ~s.gone =>
         \A b \in ButtonsOf(s.pad) : Applied(s.button_state, s.queue)[b] = (b \in h[s.pad])

\* The tool is in its menu, or asks about an open stick and holds a good configuration.
GoodTool ==
  /\ GoodStick(tool.stick, held)
  /\ tool.pc = "menu" => tool = [pc |-> tool.pc, stick |-> tool.stick]
  /\ tool.pc # "menu" =>
       /\ tool.stick.pad # None
       /\ tool = [pc |-> tool.pc, folder |-> tool.folder, conf |-> tool.conf, entry |-> tool.entry,
                  asked |-> tool.asked, button |-> tool.button, stick |-> tool.stick]
       /\ tool.folder \in Folders
       /\ tool.conf \in Configurations
       /\ tool.entry \in Entries
       /\ tool.button # None => tool.button \in Nat

\* The inductive invariant: every configuration, in a file or in use, has one entry for
\* a stick; the entries in use are those of the open sticks; and the states of the
\* buttons of an open stick, once the events it has queued are taken, are as held.
JoyInv ==
  /\ js \in [Places -> Pads \cup {None}]
  /\ held \in [Pads -> SUBSET Nat] /\ \A p \in Pads : held[p] \subseteq ButtonsOf(p)
  /\ DOMAIN files = Folders
  /\ \A f \in Folders : files[f] # None => files[f] \in Configurations
  /\ opened \in BOOLEAN
  /\ opened => /\ conf \in Configurations
               /\ DOMAIN sticks = DOMAIN with_conf
               /\ \A k \in DOMAIN with_conf : with_conf[k] \in DOMAIN conf
  /\ ActiveFits
  /\ \A k \in DOMAIN sticks : GoodStick(sticks[k], held)
  /\ GoodTool

\* The buttons of a stick are numbers.
LEMMA ButtonsAreNumbers == \A p \in Pads : ButtonsOf(p) \subseteq Nat /\ NumButtons[p] \in Nat
BY JoystickAssumption DEF ButtonsOf

\* Without an event no state changes.
LEMMA AppliedNone ==
  ASSUME NEW D, NEW state \in [D -> BOOLEAN]
  PROVE  Applied(state, <<>>) = state
<1>1. Applied(state, <<>>) = [b \in D |-> state[b]]
  BY DEF Applied
<1> QED BY <1>1

\* An event more changes the state of its button alone.
LEMMA AppliedOneMore ==
  ASSUME NEW D, NEW state \in [D -> BOOLEAN], NEW q \in Seq(Nat \X BOOLEAN),
         NEW e \in Nat \X BOOLEAN, NEW c \in D
  PROVE  /\ c = e[1] => Applied(state, Append(q, e))[c] = e[2]
         /\ c # e[1] => Applied(state, Append(q, e))[c] = Applied(state, q)[c]
<1> DEFINE more == Append(q, e)
           n == Len(q) + 1
           old == {k \in DOMAIN q : q[k][1] = c}
           on == {k \in DOMAIN more : more[k][1] = c}
<1>1. /\ DOMAIN q = 1 .. Len(q) /\ Len(q) \in Nat /\ DOMAIN more = 1 .. n
      /\ \A k \in 1 .. Len(q) : more[k] = q[k]
      /\ more[n] = e
  BY AppendProperties
<1>3. Applied(state, more)[c] =
        IF on = {} THEN state[c] ELSE more[CHOOSE k \in on : \A l \in on : l <= k][2]
  BY Zenon DEF Applied
<1>4. Applied(state, q)[c] =
        IF old = {} THEN state[c] ELSE q[CHOOSE k \in old : \A l \in old : l <= k][2]
  BY Zenon DEF Applied
<1> HIDE DEF more
<1>5. CASE c = e[1]
  <2>1. n \in on /\ on \subseteq 1 .. n
    BY <1>1, <1>5
  <2>2. (CHOOSE k \in on : \A l \in on : l <= k) = n
    <3>1. n \in Nat /\ \A l \in on : l \in Nat /\ l <= n
      BY <1>1, <2>1
    <3> HIDE DEF on, n
    <3>2. \A k \in on : (\A l \in on : l <= k) <=> k = n
      BY <2>1, <3>1
    <3> QED BY <2>1, <3>2
  <2> HIDE DEF on
  <2>3. Applied(state, more)[c] = e[2]
    BY <1>1, <1>3, <2>1, <2>2
  <2> QED BY <1>5, <2>3 DEF more
<1>6. CASE c # e[1]
  <2>1. n \notin on
    BY <1>1, <1>6
  <2>2. on = old
    <3>1. \A k \in 1 .. n : k \in 1 .. Len(q) \/ k = n
      BY <1>1
    <3>2. \A k \in 1 .. Len(q) : k \in 1 .. n
      BY <1>1
    <3>3. on \subseteq old
      BY <1>1, <2>1, <3>1
    <3>4. old \subseteq on
      BY <1>1, <3>2
    <3> QED BY <3>3, <3>4
  <2>3. CASE old = {}
    <3> HIDE DEF on, old
    <3>1. Applied(state, more)[c] = Applied(state, q)[c]
      BY <1>3, <1>4, <2>2, <2>3
    <3> QED BY <1>6, <3>1 DEF more
  <2>4. CASE old # {}
    <3> DEFINE latest == CHOOSE k \in old : \A l \in old : l <= k
    <3>1. old \subseteq Nat /\ \A k \in old : k \in 1 .. Len(q)
      BY <1>1
    <3>2. PICK m \in old : \A l \in old : l <= m
      <4> DEFINE R == {Len(q) - k : k \in old}
      <4>1. R \in SUBSET Nat
        BY <1>1
      <4>2. PICK k \in old : TRUE
        BY <2>4
      <4>3. Len(q) - k \in R
        BY <4>2
      <4>4. PICK d \in R : \A x \in R : d <= x
        <5> HIDE DEF R
        <5> QED BY <4>1, <4>3, LeastOf
      <4>5. PICK m \in old : d = Len(q) - m
        BY <4>4
      <4>6. \A l \in old : d <= Len(q) - l
        BY <4>4
      <4>7. \A l \in old : l <= m
        <5> HIDE DEF old, R
        <5> QED BY <4>5, <4>6, <3>1, <1>1
      <4> QED BY <4>5, <4>7
    <3>3. latest \in old
      <4> HIDE DEF old
      <4> QED BY <3>2
    <3>4. latest \in 1 .. Len(q)
      BY <3>1, <3>3
    <3> HIDE DEF old, on
    <3>5. Applied(state, q)[c] = q[latest][2] /\ Applied(state, more)[c] = more[latest][2]
      BY <1>3, <1>4, <2>2, <2>4
    <3> HIDE DEF latest
    <3> QED BY <1>1, <1>6, <3>4, <3>5 DEF more
  <2> QED BY <2>3, <2>4
<1> QED BY <1>5, <1>6 DEF more

\* So an event more is an update of the state of its button.
LEMMA AppliedEvent ==
  ASSUME NEW D, NEW state \in [D -> BOOLEAN], NEW q \in Seq(Nat \X BOOLEAN), NEW e \in Nat \X BOOLEAN
  PROVE  Applied(state, Append(q, e)) = [Applied(state, q) EXCEPT ![e[1]] = e[2]]
<1> DEFINE F == Applied(state, Append(q, e))
           G == [Applied(state, q) EXCEPT ![e[1]] = e[2]]
<1>1. DOMAIN Applied(state, q) = D /\ DOMAIN F = D /\ F = [c \in D |-> F[c]]
  <2>1. \A events : /\ DOMAIN Applied(state, events) = D
                    /\ Applied(state, events) = [c \in D |-> Applied(state, events)[c]]
    BY DEF Applied
  <2> QED BY <2>1
<1>2. DOMAIN G = D /\ G = [c \in D |-> G[c]]
  BY <1>1
<1>3. ASSUME NEW c \in D
      PROVE  F[c] = G[c]
  <2>2. /\ c = e[1] => F[c] = e[2]
        /\ c # e[1] => F[c] = Applied(state, q)[c]
    BY AppliedOneMore
  <2> HIDE DEF F
  <2> QED BY <1>1, <2>2
<1> HIDE DEF F, G
<1>4. F = G
  BY <1>1, <1>2, <1>3
<1> QED BY <1>4 DEF F, G

\* What is announced is what is held.
LEMMA AppliedAnnounced ==
  ASSUME NEW p \in Pads, NEW state \in [ButtonsOf(p) -> BOOLEAN], NEW c \in ButtonsOf(p)
  PROVE  Applied(state, [k \in 1 .. NumButtons[p] |-> <<k - 1, k - 1 \in held[p]>>])[c] = (c \in held[p])
<1> DEFINE all == [k \in 1 .. NumButtons[p] |-> <<k - 1, k - 1 \in held[p]>>]
           on == {k \in DOMAIN all : all[k][1] = c}
<1>1. NumButtons[p] \in Nat /\ c \in Nat /\ c + 1 \in 1 .. NumButtons[p] /\ (c + 1) - 1 = c
  BY JoystickAssumption DEF ButtonsOf
<1>2. Applied(state, all)[c] =
        IF on = {} THEN state[c] ELSE all[CHOOSE k \in on : \A l \in on : l <= k][2]
  <2>1. c \in DOMAIN state
    OBVIOUS
  <2> HIDE DEF all
  <2> QED BY <2>1, Zenon DEF Applied
<1>3. on = {c + 1}
  <2>1. \A k \in 1 .. NumButtons[p] : all[k][1] = k - 1
    OBVIOUS
  <2>2. \A k \in 1 .. NumButtons[p] : k - 1 = c <=> k = c + 1
    BY <1>1
  <2>3. DOMAIN all = 1 .. NumButtons[p]
    OBVIOUS
  <2> HIDE DEF all
  <2> QED BY <2>1, <2>2, <2>3, <1>1
<1>4. (CHOOSE k \in on : \A l \in on : l <= k) = c + 1
  <2>1. c + 1 \in Int
    BY <1>1
  <2> HIDE DEF on
  <2> QED BY <1>3, <2>1
<1>5. all[c + 1][2] = (c \in held[p])
  BY <1>1
<1> HIDE DEF all, on
<1>6. Applied(state, all)[c] = (c \in held[p])
  BY <1>2, <1>3, <1>4, <1>5
<1> QED BY <1>6 DEF all

\* A stick that is opened, whatever its states were when they were allocated.
LEMMA OpenedIsGood ==
  ASSUME NEW i \in Places, js[i] \in Pads, NEW garbage
  PROVE  /\ io_util_joystick_open(i, garbage).pad # None
         /\ GoodStick(io_util_joystick_open(i, garbage), held)
<1> DEFINE s == io_util_joystick_open(i, garbage)
<1>1. s = [pad |-> js[i], gone |-> FALSE, announced |-> FALSE, queue |-> <<>>,
           button_state |-> [b \in ButtonsOf(js[i]) |-> b \in garbage]]
  BY DEF io_util_joystick_open
<1>2. [b \in ButtonsOf(js[i]) |-> b \in garbage] \in [ButtonsOf(js[i]) -> BOOLEAN]
  OBVIOUS
<1> HIDE DEF s
<1>3. /\ s.pad = js[i] /\ s.gone = FALSE /\ s.announced = FALSE /\ s.queue = <<>>
      /\ s.button_state \in [ButtonsOf(js[i]) -> BOOLEAN]
      /\ s = [pad |-> s.pad, gone |-> s.gone, announced |-> s.announced, queue |-> s.queue,
              button_state |-> s.button_state]
  BY <1>1, <1>2
<1>4. s.queue \in Seq(Nat \X BOOLEAN)
  BY <1>3
<1>5. js[i] # None
  BY JoystickAssumption
<1>6. GoodStick(s, held)
  BY <1>3, <1>4 DEF GoodStick
<1> QED BY <1>3, <1>5, <1>6 DEF s

\* Taking the events of a stick leaves the states of its buttons as they are held.
LEMMA UpdateIsGood ==
  ASSUME NEW s, GoodStick(s, held)
  PROVE  /\ io_util_joystick_update(s).pad = s.pad
         /\ GoodStick(io_util_joystick_update(s), held)
<1> DEFINE u == io_util_joystick_update(s)
<1>1. CASE s.pad = None \/ s.gone
  BY <1>1 DEF io_util_joystick_update
<1>2. CASE ~(s.pad = None \/ s.gone)
  <2>1. /\ s.pad \in Pads
        /\ s = [pad |-> s.pad, gone |-> s.gone, announced |-> s.announced, queue |-> s.queue,
                button_state |-> s.button_state]
        /\ s.gone = FALSE /\ s.announced \in BOOLEAN
        /\ s.queue \in Seq(Nat \X BOOLEAN)
        /\ s.button_state \in [ButtonsOf(s.pad) -> BOOLEAN]
        /\ ~s.announced => s.queue = <<>>
        /\ s.announced => \A b \in ButtonsOf(s.pad) :
             Applied(s.button_state, s.queue)[b] = (b \in held[s.pad])
    BY <1>2 DEF GoodStick
  <2> DEFINE new == Applied(s.button_state, Events(s))
  <2>2. u = [s EXCEPT !.announced = TRUE, !.queue = <<>>, !.button_state = new]
    BY <1>2, Zenon DEF io_util_joystick_update
  <2>3. \A b \in ButtonsOf(s.pad) : new[b] = (b \in held[s.pad])
    <3>1. CASE s.announced
      <4>1. Events(s) = s.queue
        <5>1. Events(s) = <<>> \o s.queue
          BY <3>1 DEF Events, Announced
        <5>2. \A q \in Seq(Nat \X BOOLEAN) : <<>> \o q = q
          OBVIOUS
        <5> QED BY <2>1, <5>1, <5>2
      <4> QED BY <2>1, <3>1, <4>1
    <3>2. CASE ~s.announced
      <4> DEFINE all == [k \in 1 .. NumButtons[s.pad] |-> <<k - 1, k - 1 \in held[s.pad]>>]
      <4>1. all \in Seq(Nat \X BOOLEAN)
        <5>1. NumButtons[s.pad] \in Nat
          BY <2>1, JoystickAssumption
        <5>2. all \in [1 .. NumButtons[s.pad] -> Nat \X BOOLEAN]
          <6>1. \A k \in 1 .. NumButtons[s.pad] : k - 1 \in Nat
            BY <5>1
          <6>3. ASSUME NEW k \in 1 .. NumButtons[s.pad]
                PROVE  <<k - 1, k - 1 \in held[s.pad]>> \in Nat \X BOOLEAN
            BY <6>1, MemberIsBoolean
          <6> QED BY <6>3
        <5> HIDE DEF all
        <5> QED BY <5>1, <5>2, SeqDef
      <4>2. Events(s) = all
        <5>1. Events(s) = all \o <<>>
          BY <2>1, <3>2 DEF Events, Announced
        <5> HIDE DEF all
        <5> QED BY <4>1, <5>1
      <4> QED BY <2>1, <4>2, AppliedAnnounced
    <3> QED BY <3>1, <3>2
  <2>4. new \in [ButtonsOf(s.pad) -> BOOLEAN]
    <3>1. DOMAIN new = ButtonsOf(s.pad) /\ new = [b \in DOMAIN new |-> new[b]]
      BY <2>1 DEF Applied
    <3> HIDE DEF new
    <3>2. ASSUME NEW b \in ButtonsOf(s.pad)
          PROVE  new[b] \in BOOLEAN
      <4>1. new[b] = (b \in held[s.pad])
        BY <2>3
      <4> QED BY <4>1, MemberIsBoolean
    <3> QED BY <3>1, <3>2
  <2>5. Applied(new, <<>>) = new
    <3> HIDE DEF new
    <3> QED BY <2>4, AppliedNone
  <2> HIDE DEF new, u
  <2>6. /\ u.pad = s.pad /\ u.gone = s.gone /\ u.announced = TRUE /\ u.queue = <<>>
        /\ u.button_state = new
        /\ u = [pad |-> u.pad, gone |-> u.gone, announced |-> u.announced, queue |-> u.queue,
                button_state |-> u.button_state]
    BY <2>1, <2>2
  <2>7. u.queue \in Seq(Nat \X BOOLEAN)
    BY <2>6
  <2>8. GoodStick(u, held)
    BY <2>1, <2>3, <2>4, <2>5, <2>6, <2>7, ZenonT(60) DEF GoodStick
  <2> QED BY <2>6, <2>8 DEF u
<1> QED BY <1>1, <1>2

\* A press or a release, queued or lost in an overflow, is what the events tell of.
LEMMA QueuedIsGood ==
  ASSUME NEW s, GoodStick(s, held), NEW p \in Pads, NEW b \in ButtonsOf(p), NEW h,
         held \in [Pads -> SUBSET Nat], DOMAIN h = Pads,
         \A q \in Pads \ {p} : h[q] = held[q],
         b \in h[p] <=> b \notin held[p],
         \A c \in ButtonsOf(p) \ {b} : c \in h[p] <=> c \in held[p]
  PROVE  /\ Queued(s, p, <<b, b \notin held[p]>>).pad = s.pad
         /\ GoodStick(Queued(s, p, <<b, b \notin held[p]>>), h)
<1> DEFINE v == b \notin held[p]
           e == <<b, v>>
           u == Queued(s, p, e)
<1>0. p # None /\ b \in Nat
  BY JoystickAssumption, ButtonsAreNumbers
<1>1. CASE s.pad # p
  <2>1. u = s
    BY <1>1 DEF Queued
  <2>2. GoodStick(s, h)
    BY <1>1 DEF GoodStick
  <2> HIDE DEF u
  <2>3. u.pad = s.pad /\ GoodStick(u, h)
    BY <2>1, <2>2
  <2> QED BY <2>3 DEF u
<1>2. CASE s.pad = p
  <2>1. /\ s = [pad |-> s.pad, gone |-> s.gone, announced |-> s.announced, queue |-> s.queue,
                button_state |-> s.button_state]
        /\ s.gone \in BOOLEAN /\ s.announced \in BOOLEAN
        /\ s.queue \in Seq(Nat \X BOOLEAN)
        /\ s.button_state \in [ButtonsOf(p) -> BOOLEAN]
        /\ ~s.announced => s.queue = <<>>
        /\ s.announced /\ ~s.gone => \A c \in ButtonsOf(p) :
             Applied(s.button_state, s.queue)[c] = (c \in held[p])
    BY <1>0, <1>2 DEF GoodStick
  <2>2. CASE s.gone \/ ~s.announced
    <3>1. u = s
      BY <1>2, <2>2 DEF Queued
    <3>2. GoodStick(s, h)
      BY <1>2, <2>1, <2>2 DEF GoodStick
    <3> HIDE DEF u
    <3>3. u.pad = s.pad /\ GoodStick(u, h)
      BY <3>1, <3>2
    <3> QED BY <3>3 DEF u
  <2>3. CASE ~s.gone /\ s.announced /\ Len(s.queue) + 1 < KernelBuffer
    <3> DEFINE more == Append(s.queue, e)
    <3>1. u = [s EXCEPT !.queue = more]
      BY <1>2, <2>3, Zenon DEF Queued
    <3>2. more \in Seq(Nat \X BOOLEAN)
      <4>1. e \in Nat \X BOOLEAN
        BY <1>0
      <4> HIDE DEF e
      <4> QED BY <2>1, <4>1, AppendProperties
    <3>3. ASSUME NEW c \in ButtonsOf(p)
          PROVE  Applied(s.button_state, more)[c] = (c \in h[p])
      <4>1. c \in DOMAIN Applied(s.button_state, s.queue)
        BY <2>1 DEF Applied
      <4>2. Applied(s.button_state, more) = [Applied(s.button_state, s.queue) EXCEPT ![b] = v]
        <5>0. e \in Nat \X BOOLEAN
          BY <1>0
        <5>1. e[1] = b /\ e[2] = v
          OBVIOUS
        <5> DEFINE D == ButtonsOf(p)
                   st == s.button_state
                   q == s.queue
        <5>2. q \in Seq(Nat \X BOOLEAN) /\ st \in [D -> BOOLEAN]
          BY <2>1
        <5> HIDE DEF e, u, more, D, st, q
        <5>4. Applied(st, Append(q, e)) = [Applied(st, q) EXCEPT ![e[1]] = e[2]]
          BY <5>0, <5>2, AppliedEvent
        <5>3. Applied(s.button_state, Append(s.queue, e)) =
                [Applied(s.button_state, s.queue) EXCEPT ![e[1]] = e[2]]
          BY <5>4 DEF st, q
        <5> QED BY <5>1, <5>3 DEF more
      <4>3. Applied(s.button_state, s.queue)[c] = (c \in held[p])
        BY <2>1, <2>3
      <4>4. CASE c = b
        <5>1. Applied(s.button_state, more)[c] = v
          BY <4>1, <4>2, <4>4
        <5>2. v = (c \in h[p])
          BY <4>4
        <5> QED BY <5>1, <5>2
      <4>5. CASE c # b
        <5>1. Applied(s.button_state, more)[c] = (c \in held[p])
          BY <4>1, <4>2, <4>3, <4>5
        <5>2. (c \in held[p]) = (c \in h[p])
          BY <4>5
        <5> QED BY <5>1, <5>2
      <4> QED BY <4>4, <4>5
    <3> HIDE DEF more, u
    <3>4. /\ u.pad = p /\ u.gone = s.gone /\ u.announced = s.announced /\ u.queue = more
          /\ u.button_state = s.button_state
          /\ u = [pad |-> u.pad, gone |-> u.gone, announced |-> u.announced, queue |-> u.queue,
                  button_state |-> u.button_state]
      BY <1>2, <2>1, <3>1
    <3>5. GoodStick(u, h)
      BY <2>1, <2>3, <3>2, <3>3, <3>4 DEF GoodStick
    <3> QED BY <1>2, <3>4, <3>5 DEF u
  <2>4. CASE ~s.gone /\ s.announced /\ ~(Len(s.queue) + 1 < KernelBuffer)
    <3>1. u = [s EXCEPT !.queue = <<>>, !.announced = FALSE]
      BY <1>2, <2>4, Zenon DEF Queued
    <3> HIDE DEF u
    <3>2. /\ u.pad = p /\ u.gone = s.gone /\ u.announced = FALSE /\ u.queue = <<>>
          /\ u.button_state = s.button_state
          /\ u = [pad |-> u.pad, gone |-> u.gone, announced |-> u.announced, queue |-> u.queue,
                  button_state |-> u.button_state]
      BY <1>2, <2>1, <3>1
    <3>3. u.queue \in Seq(Nat \X BOOLEAN)
      BY <3>2
    <3>4. GoodStick(u, h)
      BY <2>1, <3>2, <3>3 DEF GoodStick
    <3> QED BY <1>2, <3>2, <3>4 DEF u
  <2> QED BY <2>2, <2>3, <2>4
<1> QED BY <1>1, <1>2

\* A stick that is pulled out is given up, whatever its buttons do.
LEMMA UnpluggedIsGood ==
  ASSUME NEW s, GoodStick(s, held), NEW p \in Pads, NEW h, \A q \in Pads \ {p} : h[q] = held[q]
  PROVE  /\ Unplugged(s, p).pad = s.pad
         /\ GoodStick(Unplugged(s, p), h)
<1> DEFINE u == Unplugged(s, p)
<1>1. CASE s.pad # p
  <2>1. u = s
    BY <1>1 DEF Unplugged
  <2>2. GoodStick(s, h)
    BY <1>1 DEF GoodStick
  <2> HIDE DEF u
  <2>3. u.pad = s.pad /\ GoodStick(u, h)
    BY <2>1, <2>2
  <2> QED BY <2>3 DEF u
<1>2. CASE s.pad = p
  <2>1. p # None
    BY JoystickAssumption
  <2>2. u = [s EXCEPT !.gone = TRUE, !.queue = <<>>]
    BY <1>2, Zenon DEF Unplugged
  <2>3. /\ s = [pad |-> s.pad, gone |-> s.gone, announced |-> s.announced, queue |-> s.queue,
                button_state |-> s.button_state]
        /\ s.announced \in BOOLEAN
        /\ s.button_state \in [ButtonsOf(p) -> BOOLEAN]
    BY <1>2, <2>1 DEF GoodStick
  <2> HIDE DEF u
  <2>4. /\ u.pad = p /\ u.gone = TRUE /\ u.announced = s.announced /\ u.queue = <<>>
        /\ u.button_state = s.button_state
        /\ u = [pad |-> u.pad, gone |-> u.gone, announced |-> u.announced, queue |-> u.queue,
                button_state |-> u.button_state]
    BY <1>2, <2>2, <2>3
  <2>5. u.queue \in Seq(Nat \X BOOLEAN)
    BY <2>4
  <2>6. GoodStick(u, h)
    BY <2>3, <2>4, <2>5 DEF GoodStick
  <2> QED BY <1>2, <2>4, <2>6 DEF u
<1> QED BY <1>1, <1>2

\* The sticks that were found are sticks, at places.
LEMMA ScanIsPlugged ==
  ASSUME js \in [Places -> Pads \cup {None}], NEW refused
  PROVE  \A k \in DOMAIN io_util_joystick_util_scan(refused) :
           /\ io_util_joystick_util_scan(refused)[k] \in Places
           /\ js[io_util_joystick_util_scan(refused)[k]] \in Pads
<1> DEFINE S == Plugged \ refused
           before == {r \in Places \X Places : r[1] < r[2]}
           scan == io_util_joystick_util_scan(refused)
<1>1. IsFiniteSet(Places) /\ \A i \in Places : i \in Int
  <2>1. MaxJoysticks - 1 \in Int /\ 0 \in Int
    BY JoystickAssumption
  <2>2. \A b \in Int : IsFiniteSet(0 .. b)
    BY <2>1, FS_Interval, Zenon
  <2> QED BY <2>1, <2>2 DEF Places
<1>2. S \subseteq Places /\ \A i \in S : js[i] \in Pads
  BY DEF Plugged
<1>3. IsFiniteSet(S)
  <2> HIDE DEF S
  <2> QED BY <1>1, <1>2, FS_Subset
<1>4. \A a, b \in Places : <<a, b>> \in before <=> a < b
  OBVIOUS
<1>5. scan = Ordered(S, before)
  BY DEF io_util_joystick_util_scan
<1> HIDE DEF S, before, scan
<1>6. /\ \A a \in S : <<a, a>> \notin before
      /\ \A a, b \in S : a # b => <<a, b>> \in before \/ <<b, a>> \in before
      /\ \A a, b, c \in S : <<a, b>> \in before /\ <<b, c>> \in before => <<a, c>> \in before
  BY <1>1, <1>2, <1>4
<1>7. Ordered(S, before) \in [1 .. Cardinality(S) -> S]
  BY <1>3, <1>6, OrderedIsOnto
<1>8. \A k \in DOMAIN scan : scan[k] \in S
  BY <1>5, <1>7
<1>9. \A k \in DOMAIN scan : scan[k] \in Places /\ js[scan[k]] \in Pads
  BY <1>2, <1>8
<1> QED BY <1>9 DEF scan

\* No stick has two entries in use, and no place two sticks: the entries in use
\* are not more than the places.
LEMMA MatchingFits ==
  ASSUME js \in [Places -> Pads \cup {None}], NEW c \in Configurations, NEW refused
  PROVE  /\ Len(Matching(c, io_util_joystick_util_scan(refused))) <= MaxJoysticks
         /\ \A k \in DOMAIN Matching(c, io_util_joystick_util_scan(refused)) :
              LET j == Matching(c, io_util_joystick_util_scan(refused))[k]
              IN j \in DOMAIN c /\ c[j].dev_path \in Places /\ js[c[j].dev_path] \in Pads
<1> DEFINE scan == io_util_joystick_util_scan(refused)
           M == Matches(c, scan)
           before == {r \in M \X M : \/ c[r[1]].dev_path < c[r[2]].dev_path
                                     \/ c[r[1]].dev_path = c[r[2]].dev_path /\ r[1] < r[2]}
           w == Matching(c, scan)
           dev == [j \in M |-> c[j].dev_path]
<1>1. w = Ordered(M, before)
  BY Zenon DEF Matching
<1>2. \A k \in DOMAIN scan : scan[k] \in Places /\ js[scan[k]] \in Pads
  BY ScanIsPlugged
<1> HIDE DEF scan, w
<1>3. \A i \in Range(scan) : i \in Places /\ js[i] \in Pads
  BY <1>2 DEF Range
<1>4. /\ M \subseteq DOMAIN c
      /\ \A j \in M : c[j].dev_path \in Range(scan) /\ c[j].name = Name[js[c[j].dev_path]]
  BY DEF Matches
<1>5. /\ c \in Seq(Entries)
      /\ \A j, l \in DOMAIN c : c[j].name = c[l].name /\ c[j].dev_path = c[l].dev_path => j = l
  BY DEF Configurations, UniqueKeys, SameKey
<1>6. \A a, b \in M : <<a, b>> \in before <=>
          \/ c[a].dev_path < c[b].dev_path
          \/ c[a].dev_path = c[b].dev_path /\ a < b
  OBVIOUS
<1> HIDE DEF M, before
<1>7. /\ IsFiniteSet(Places) /\ Cardinality(Places) = MaxJoysticks
      /\ \A i \in Places : i \in Int
  <2>1. MaxJoysticks - 1 \in Int /\ 0 \in Int
    BY JoystickAssumption
  <2>2. \A b \in Int : IsFiniteSet(0 .. b) /\ Cardinality(0 .. b) = IF 0 > b THEN 0 ELSE b - 0 + 1
    BY <2>1, FS_Interval, Zenon
  <2>3. /\ IsFiniteSet(Places)
        /\ Cardinality(Places) = IF 0 > MaxJoysticks - 1 THEN 0 ELSE (MaxJoysticks - 1) - 0 + 1
    BY <2>1, <2>2, Zenon DEF Places
  <2> QED BY <2>1, <2>3, JoystickAssumption DEF Places
<1>8. IsFiniteSet(M) /\ \A j \in M : j \in Int
  <2>1. DOMAIN c = 1 .. Len(c) /\ Len(c) \in Int
    BY <1>5
  <2>2. IsFiniteSet(1 .. Len(c))
    <3>1. 1 \in Int
      OBVIOUS
    <3> QED BY <2>1, <3>1, FS_Interval, Zenon
  <2>3. IsFiniteSet(M)
    BY <1>4, <2>1, <2>2, FS_Subset
  <2> QED BY <1>4, <2>1, <2>3
<1>9. \A a, b \in M : c[a].dev_path = c[b].dev_path => a = b
  BY <1>4, <1>5
<1>10. \A a \in M : c[a].dev_path \in Places /\ c[a].dev_path \in Int
  BY <1>3, <1>4, <1>7
<1>11. /\ \A a \in M : <<a, a>> \notin before
       /\ \A a, b \in M : a # b => <<a, b>> \in before \/ <<b, a>> \in before
       /\ \A a, b, d \in M : <<a, b>> \in before /\ <<b, d>> \in before => <<a, d>> \in before
  BY <1>6, <1>8, <1>9, <1>10
<1>12. Cardinality(M) \in Nat /\ Ordered(M, before) \in [1 .. Cardinality(M) -> M]
  BY <1>8, <1>11, OrderedIsOnto
<1>13. Cardinality(M) <= MaxJoysticks
  <2> SUFFICES ASSUME ~(Cardinality(M) <= MaxJoysticks)
               PROVE  FALSE
    OBVIOUS
  <2>1. Cardinality(Places) < Cardinality(M)
    BY <1>7, <1>12, JoystickAssumption
  <2>2. dev \in [M -> Places]
    BY <1>10
  <2> HIDE DEF dev
  <2>3. PICK x, y \in M : x # y /\ dev[x] = dev[y]
    BY <1>7, <1>8, <2>1, <2>2, FS_PigeonHole
  <2> QED BY <1>9, <2>3 DEF dev
<1>14. Len(w) = Cardinality(M) /\ \A k \in DOMAIN w : w[k] \in M
  <2>1. w \in [1 .. Cardinality(M) -> M]
    BY <1>1, <1>12
  <2>2. w \in Seq(M)
    BY <1>12, <2>1
  <2> QED BY <1>12, <2>1, <2>2
<1>15. \A k \in DOMAIN w : w[k] \in DOMAIN c /\ c[w[k]].dev_path \in Places /\ js[c[w[k]].dev_path] \in Pads
  BY <1>3, <1>4, <1>14
<1> QED BY <1>13, <1>14, <1>15 DEF w, scan

\* The first entry of a stick is one of its entries.
LEMMA FirstOfEntries ==
  ASSUME NEW c \in Seq(Entries), NEW key, conf_entries(c, key) # {}
  PROVE  First(conf_entries(c, key)) \in conf_entries(c, key)
<1> DEFINE S == conf_entries(c, key)
<1>1. S \in SUBSET Nat
  BY DEF conf_entries
<1> HIDE DEF S
<1>2. PICK n \in S : TRUE
  BY DEF S
<1>3. \E j \in S : \A k \in S : j <= k
  BY <1>1, <1>2, LeastOf
<1>4. First(S) \in S
  BY <1>3 DEF First
<1> QED BY <1>4 DEF S

\* An entry that is saved replaces that of its stick, or is the first one of it.
LEMMA SavedIsConfiguration ==
  ASSUME NEW c \in Configurations, NEW entry \in Entries
  PROVE  conf_set_or_append(c, entry) \in Configurations
<1>1. c \in Seq(Entries) /\ \A j, l \in DOMAIN c : SameKey(c[j], c[l]) => j = l
  BY DEF Configurations, UniqueKeys
<1> DEFINE new == conf_set_or_append(c, entry)
           f == First(conf_entries(c, entry))
<1>2. CASE conf_entries(c, entry) = {}
  <2>1. new = Append(c, entry)
    BY <1>2 DEF conf_set_or_append
  <2>2. \A j \in DOMAIN c : ~SameKey(c[j], entry)
    BY <1>2 DEF conf_entries
  <2>3. new \in Seq(Entries) /\ DOMAIN new = 1 .. Len(c) + 1 /\ DOMAIN c = 1 .. Len(c) /\ Len(c) \in Nat
        /\ new[Len(c) + 1] = entry /\ \A j \in 1 .. Len(c) : new[j] = c[j]
    BY <1>1, <2>1, AppendProperties
  <2>4. \A j \in 1 .. Len(c) + 1 : j \in 1 .. Len(c) \/ j = Len(c) + 1
    BY <2>3
  <2> HIDE DEF new
  <2>5. \A j, l \in DOMAIN new : SameKey(new[j], new[l]) => j = l
    BY <1>1, <2>2, <2>3, <2>4 DEF SameKey
  <2> QED BY <2>3, <2>5 DEF Configurations, UniqueKeys, new
<1>3. CASE conf_entries(c, entry) # {}
  <2>1. f \in DOMAIN c /\ SameKey(c[f], entry)
    <3>1. f \in conf_entries(c, entry)
      BY <1>1, <1>3, FirstOfEntries
    <3> QED BY <3>1 DEF conf_entries
  <2>2. new = [c EXCEPT ![f] = entry]
    BY <1>3 DEF conf_set_or_append
  <2> HIDE DEF f, new
  <2>3. /\ new \in Seq(Entries) /\ DOMAIN new = DOMAIN c
        /\ new[f] = entry /\ \A j \in DOMAIN c \ {f} : new[j] = c[j]
    BY <1>1, <2>1, <2>2
  <2>4. \A j \in DOMAIN c : new[j].name = c[j].name /\ new[j].dev_path = c[j].dev_path
    BY <2>1, <2>3 DEF SameKey
  <2>5. \A j, l \in DOMAIN new : SameKey(new[j], new[l]) => j = l
    BY <1>1, <2>3, <2>4 DEF SameKey
  <2> QED BY <2>3, <2>5 DEF Configurations, UniqueKeys, new
<1> QED BY <1>2, <1>3

\* What is found for a stick, or made up for it, is an entry.
LEMMA FoundIsEntry ==
  ASSUME NEW c \in Configurations, NEW n \in STRING, NEW d \in Nat
  PROVE  conf_find_entry(c, [name |-> n, dev_path |-> d]) \in Entries
<1> DEFINE key == [name |-> n, dev_path |-> d]
           S == conf_entries(c, key)
<1>1. c \in Seq(Entries)
  BY DEF Configurations
<1>2. CASE S = {}
  <2>1. conf_find_entry(c, key) = [name |-> n, dev_path |-> d, button_map |-> [i \in Range(Inputs) |-> 0]]
    BY <1>2 DEF conf_find_entry
  <2>2. [i \in Range(Inputs) |-> 0] \in [Range(Inputs) -> Nat]
    OBVIOUS
  <2> QED BY <2>1, <2>2 DEF Entries
<1>3. CASE S # {}
  <2> HIDE DEF key
  <2>1. First(S) \in S
    BY <1>1, <1>3, FirstOfEntries
  <2>2. conf_find_entry(c, key) = c[First(S)] /\ First(S) \in DOMAIN c
    BY <1>3, <2>1 DEF conf_find_entry, conf_entries
  <2>3. conf_find_entry(c, key) \in Entries
    BY <1>1, <2>2
  <2> QED BY <2>3 DEF key
<1> QED BY <1>2, <1>3

\* The invariant holds to begin with.
LEMMA JoyInitially == JoysticksInit => JoyInv
<1> SUFFICES ASSUME JoysticksInit PROVE JoyInv
  OBVIOUS
<1>1. \A c \in JoystickFiles : c \in Configurations
  BY JoystickAssumption DEF Configurations, UniqueKeys
<1>2. /\ js \in [Places -> Pads \cup {None}] /\ held = [p \in Pads |-> {}]
      /\ files \in [Folders -> JoystickFiles \cup {None}]
      /\ opened = FALSE /\ with_conf = <<>> /\ sticks = <<>> /\ tool = Idle
  BY DEF JoysticksInit
<1>3. held \in [Pads -> SUBSET Nat] /\ \A p \in Pads : held[p] \subseteq ButtonsOf(p)
  BY <1>2
<1>4. DOMAIN files = Folders /\ \A f \in Folders : files[f] # None => files[f] \in Configurations
  BY <1>1, <1>2
<1>5. ActiveFits
  BY <1>2, JoystickAssumption DEF ActiveFits
<1>6. \A k \in DOMAIN sticks : GoodStick(sticks[k], held)
  BY <1>2
<1>7. GoodTool
  BY <1>2 DEF GoodTool, Idle, Closed, GoodStick
<1> QED BY <1>2, <1>3, <1>4, <1>5, <1>6, <1>7 DEF JoyInv

\* The library is opened: its entries in use are looked for, and their sticks opened.
LEMMA JoyOpens ==
  ASSUME JoyInv, NEW refused, NEW failing, NEW garbage, ptapi_io_open(refused, failing, garbage)
  PROVE  JoyInv'
<1> DEFINE c == conf_read_from_file
           scan == io_util_joystick_util_scan(refused)
           w == Matching(c, scan)
<1>1. c \in Configurations
  BY DEF JoyInv, ptapi_io_open, conf_read_from_file, Folders
<1>2. /\ conf' = c /\ opened' = TRUE
      /\ UNCHANGED <<js, held, files, tool>>
  BY DEF ptapi_io_open
<1>3. with_conf' = w
  BY <1>2 DEF ptapi_io_open
<1>4. sticks' = [k \in DOMAIN w |-> IF c[w[k]].dev_path \in failing THEN Closed
                                    ELSE io_util_joystick_open(c[w[k]].dev_path, garbage)]
  BY <1>2, <1>3 DEF ptapi_io_open
<1>5. /\ Len(w) <= MaxJoysticks
      /\ \A k \in DOMAIN w : /\ w[k] \in DOMAIN c
                             /\ c[w[k]].dev_path \in Places /\ js[c[w[k]].dev_path] \in Pads
  <2>1. js \in [Places -> Pads \cup {None}]
    BY DEF JoyInv
  <2> HIDE DEF c
  <2> QED BY <1>1, <2>1, MatchingFits
<1> HIDE DEF c, scan, w
<1>6. ASSUME NEW k \in DOMAIN sticks'
      PROVE  GoodStick(sticks'[k], held)
  <2>1. k \in DOMAIN w
    BY <1>4
  <2>2. CASE c[w[k]].dev_path \in failing
    <3>1. sticks'[k] = Closed
      BY <1>4, <2>1, <2>2
    <3> QED BY <3>1 DEF Closed, GoodStick
  <2>3. CASE c[w[k]].dev_path \notin failing
    <3>1. sticks'[k] = io_util_joystick_open(c[w[k]].dev_path, garbage)
      BY <1>4, <2>1, <2>3
    <3>2. GoodStick(io_util_joystick_open(c[w[k]].dev_path, garbage), held)
      BY <1>5, <2>1, OpenedIsGood
    <3> QED BY <3>1, <3>2
  <2> QED BY <2>2, <2>3
<1>7. DOMAIN sticks' = DOMAIN with_conf' /\ \A k \in DOMAIN with_conf' : with_conf'[k] \in DOMAIN conf'
  BY <1>2, <1>3, <1>4, <1>5
<1>8. ActiveFits'
  BY <1>3, <1>5 DEF ActiveFits
<1>9. GoodTool'
  BY <1>2 DEF JoyInv, GoodTool
<1> QED BY <1>1, <1>2, <1>6, <1>7, <1>8, <1>9 DEF JoyInv

\* The library is closed.
LEMMA JoyCloses == JoyInv /\ ptapi_io_close => JoyInv'
<1> SUFFICES ASSUME JoyInv, ptapi_io_close PROVE JoyInv'
  OBVIOUS
<1>1. /\ opened' = FALSE /\ sticks' = [k \in DOMAIN sticks |-> Closed]
      /\ UNCHANGED <<js, held, files, with_conf, tool>>
  BY DEF ptapi_io_close
<1>2. \A k \in DOMAIN sticks' : GoodStick(sticks'[k], held')
  BY <1>1 DEF Closed, GoodStick
<1>3. GoodTool'
  BY <1>1 DEF JoyInv, GoodTool
<1>4. ActiveFits'
  BY <1>1 DEF JoyInv, ActiveFits
<1> QED BY <1>1, <1>2, <1>3, <1>4 DEF JoyInv

\* The library takes the events of its sticks.
LEMMA JoyReceives == JoyInv /\ ptapi_io_recv => JoyInv'
<1> SUFFICES ASSUME JoyInv, ptapi_io_recv PROVE JoyInv'
  OBVIOUS
<1>1. /\ sticks' = [k \in DOMAIN sticks |-> io_util_joystick_update(sticks[k])]
      /\ UNCHANGED <<js, held, files, conf, opened, with_conf, tool>>
  BY DEF ptapi_io_recv
<1>2. \A k \in DOMAIN sticks' : GoodStick(sticks'[k], held)
  <2>1. ASSUME NEW k \in DOMAIN sticks
        PROVE  GoodStick(io_util_joystick_update(sticks[k]), held)
    <3>1. GoodStick(sticks[k], held)
      BY DEF JoyInv
    <3> QED BY <3>1, UpdateIsGood
  <2> QED BY <1>1, <2>1
<1>3. GoodTool'
  BY <1>1 DEF JoyInv, GoodTool
<1>4. ActiveFits'
  BY <1>1 DEF JoyInv, ActiveFits
<1>5. DOMAIN sticks' = DOMAIN sticks
  BY <1>1
<1> QED BY <1>1, <1>2, <1>3, <1>4, <1>5 DEF JoyInv

\* What is left to show of a step of the tool.
LEMMA ToolSteps ==
  ASSUME JoyInv, UNCHANGED <<js, held, game>>, GoodTool',
         files' = files \/ \E f \in Folders, c \in Configurations : files' = [files EXCEPT ![f] = c]
  PROVE  JoyInv'
<1>1. DOMAIN files' = Folders /\ \A f \in Folders : files'[f] # None => files'[f] \in Configurations
  BY DEF JoyInv
<1>2. ActiveFits'
  BY DEF JoyInv, ActiveFits, game
<1>3. UNCHANGED <<js, held, conf, opened, with_conf, sticks>>
  BY DEF game
<1> QED BY <1>1, <1>2, <1>3 DEF JoyInv

\* The tool back in its menu.
LEMMA IdleIsGood == tool' = Idle => GoodTool'
BY DEF Idle, Closed, GoodTool, GoodStick

\* The tool opens a stick and reads the configuration of the folder.
LEMMA JoyMenu ==
  ASSUME JoyInv, NEW pc \in {"test", "map"}, NEW folder \in Folders, NEW k,
         NEW refused, NEW failing, NEW garbage,
         menu_joystick(pc, folder, k, refused, failing, garbage)
  PROVE  JoyInv'
<1> DEFINE places == io_util_joystick_util_scan(refused)
           i == places[k]
           c == menu_conf(folder)
           key == [name |-> Name[js[i]], dev_path |-> i]
           e == conf_find_entry(c, key)
           s == io_util_joystick_open(i, garbage)
<1>1. UNCHANGED <<js, held, files, game>>
  BY DEF menu_joystick, Menu
<1>2. CASE i \in failing
  <2>1. tool' = Idle
    BY <1>2 DEF menu_joystick, Menu
  <2> QED BY <1>1, <2>1, IdleIsGood, ToolSteps
<1>3. CASE i \notin failing
  <2>1. tool' = [pc |-> pc, folder |-> folder, conf |-> c, entry |-> e,
                 asked |-> 1, button |-> None, stick |-> s]
    BY <1>3 DEF menu_joystick
  <2>2. i \in Places /\ js[i] \in Pads
    <3>1. js \in [Places -> Pads \cup {None}] /\ k \in DOMAIN places
      BY DEF JoyInv, menu_joystick
    <3> QED BY <3>1, ScanIsPlugged
  <2>3. c \in Configurations
    BY DEF JoyInv, menu_conf, conf_new, Configurations, UniqueKeys
  <2>4. e \in Entries
    <3>1. Name[js[i]] \in STRING /\ i \in Nat
      BY <2>2, JoystickAssumption DEF Places
    <3> HIDE DEF c, i
    <3> QED BY <2>3, <3>1, FoundIsEntry
  <2>5. s.pad # None /\ GoodStick(s, held)
    <3> HIDE DEF i
    <3> QED BY <2>2, OpenedIsGood
  <2> HIDE DEF c, e, s
  <2>6. /\ tool'.pc # "menu" /\ tool'.folder = folder /\ tool'.conf = c
        /\ tool'.entry = e /\ tool'.button = None /\ tool'.stick = s
        /\ tool' = [pc |-> tool'.pc, folder |-> tool'.folder, conf |-> tool'.conf, entry |-> tool'.entry,
                    asked |-> tool'.asked, button |-> tool'.button, stick |-> tool'.stick]
    BY <2>1
  <2>7. GoodTool'
    <3>1. held' = held
      BY <1>1
    <3> QED BY <2>3, <2>4, <2>5, <2>6, <3>1 DEF GoodTool
  <2> QED BY <1>1, <2>7, ToolSteps
<1> QED BY <1>2, <1>3

\* An answer is kept for the next question, or the file is saved.
LEMMA JoyAnswers ==
  ASSUME JoyInv, NEW s, NEW b \in Nat, tool.pc # "menu", s.pad # None, GoodStick(s, held), Answer(s, b),
         UNCHANGED <<js, held, game>>
  PROVE  JoyInv'
<1> DEFINE e == [tool.entry EXCEPT !.button_map[Inputs[tool.asked]] = b]
<1>1. /\ tool = [pc |-> tool.pc, folder |-> tool.folder, conf |-> tool.conf, entry |-> tool.entry,
                 asked |-> tool.asked, button |-> tool.button, stick |-> tool.stick]
      /\ tool.folder \in Folders /\ tool.conf \in Configurations /\ tool.entry \in Entries
  BY DEF JoyInv, GoodTool
<1>2. e \in Entries
  BY <1>1 DEF Entries
<1>3. CASE tool.pc = "test"
  <2>1. tool' = [tool EXCEPT !.stick = s, !.button = None] /\ files' = files
    BY <1>3, Zenon DEF Answer
  <2>2. /\ tool'.pc = tool.pc /\ tool'.folder = tool.folder /\ tool'.conf = tool.conf
        /\ tool'.entry = tool.entry /\ tool'.button = None /\ tool'.stick = s
        /\ tool' = [pc |-> tool'.pc, folder |-> tool'.folder, conf |-> tool'.conf, entry |-> tool'.entry,
                    asked |-> tool'.asked, button |-> tool'.button, stick |-> tool'.stick]
    BY <1>1, <2>1
  <2>3. GoodTool'
    BY <1>1, <2>2 DEF GoodTool
  <2> QED BY <2>1, <2>3, ToolSteps
<1>4. CASE tool.pc # "test" /\ tool.asked < Len(Inputs)
  <2>1. tool' = [tool EXCEPT !.stick = s, !.button = None, !.entry = e, !.asked = @ + 1] /\ files' = files
    BY <1>4, Zenon DEF Answer
  <2> HIDE DEF e
  <2>2. /\ tool'.pc = tool.pc /\ tool'.folder = tool.folder /\ tool'.conf = tool.conf
        /\ tool'.entry = e /\ tool'.button = None /\ tool'.stick = s
        /\ tool' = [pc |-> tool'.pc, folder |-> tool'.folder, conf |-> tool'.conf, entry |-> tool'.entry,
                    asked |-> tool'.asked, button |-> tool'.button, stick |-> tool'.stick]
    BY <1>1, <2>1
  <2>3. GoodTool'
    BY <1>1, <1>2, <2>2 DEF GoodTool
  <2> QED BY <2>1, <2>3, ToolSteps
<1>5. CASE tool.pc # "test" /\ ~(tool.asked < Len(Inputs))
  <2>1. files' = [files EXCEPT ![tool.folder] = conf_set_or_append(tool.conf, e)] /\ tool' = Idle
    BY <1>5, Zenon DEF Answer
  <2> HIDE DEF e
  <2>2. conf_set_or_append(tool.conf, e) \in Configurations
    BY <1>1, <1>2, SavedIsConfiguration
  <2> QED BY <1>1, <2>1, <2>2, IdleIsGood, ToolSteps
<1> QED BY <1>3, <1>4, <1>5

\* A round of the loop of the tool.
LEMMA JoyReads ==
  ASSUME JoyInv, NEW enter, joystick_get_next_input(enter)
  PROVE  JoyInv'
<1> DEFINE s == io_util_joystick_update(tool.stick)
           pressed == {b \in ButtonsOf(s.pad) : s.button_state[b]}
<1>1. tool.pc # "menu" /\ UNCHANGED <<js, held, game>>
  BY DEF joystick_get_next_input
<1>2. /\ tool = [pc |-> tool.pc, folder |-> tool.folder, conf |-> tool.conf, entry |-> tool.entry,
                 asked |-> tool.asked, button |-> tool.button, stick |-> tool.stick]
      /\ tool.folder \in Folders /\ tool.conf \in Configurations /\ tool.entry \in Entries
      /\ tool.button # None => tool.button \in Nat
      /\ tool.stick.pad # None /\ GoodStick(tool.stick, held)
  BY <1>1 DEF JoyInv, GoodTool
<1>3. s.pad # None /\ GoodStick(s, held)
  BY <1>2, UpdateIsGood
<1>4. pressed # {} => First(pressed) \in Nat
  <2>1. s.pad \in Pads
    BY <1>3 DEF GoodStick
  <2>2. pressed \in SUBSET Nat
    BY <2>1, ButtonsAreNumbers
  <2> HIDE DEF pressed
  <2> SUFFICES ASSUME pressed # {} PROVE First(pressed) \in Nat
    OBVIOUS
  <2>3. PICK b \in pressed : TRUE
    OBVIOUS
  <2>4. \E j \in pressed : \A k \in pressed : j <= k
    BY <2>2, <2>3, LeastOf
  <2>5. First(pressed) \in pressed
    BY <2>4 DEF First
  <2> QED BY <2>2, <2>5
<1>5. \/ tool' = Idle /\ files' = files
      \/ Answer(s, SKIP_INPUT)
      \/ /\ tool' = [tool EXCEPT !.stick = s, !.button = IF pressed = {} THEN None ELSE First(pressed)]
         /\ files' = files
      \/ tool' = [tool EXCEPT !.stick = s] /\ files' = files
      \/ tool.button # None /\ Answer(s, tool.button)
  BY Zenon DEF joystick_get_next_input
<1> HIDE DEF s, pressed
<1>6. CASE tool' = Idle /\ files' = files
  BY <1>1, <1>6, IdleIsGood, ToolSteps
<1>7. CASE Answer(s, SKIP_INPUT)
  <2>1. SKIP_INPUT \in Nat
    BY DEF SKIP_INPUT
  <2> QED BY <1>1, <1>3, <1>7, <2>1, JoyAnswers
<1>8. CASE tool.button # None /\ Answer(s, tool.button)
  BY <1>1, <1>2, <1>3, <1>8, JoyAnswers
<1>9. ASSUME NEW b, b # None => b \in Nat, files' = files,
             \/ tool' = [tool EXCEPT !.stick = s, !.button = b]
             \/ tool' = [tool EXCEPT !.stick = s] /\ b = tool.button
      PROVE  JoyInv'
  <2>1. /\ tool'.pc = tool.pc /\ tool'.folder = tool.folder /\ tool'.conf = tool.conf
        /\ tool'.entry = tool.entry /\ tool'.button = b /\ tool'.stick = s
        /\ tool' = [pc |-> tool'.pc, folder |-> tool'.folder, conf |-> tool'.conf, entry |-> tool'.entry,
                    asked |-> tool'.asked, button |-> tool'.button, stick |-> tool'.stick]
    BY <1>2, <1>9
  <2>2. GoodTool'
    BY <1>1, <1>2, <1>3, <1>9, <2>1 DEF GoodTool
  <2> QED BY <1>1, <1>9, <2>2, ToolSteps
<1>10. CASE /\ tool' = [tool EXCEPT !.stick = s, !.button = IF pressed = {} THEN None ELSE First(pressed)]
            /\ files' = files
  <2> DEFINE b == IF pressed = {} THEN None ELSE First(pressed)
  <2>1. b # None => b \in Nat
    BY <1>4
  <2>2. tool' = [tool EXCEPT !.stick = s, !.button = b] /\ files' = files
    BY <1>10
  <2> HIDE DEF b
  <2> QED BY <1>9, <2>1, <2>2
<1>11. CASE tool' = [tool EXCEPT !.stick = s] /\ files' = files
  BY <1>2, <1>9, <1>11
<1> QED BY <1>5, <1>6, <1>7, <1>8, <1>10, <1>11

\* The stick of the tool changes, and stays open.
LEMMA EditedIsGood ==
  ASSUME GoodTool, NEW u, tool' = [tool EXCEPT !.stick = u], u.pad = tool.stick.pad, GoodStick(u, held')
  PROVE  GoodTool'
<1>1. CASE tool.pc = "menu"
  BY <1>1 DEF GoodTool
<1>2. CASE tool.pc # "menu"
  BY <1>2 DEF GoodTool
<1> QED BY <1>1, <1>2

\* A player presses or releases a button.
LEMMA JoyPresses ==
  ASSUME JoyInv, NEW p \in Pads, NEW b \in ButtonsOf(p), PressOrRelease(p, b)
  PROVE  JoyInv'
<1> DEFINE e == <<b, b \notin held[p]>>
<1>1. /\ held' = [held EXCEPT ![p] = IF b \in held[p] THEN held[p] \ {b} ELSE held[p] \cup {b}]
      /\ sticks' = [k \in DOMAIN sticks |-> Queued(sticks[k], p, e)]
      /\ tool' = [tool EXCEPT !.stick = Queued(tool.stick, p, e)]
      /\ UNCHANGED <<js, files, conf, opened, with_conf>>
  BY DEF PressOrRelease
<1>2. held \in [Pads -> SUBSET Nat] /\ \A q \in Pads : held[q] \subseteq ButtonsOf(q)
  BY DEF JoyInv
<1>3. b \in Nat
  BY ButtonsAreNumbers
<1>4. /\ DOMAIN held' = Pads /\ \A q \in Pads \ {p} : held'[q] = held[q]
      /\ b \in held'[p] <=> b \notin held[p]
      /\ \A c \in ButtonsOf(p) \ {b} : c \in held'[p] <=> c \in held[p]
      /\ held' \in [Pads -> SUBSET Nat] /\ \A q \in Pads : held'[q] \subseteq ButtonsOf(q)
  BY <1>1, <1>2, <1>3
<1>5. ASSUME NEW s, GoodStick(s, held)
      PROVE  Queued(s, p, e).pad = s.pad /\ GoodStick(Queued(s, p, e), held')
  BY <1>2, <1>4, <1>5, QueuedIsGood
<1> HIDE DEF e
<1>6. \A k \in DOMAIN sticks' : GoodStick(sticks'[k], held')
  <2>1. \A k \in DOMAIN sticks : GoodStick(sticks[k], held)
    BY DEF JoyInv
  <2> QED BY <1>1, <1>5, <2>1
<1>7. GoodTool'
  <2>1. GoodStick(tool.stick, held)
    BY DEF JoyInv, GoodTool
  <2> DEFINE u == Queued(tool.stick, p, e)
  <2>2. u.pad = tool.stick.pad /\ GoodStick(u, held')
    BY <1>5, <2>1
  <2>3. tool' = [tool EXCEPT !.stick = u]
    BY <1>1
  <2> HIDE DEF u
  <2> QED BY <2>2, <2>3, EditedIsGood DEF JoyInv
<1>8. ActiveFits'
  BY <1>1 DEF JoyInv, ActiveFits
<1>9. DOMAIN sticks' = DOMAIN sticks
  BY <1>1
<1> QED BY <1>1, <1>4, <1>6, <1>7, <1>8, <1>9 DEF JoyInv

\* A player plugs a stick in.
LEMMA JoyPlugsIn ==
  ASSUME JoyInv, NEW p \in Pads, NEW i \in Places, PlugIn(p, i)
  PROVE  JoyInv'
<1>1. js' = [js EXCEPT ![i] = p] /\ UNCHANGED <<held, files, conf, opened, with_conf, sticks, tool>>
  BY DEF PlugIn, game
<1>2. js' \in [Places -> Pads \cup {None}]
  BY <1>1 DEF JoyInv
<1>3. ActiveFits' /\ GoodTool'
  BY <1>1 DEF JoyInv, ActiveFits, GoodTool
<1> QED BY <1>1, <1>2, <1>3 DEF JoyInv

\* A player pulls a stick out.
LEMMA JoyUnplugs ==
  ASSUME JoyInv, NEW i \in Places, Unplug(i)
  PROVE  JoyInv'
<1> DEFINE p == js[i]
<1>1. /\ js' = [js EXCEPT ![i] = None]
      /\ held' = [held EXCEPT ![p] = {}]
      /\ sticks' = [k \in DOMAIN sticks |-> Unplugged(sticks[k], p)]
      /\ tool' = [tool EXCEPT !.stick = Unplugged(tool.stick, p)]
      /\ UNCHANGED <<files, conf, opened, with_conf>>
  BY DEF Unplug
<1>2. p \in Pads
  BY DEF JoyInv, Unplug
<1>3. js' \in [Places -> Pads \cup {None}]
  BY <1>1 DEF JoyInv
<1> HIDE DEF p
<1>4. /\ \A q \in Pads \ {p} : held'[q] = held[q]
      /\ held' \in [Pads -> SUBSET Nat] /\ \A q \in Pads : held'[q] \subseteq ButtonsOf(q)
  BY <1>1, <1>2 DEF JoyInv
<1>5. ASSUME NEW s, GoodStick(s, held)
      PROVE  Unplugged(s, p).pad = s.pad /\ GoodStick(Unplugged(s, p), held')
  BY <1>2, <1>4, <1>5, UnpluggedIsGood
<1>6. \A k \in DOMAIN sticks' : GoodStick(sticks'[k], held')
  <2>1. \A k \in DOMAIN sticks : GoodStick(sticks[k], held)
    BY DEF JoyInv
  <2> QED BY <1>1, <1>5, <2>1
<1>7. GoodTool'
  <2>1. GoodStick(tool.stick, held)
    BY DEF JoyInv, GoodTool
  <2> DEFINE u == Unplugged(tool.stick, p)
  <2>2. u.pad = tool.stick.pad /\ GoodStick(u, held')
    BY <1>5, <2>1
  <2>3. tool' = [tool EXCEPT !.stick = u]
    BY <1>1
  <2> HIDE DEF u
  <2> QED BY <2>2, <2>3, EditedIsGood DEF JoyInv
<1>8. ActiveFits'
  BY <1>1 DEF JoyInv, ActiveFits
<1>9. DOMAIN sticks' = DOMAIN sticks
  BY <1>1
<1> QED BY <1>1, <1>3, <1>4, <1>6, <1>7, <1>8, <1>9 DEF JoyInv

\* Every step keeps the invariant.
LEMMA JoySteps == JoyInv /\ [JoysticksNext]_vars_joysticks => JoyInv'
<1> SUFFICES ASSUME JoyInv, [JoysticksNext]_vars_joysticks PROVE JoyInv'
  OBVIOUS
<1>1. ASSUME NEW refused \in SUBSET Places, NEW failing \in SUBSET Places, NEW garbage \in SUBSET Buttons,
             \/ ptapi_io_open(refused, failing, garbage)
             \/ \E pc \in {"test", "map"}, folder \in Folders, k \in 1 .. MaxJoysticks :
                  menu_joystick(pc, folder, k, refused, failing, garbage)
      PROVE  JoyInv'
  BY <1>1, JoyOpens, JoyMenu
<1>2. CASE ptapi_io_close
  BY <1>2, JoyCloses
<1>3. CASE ptapi_io_recv
  BY <1>3, JoyReceives
<1>4. CASE \E enter \in BOOLEAN : joystick_get_next_input(enter)
  BY <1>4, JoyReads
<1>5. CASE \E p \in Pads : \E b \in ButtonsOf(p) : PressOrRelease(p, b)
  BY <1>5, JoyPresses
<1>6. CASE \E p \in Pads, i \in Places : PlugIn(p, i)
  BY <1>6, JoyPlugsIn
<1>7. CASE \E i \in Places : Unplug(i)
  BY <1>7, JoyUnplugs
<1>8. CASE UNCHANGED vars_joysticks
  <2>1. UNCHANGED <<js, held, files, conf, opened, with_conf, sticks, tool>>
    BY <1>8 DEF vars_joysticks, game
  <2>2. ActiveFits' /\ GoodTool'
    BY <2>1 DEF JoyInv, ActiveFits, GoodTool
  <2> QED BY <2>1, <2>2 DEF JoyInv
<1> QED BY <1>1, <1>2, <1>3, <1>4, <1>5, <1>6, <1>7, <1>8, Zenon DEF JoysticksNext

\* The invariant holds throughout.
LEMMA JoyIsInvariant == JoysticksSpec => []JoyInv
BY JoyInitially, JoySteps, PTL DEF JoysticksSpec

\* The invariant says what the game is given.
LEMMA JoyIsHeld == JoyInv => PressedIsHeld
<1> SUFFICES ASSUME JoyInv, opened,
                    \A k \in Open : ~sticks[k].gone /\ sticks[k].announced /\ sticks[k].queue = <<>>,
                    NEW i \in Range(Inputs)
             PROVE  merge_inputs(i) <=> \E k \in Open : conf[with_conf[k]].button_map[i] \in held[sticks[k].pad]
  BY DEF PressedIsHeld
<1>1. ASSUME NEW k \in Open
      PROVE  io_util_joystick_is_button_pressed(sticks[k], conf[with_conf[k]].button_map[i])
               <=> conf[with_conf[k]].button_map[i] \in held[sticks[k].pad]
  <2> DEFINE s == sticks[k]
             b == conf[with_conf[k]].button_map[i]
  <2>1. k \in DOMAIN sticks /\ s.pad # None /\ ~s.gone /\ s.announced /\ s.queue = <<>>
    BY DEF Open
  <2>2. b \in Nat
    <3>1. with_conf[k] \in DOMAIN conf /\ conf \in Seq(Entries)
      BY <2>1 DEF JoyInv, Configurations
    <3>2. conf[with_conf[k]] \in Entries
      BY <3>1
    <3> QED BY <3>2 DEF Entries
  <2>3. GoodStick(s, held)
    BY <2>1 DEF JoyInv
  <2> HIDE DEF s, b
  <2>4. /\ s.pad \in Pads /\ s.button_state \in [ButtonsOf(s.pad) -> BOOLEAN]
        /\ \A c \in ButtonsOf(s.pad) : Applied(s.button_state, s.queue)[c] = (c \in held[s.pad])
    BY <2>1, <2>3 DEF GoodStick
  <2>5. Applied(s.button_state, <<>>) = s.button_state
    BY <2>4, AppliedNone
  <2>6. \A c \in ButtonsOf(s.pad) : s.button_state[c] = (c \in held[s.pad])
    BY <2>1, <2>4, <2>5
  <2>7. held[s.pad] \subseteq ButtonsOf(s.pad)
    BY <2>4 DEF JoyInv
  <2>8. b < NumButtons[s.pad] <=> b \in ButtonsOf(s.pad)
    BY <2>2, <2>4, ButtonsAreNumbers DEF ButtonsOf
  <2>9. io_util_joystick_is_button_pressed(s, b) <=> b < NumButtons[s.pad] /\ s.button_state[b]
    BY DEF io_util_joystick_is_button_pressed
  <2>10. io_util_joystick_is_button_pressed(s, b) <=> b \in held[s.pad]
    <3>1. CASE b \in ButtonsOf(s.pad)
      BY <2>6, <2>8, <2>9, <3>1
    <3>2. CASE b \notin ButtonsOf(s.pad)
      BY <2>7, <2>8, <2>9, <3>2
    <3> QED BY <3>1, <3>2
  <2> QED BY <2>10 DEF s, b
<1> QED BY <1>1 DEF merge_inputs

\* An input that the game is given is down exactly when one of the configured sticks
\* holds its button, for any number of sticks, buttons and places, and any buffer of
\* the kernel.
THEOREM InputsAreHeld == JoysticksSpec => []PressedIsHeld
BY JoyIsInvariant, JoyIsHeld, PTL

\* The sticks in use always fit the arrays of the library.
THEOREM SticksFit == JoysticksSpec => []ActiveFits
<1>1. JoyInv => ActiveFits
  BY DEF JoyInv
<1> QED BY <1>1, JoyIsInvariant, PTL

(* The tool on the files of a player. *)
\* A byte of the file, from the one of the buffer and the one of the file before it.
Unmixed(buf, k, before) == XorByte((buf[k] - Mix(k - 1)) % 256, before)
IsCipher(buf, c) ==
  c = [k \in DOMAIN buf |-> IF k = 1 THEN buf[1] ELSE Unmixed(buf, k, c[k - 1])]

\* What is left of a number is a byte, and a byte that was mixed in comes out.
LEMMA ModByte == \A x \in Int : x % 256 \in Byte
BY DEF Byte
LEMMA MixedAndUnmixed ==
  ASSUME NEW x \in Byte, NEW y \in Int PROVE (((x + y) % 256) - y) % 256 = x
BY DEF Byte

LEMMA MixedInts == \A x \in Byte, y \in Int : x - y \in Int /\ x + y \in Int
BY DEF Byte
LEMMA MixIsInt == \A a \in Int : Mix(a) \in Int
BY DEF Mix

LEMMA UnmixedByte ==
  ASSUME NEW buf \in Seq(Byte), NEW k \in DOMAIN buf, NEW b \in Byte
  PROVE  Unmixed(buf, k, b) \in Byte
<1>1. buf[k] \in Byte /\ Mix(k - 1) \in Int
  BY MixIsInt
<1>2. buf[k] - Mix(k - 1) \in Int
  BY <1>1, MixedInts
<1>3. (buf[k] - Mix(k - 1)) % 256 \in Byte
  BY <1>2, ModByte
<1> QED BY <1>3, ToolAssumption DEF Unmixed

\* What is encrypted is the only file of which each byte comes of the one before.
LEMMA OneCipher ==
  ASSUME NEW buf \in Seq(Byte), NEW c, IsCipher(buf, c), NEW d, IsCipher(buf, d)
  PROVE  c = d
<1> DEFINE T == {k \in DOMAIN buf : c[k] # d[k]}
<1>1. DOMAIN buf \subseteq Nat \ {0}
  OBVIOUS
<1>2. T = {}
  <2> SUFFICES ASSUME NEW n \in T PROVE FALSE
    OBVIOUS
  <2>1. PICK m \in T : \A k \in T : m <= k
    BY <1>1, LeastOf
  <2>2. m # 1
    BY <2>1 DEF IsCipher
  <2>3. m - 1 \in DOMAIN buf /\ m - 1 \notin T
    BY <1>1, <2>1, <2>2
  <2>4. c[m - 1] = d[m - 1]
    BY <2>3
  <2>5. c[m] = Unmixed(buf, m, c[m - 1]) /\ d[m] = Unmixed(buf, m, d[m - 1])
    BY <2>1, <2>2 DEF IsCipher
  <2> QED BY <2>1, <2>4, <2>5
<1>3. /\ DOMAIN c = DOMAIN buf /\ DOMAIN d = DOMAIN buf
      /\ c = [k \in DOMAIN c |-> c[k]] /\ d = [k \in DOMAIN d |-> d[k]]
  BY DEF IsCipher
<1>4. \A k \in DOMAIN buf : c[k] = d[k]
  BY <1>2
<1> QED BY <1>3, <1>4

LEMMA EncryptIsCipher ==
  ASSUME NEW buf \in Seq(Byte), NEW c, IsCipher(buf, c)
  PROVE  encrypt(buf) = c
<1> DEFINE e == CHOOSE f : IsCipher(buf, f)
<1>1. encrypt(buf) = e
  BY Zenon DEF encrypt, IsCipher, Unmixed
<1>2. IsCipher(buf, e)
  BY Zenon
<1> QED BY <1>1, <1>2, OneCipher

\* What is decrypted comes back byte for byte.
LEMMA EncryptUndoesDecrypt ==
  ASSUME NEW buf \in Seq(Byte)
  PROVE  decrypt(buf) \in Seq(Byte) /\ Len(decrypt(buf)) = Len(buf) /\ encrypt(decrypt(buf)) = buf
<1> DEFINE d == decrypt(buf)
<1>1. /\ DOMAIN d = 1 .. Len(buf)
      /\ \A k \in 1 .. Len(buf) :
           d[k] = IF k = 1 THEN buf[1] ELSE (XorByte(buf[k], buf[k - 1]) + Mix(k - 1)) % 256
      /\ d = [k \in 1 .. Len(buf) |-> d[k]]
  BY DEF decrypt
<1> HIDE DEF d
<1>2. \A k \in 1 .. Len(buf) : d[k] \in Byte
  <2> TAKE k \in 1 .. Len(buf)
  <2>1. CASE k = 1
    BY <1>1, <2>1
  <2>2. CASE k # 1
    <3>1. buf[k] \in Byte /\ buf[k - 1] \in Byte /\ Mix(k - 1) \in Int
      BY <2>2, MixIsInt, SMTT(30)
    <3>2. XorByte(buf[k], buf[k - 1]) \in Byte
      BY <3>1, ToolAssumption
    <3>3. XorByte(buf[k], buf[k - 1]) + Mix(k - 1) \in Int
      BY <3>1, <3>2, MixedInts
    <3> QED BY <1>1, <2>2, <3>3, ModByte
  <2> QED BY <2>1, <2>2
<1>3. d \in Seq(Byte) /\ Len(d) = Len(buf)
  BY <1>1, <1>2
<1>4. \A k \in DOMAIN d : k # 1 => Unmixed(d, k, buf[k - 1]) = buf[k]
  <2> SUFFICES ASSUME NEW k \in 1 .. Len(buf), k # 1
               PROVE  Unmixed(d, k, buf[k - 1]) = buf[k]
    BY <1>1
  <2>1. buf[k] \in Byte /\ buf[k - 1] \in Byte /\ Mix(k - 1) \in Int
    BY MixIsInt, SMTT(30)
  <2>2. XorByte(buf[k], buf[k - 1]) \in Byte
    BY <2>1, ToolAssumption
  <2>3. d[k] = (XorByte(buf[k], buf[k - 1]) + Mix(k - 1)) % 256
    BY <1>1
  <2>4. (d[k] - Mix(k - 1)) % 256 = XorByte(buf[k], buf[k - 1])
    BY <2>1, <2>2, <2>3, MixedAndUnmixed
  <2> QED BY <2>1, <2>4, ToolAssumption DEF Unmixed
<1>5. IsCipher(d, buf)
  <2>1. buf = [k \in DOMAIN d |-> buf[k]]
    BY <1>1
  <2>2. \A k \in DOMAIN d : buf[k] = IF k = 1 THEN d[1] ELSE Unmixed(d, k, buf[k - 1])
    BY <1>1, <1>4
  <2> QED BY <2>1, <2>2 DEF IsCipher
<1>6. encrypt(d) = buf
  BY <1>3, <1>5, EncryptIsCipher
<1> QED BY <1>3, <1>6 DEF d

\* Whatever is encrypted is as many bytes.
LEMMA EncryptBytes ==
  ASSUME NEW buf \in Seq(Byte)
  PROVE  encrypt(buf) \in Seq(Byte) /\ Len(encrypt(buf)) = Len(buf)
<1> DEFINE Next1(n, g) == \A k \in 1 .. n : g[k] = IF k = 1 THEN buf[1] ELSE Unmixed(buf, k, g[k - 1])
           T == {n \in 0 .. Len(buf) : ~ \E g \in [1 .. n -> Byte] : Next1(n, g)}
<1>1. T = {}
  <2> SUFFICES ASSUME NEW l \in T PROVE FALSE
    OBVIOUS
  <2>1. PICK n \in T : \A k \in T : n <= k
    <3> T \in SUBSET Nat
      OBVIOUS
    <3> HIDE DEF T
    <3> QED BY LeastOf
  <2>2. n # 0
    <3>1. ASSUME n = 0 PROVE FALSE
      <4> DEFINE g == [k \in 1 .. 0 |-> 0]
      <4>1. g \in [1 .. n -> Byte] /\ Next1(n, g)
        BY <3>1
      <4> QED BY <2>1, <4>1
    <3> QED BY <3>1
  <2>3. n - 1 \in 0 .. Len(buf) /\ n - 1 \notin T
    BY <2>1, <2>2, SMTT(30)
  <2>4. PICK g \in [1 .. n - 1 -> Byte] : Next1(n - 1, g)
    BY <2>3
  <2> DEFINE b == IF n = 1 THEN buf[1] ELSE Unmixed(buf, n, g[n - 1])
             h == [k \in 1 .. n |-> IF k = n THEN b ELSE g[k]]
  <2>5. b \in Byte
    <3>1. CASE n = 1
      BY <2>1, <3>1
    <3>2. CASE n # 1
      <4>1. n \in DOMAIN buf /\ g[n - 1] \in Byte
        BY <2>1, <2>2, <3>2
      <4> QED BY <3>2, <4>1, UnmixedByte
    <3> QED BY <3>1, <3>2
  <2>6. h \in [1 .. n -> Byte]
    <3> HIDE DEF b
    <3> QED BY <2>1, <2>2, <2>5
  <2>7. Next1(n, h)
    <3> SUFFICES ASSUME NEW k \in 1 .. n
                 PROVE  h[k] = IF k = 1 THEN buf[1] ELSE Unmixed(buf, k, h[k - 1])
      OBVIOUS
    <3>1. CASE k = n
      BY <2>1, <2>2, <3>1
    <3>2. CASE k # n
      <4>1. k \in 1 .. n - 1
        BY <2>1, <3>2
      <4>2. h[k] = g[k] /\ (k # 1 => h[k - 1] = g[k - 1])
        <5> HIDE DEF b
        <5> QED BY <4>1, <2>1, <3>2
      <4> QED BY <4>1, <4>2, <2>4
    <3> QED BY <3>1, <3>2
  <2> QED BY <2>1, <2>6, <2>7
<1>2. PICK c \in [1 .. Len(buf) -> Byte] : Next1(Len(buf), c)
  BY <1>1
<1>3. IsCipher(buf, c)
  <2>1. DOMAIN buf = 1 .. Len(buf) /\ c = [k \in 1 .. Len(buf) |-> c[k]]
    OBVIOUS
  <2> QED BY <1>2, <2>1 DEF IsCipher
<1>4. encrypt(buf) = c
  BY <1>3, EncryptIsCipher
<1>5. c \in Seq(Byte) /\ Len(c) = Len(buf)
  OBVIOUS
<1> QED BY <1>4, <1>5

\* The length of a file is never one that a save is cut off at.
LEMMA KindFacts ==
  ASSUME NEW kind \in Kinds
  PROVE  Skipped(kind) \in {0, 1} /\ Size(kind) = Skipped(kind) + 4 /\ Size(kind) \in Nat \ {0}
           /\ Size(kind) \notin {0, 2}
BY DEF Skipped, Size

\* The part of a file that is never encrypted, and what is behind it.
LEMMA Parts ==
  ASSUME NEW kind \in Kinds, NEW b \in Seq(Byte), Skipped(kind) <= Len(b)
  PROVE  /\ Review(kind, b) \in Seq(Byte) /\ Len(Review(kind, b)) = Skipped(kind)
         /\ BehindReview(kind, b) \in Seq(Byte)
         /\ Len(BehindReview(kind, b)) = Len(b) - Skipped(kind)
         /\ Review(kind, b) \o BehindReview(kind, b) = b
<1> DEFINE n == Skipped(kind)
<1>1. n \in Nat
  BY KindFacts
<1> HIDE DEF n
<1>2. /\ SubSeq(b, 1, n) \in Seq(Byte) /\ Len(SubSeq(b, 1, n)) = n
      /\ SubSeq(b, n + 1, Len(b)) \in Seq(Byte) /\ Len(SubSeq(b, n + 1, Len(b))) = Len(b) - n
  <2>1. n <= Len(b)
    BY DEF n
  <2> QED BY <1>1, <2>1
<1>3. SubSeq(b, 1, n) \o SubSeq(b, n + 1, Len(b)) = b
  <2>1. 1 \in 1 .. Len(b) + 1 /\ n \in 1 - 1 .. Len(b) /\ Len(b) \in n .. Len(b)
    BY <1>1 DEF n
  <2>2. SubSeq(b, 1, n) \o SubSeq(b, n + 1, Len(b)) = SubSeq(b, 1, Len(b))
    BY <2>1, ConcatAdjacentSubSeq
  <2> QED BY <2>2, SubSeqFull
<1> QED BY <1>2, <1>3 DEF n, Review, BehindReview

\* What is behind a part of that length.
LEMMA PartsOfJoined ==
  ASSUME NEW kind \in Kinds, NEW r \in Seq(Byte), Len(r) = Skipped(kind), NEW t \in Seq(Byte)
  PROVE  /\ r \o t \in Seq(Byte) /\ Len(r \o t) = Skipped(kind) + Len(t)
         /\ Review(kind, r \o t) = r /\ BehindReview(kind, r \o t) = t
<1> DEFINE n == Skipped(kind)
<1>1. n \in Nat
  BY KindFacts
<1> HIDE DEF n
<1>2. r \o t \in Seq(Byte) /\ Len(r \o t) = n + Len(t)
  BY DEF n
<1>3. SubSeq(r \o t, 1, n) = r
  BY <1>1 DEF n
<1>4. SubSeq(r \o t, n + 1, Len(r \o t)) = t
  BY <1>1, <1>2 DEF n
<1> QED BY <1>2, <1>3, <1>4 DEF n, Review, BehindReview

\* A file keeps its length either way, and comes back with its first part as it was.
LEMMA FileComesBack ==
  ASSUME NEW kind \in Kinds, NEW b \in Seq(Byte), Skipped(kind) <= Len(b)
  PROVE  /\ DecryptedFile(kind, b) \in Seq(Byte) /\ Len(DecryptedFile(kind, b)) = Len(b)
         /\ EncryptedFile(kind, b) \in Seq(Byte) /\ Len(EncryptedFile(kind, b)) = Len(b)
         /\ EncryptedFile(kind, DecryptedFile(kind, b)) = b
<1> DEFINE r == Review(kind, b)
           t == BehindReview(kind, b)
<1>1. /\ r \in Seq(Byte) /\ Len(r) = Skipped(kind)
      /\ t \in Seq(Byte) /\ Len(t) = Len(b) - Skipped(kind) /\ r \o t = b
  BY Parts
<1>2. Skipped(kind) \in Nat /\ Len(b) \in Nat
  BY KindFacts
<1> HIDE DEF r, t
<1>3. decrypt(t) \in Seq(Byte) /\ Len(decrypt(t)) = Len(t) /\ encrypt(decrypt(t)) = t
  BY <1>1, EncryptUndoesDecrypt
<1>4. encrypt(t) \in Seq(Byte) /\ Len(encrypt(t)) = Len(t)
  BY <1>1, EncryptBytes
<1>5. r \o decrypt(t) \in Seq(Byte) /\ Len(r \o decrypt(t)) = Len(b)
        /\ Review(kind, r \o decrypt(t)) = r /\ BehindReview(kind, r \o decrypt(t)) = decrypt(t)
  BY <1>1, <1>2, <1>3, PartsOfJoined
<1>6. r \o encrypt(t) \in Seq(Byte) /\ Len(r \o encrypt(t)) = Len(b)
  BY <1>1, <1>2, <1>4, PartsOfJoined
<1>7. DecryptedFile(kind, b) = r \o decrypt(t) /\ EncryptedFile(kind, b) = r \o encrypt(t)
  BY DEF r, t, DecryptedFile, EncryptedFile
<1>8. EncryptedFile(kind, r \o decrypt(t)) = r \o t
  BY <1>3, <1>5 DEF EncryptedFile
<1> QED BY <1>1, <1>5, <1>6, <1>7, <1>8

IsFile(f) == f = NoFile \/ f \in Seq(Byte)

\* A save leaves the old file, or the new bytes, or fewer.
LEMMA FileSaved ==
  ASSUME NEW kind \in Kinds, NEW content \in Seq(Byte), Len(content) = Size(kind),
         NEW end \in SaveEnds, NEW old
  PROVE  LET new == util_file_save(old, content, end)
         IN IF end.length = -1 THEN new = old
            ELSE new \in Seq(Byte) /\ (Len(new) = Size(kind) => new = content)
<1>1. end.length \in {-1, 0, 2}
  BY DEF SaveEnds
<1>2. \A n \in {0, 2} : SubSeq(content, 1, n) \in Seq(Byte) /\ Len(SubSeq(content, 1, n)) = n
  BY KindFacts DEF Size, Skipped
<1>3. Size(kind) \notin {0, 2}
  BY KindFacts
<1> QED BY <1>1, <1>2, <1>3 DEF util_file_save

\* What a command finds of a file is as long as the game wants it, and of a file of
\* that length all that is in it; only fex takes one of another length.
LEMMA FileLoaded ==
  ASSUME NEW kind \in Kinds, NEW suffix \in FileEnds, NEW after \in Byte,
         IsFile(profile[<<kind, suffix>>]),
         LoadedBytes(kind, suffix, after) # NoFile
  PROVE  LET content == profile[<<kind, suffix>>]
             loaded == LoadedBytes(kind, suffix, after)
         IN /\ content \in Seq(Byte)
            /\ loaded \in Seq(Byte) /\ Len(loaded) = Size(kind)
            /\ Len(content) = Size(kind) =>
                 loaded = IF suffix = ".dec" THEN content ELSE DecryptedFile(kind, content)
            /\ Len(content) # Size(kind) => profile_game = "fex"
<1> DEFINE content == profile[<<kind, suffix>>]
           plain == IF suffix = ".dec" THEN content ELSE DecryptedFile(kind, content)
           loaded == LoadedBytes(kind, suffix, after)
           longer == [i \in 1 .. Size(kind) |-> IF i <= Len(content) THEN plain[i] ELSE after]
<1>1. /\ content # NoFile /\ content # <<>>
      /\ loaded = IF Len(content) = Size(kind) THEN plain
                  ELSE IF profile_game # "fex" THEN NoFile ELSE longer
  BY Zenon DEF LoadedBytes
<1>2. content \in Seq(Byte) /\ Skipped(kind) <= Len(content)
  <2>1. content \in Seq(Byte) /\ content # <<>>
    BY <1>1 DEF IsFile
  <2>2. Len(content) \in Nat \ {0}
    <3> HIDE DEF content
    <3> QED BY <2>1, EmptySeq
  <2>3. Skipped(kind) \in {0, 1}
    BY KindFacts
  <2> QED BY <2>1, <2>2, <2>3
<1>3. plain \in Seq(Byte) /\ Len(plain) = Len(content)
  BY <1>2, FileComesBack
<1>4. Size(kind) \in Nat
  BY KindFacts
<1> HIDE DEF content, plain, loaded
<1>5. longer \in Seq(Byte) /\ Len(longer) = Size(kind)
  <2>1. \A i \in 1 .. Size(kind) : longer[i] \in Byte
    <3> TAKE i \in 1 .. Size(kind)
    <3>1. Len(content) \in Nat
      BY <1>2
    <3>2. i <= Len(content) => i \in 1 .. Len(plain)
      BY <1>3, <1>4, <3>1
    <3>3. i <= Len(content) => plain[i] \in Byte
      BY <1>3, <3>2
    <3> QED BY <3>3
  <2>2. longer \in [1 .. Size(kind) -> Byte]
    BY <2>1
  <2> HIDE DEF longer
  <2> QED BY <1>4, <2>2
<1> HIDE DEF longer
<1>6. loaded \in Seq(Byte) /\ Len(loaded) = Size(kind)
        /\ (Len(content) = Size(kind) => loaded = plain)
        /\ (Len(content) # Size(kind) => profile_game = "fex")
  BY <1>1, <1>3, <1>5 DEF loaded
<1> QED BY <1>2, <1>6 DEF content, plain, loaded

\* A whole file d that was decrypted from a whole file o, and one that came back from it.
DecryptedCopy(kind, d, o) ==
  o # NoFile /\ Len(d) = Size(kind) => Len(o) = Size(kind) /\ d = DecryptedFile(kind, o)
EncryptedCopy(kind, e, o) ==
  o # NoFile /\ Len(e) = Size(kind) => e = o

AllAreBytes ==
  /\ DOMAIN profile = FilesOf /\ DOMAIN taken = FilesOf
  /\ \A at \in FilesOf :
       /\ IsFile(profile[at])
       /\ taken[at] # NoFile => profile[at] \in Seq(Byte) /\ taken[at] \in Seq(Byte)

CopiesInv ==
  \A kind \in Kinds :
    /\ <<kind, ".dec">> \notin padded =>
         DecryptedCopy(kind, profile[<<kind, ".dec">>], taken[<<kind, ".dec">>])
    /\ <<kind, ".dec.enc">> \notin padded =>
         EncryptedCopy(kind, profile[<<kind, ".dec.enc">>], taken[<<kind, ".dec.enc">>])

\* The tools of the other games refuse a file of another length.
OnlyFexPads == padded # {} => profile_game = "fex"

\* Settings that have their length have their checksum.
SettingsSummed ==
  settings_file # NoFile /\ Len(settings_file) = 3 =>
    settings_file[1] = SettingsSum(settings_file[2])

\* The inductive invariant: an encrypted copy comes of a decrypted one, which is
\* itself the game's file, decrypted, as long as it was not edited or padded.
ToolInv == AllAreBytes /\ CopiesInv /\ OnlyFexPads /\ SettingsSummed

\* The game never changes, and so neither do the lengths of its files.
LEMMA GameStays ==
  ASSUME profile_game' = profile_game,
         \A kind \in Kinds :
           /\ <<kind, ".dec">> \notin padded' =>
                DecryptedCopy(kind, profile'[<<kind, ".dec">>], taken'[<<kind, ".dec">>])
           /\ <<kind, ".dec.enc">> \notin padded' =>
                EncryptedCopy(kind, profile'[<<kind, ".dec.enc">>], taken'[<<kind, ".dec.enc">>])
  PROVE  CopiesInv'
BY DEF CopiesInv, DecryptedCopy, EncryptedCopy, DecryptedFile, Review, BehindReview, Size,
       Skipped

LEMMA FileNames ==
  /\ \A at \in FilesOf : at[1] \in Kinds /\ at[2] \in FileEnds /\ at = <<at[1], at[2]>>
  /\ \A kind \in Kinds, suffix \in FileEnds :
       <<kind, suffix>> \in FilesOf /\ <<kind, suffix>>[1] = kind /\ <<kind, suffix>>[2] = suffix
BY DEF FilesOf

LEMMA ThreeEnds ==
  "none" \in FileEnds /\ ".dec" \in FileEnds /\ ".dec.enc" \in FileEnds
BY DEF FileEnds

\* Saving both files touches none of another suffix, and leaves each as it was, cut
\* off, or whole.
LEMMA BothSaved ==
  ASSUME AllAreBytes, NEW suffix \in FileEnds, NEW content, NEW results,
         NEW ends \in [Kinds -> SaveEnds], SaveBoth(suffix, content, ends, results),
         \A kind \in Kinds : content[kind] \in Seq(Byte) /\ Len(content[kind]) = Size(kind)
  PROVE  /\ DOMAIN profile' = FilesOf
         /\ \A at \in FilesOf : at[2] # suffix => profile'[at] = profile[at]
         /\ \A at \in FilesOf : at[2] = suffix =>
              IF ends[at[1]].length = -1 THEN profile'[at] = profile[at]
              ELSE /\ profile'[at] \in Seq(Byte)
                   /\ Len(profile'[at]) = Size(at[1]) => profile'[at] = content[at[1]]
         /\ profile_game' = profile_game /\ settings_file' = settings_file
<1>1. /\ profile' = [at \in FilesOf |->
                       IF at[2] # suffix THEN profile[at]
                       ELSE util_file_save(profile[at], content[at[1]], ends[at[1]])]
      /\ profile_game' = profile_game /\ settings_file' = settings_file
  BY DEF SaveBoth
<1>2. ASSUME NEW at \in FilesOf, at[2] = suffix
      PROVE  IF ends[at[1]].length = -1 THEN profile'[at] = profile[at]
             ELSE /\ profile'[at] \in Seq(Byte)
                  /\ Len(profile'[at]) = Size(at[1]) => profile'[at] = content[at[1]]
  <2> DEFINE kind == at[1]
             end == ends[at[1]]
             new == util_file_save(profile[at], content[at[1]], end)
  <2>1. profile'[at] = new
    BY <1>1, <1>2
  <2>2. kind \in Kinds /\ end \in SaveEnds
    BY FileNames
  <2>3. IF end.length = -1 THEN new = profile[at]
        ELSE new \in Seq(Byte) /\ (Len(new) = Size(kind) => new = content[kind])
    BY <2>2, FileSaved
  <2> HIDE DEF kind, end, new
  <2> QED BY <2>1, <2>3 DEF kind, end
<1> QED BY <1>1, <1>2

\* A profile of the game or of the tool is of bytes, and as long as its kind.
LEMMA NewFiles ==
  ASSUME NEW kind \in Kinds, NEW b \in New(kind) \cup SavedByGame(kind)
  PROVE  /\ b \in Seq(Byte) /\ Len(b) = Size(kind)
         /\ EncryptedFile(kind, b) \in Seq(Byte) /\ Len(EncryptedFile(kind, b)) = Size(kind)
<1>1. \A d \in Byte \X Byte : Whole(kind, d) \in Seq(Byte) /\ Len(Whole(kind, d)) = Size(kind)
  <2> SUFFICES ASSUME NEW x \in Byte, NEW y \in Byte
               PROVE  Whole(kind, <<x, y>>) \in Seq(Byte) /\ Len(Whole(kind, <<x, y>>)) = Size(kind)
    OBVIOUS
  <2> DEFINE n == Skipped(kind)
             s == (1 + x + y) % 251
             t == (2 + 2 * x + y) % 251
             skipped == [i \in 1 .. n |-> x]
  <2>1. n \in Nat /\ Size(kind) = n + 4
    BY KindFacts
  <2>2. s \in Byte /\ t \in Byte
    BY DEF Byte
  <2>3. Whole(kind, <<x, y>>) = skipped \o <<s, t>> \o <<x, y>>
    BY DEF Whole, util_adler32_calc, MOD_ADLER
  <2> HIDE DEF n, s, t
  <2>4. skipped \in Seq(Byte) /\ Len(skipped) = n
    BY <2>1
  <2>5. <<s, t>> \in Seq(Byte) /\ Len(<<s, t>>) = 2 /\ <<x, y>> \in Seq(Byte) /\ Len(<<x, y>>) = 2
    BY <2>2
  <2> HIDE DEF skipped
  <2>6. /\ skipped \o <<s, t>> \o <<x, y>> \in Seq(Byte)
        /\ Len(skipped \o <<s, t>> \o <<x, y>>) = n + 4
    BY <2>1, <2>4, <2>5
  <2> QED BY <2>1, <2>3, <2>6
<1>2. \A c \in Byte : [i \in 1 .. Size(kind) |-> c] \in Seq(Byte)
                        /\ Len([i \in 1 .. Size(kind) |-> c]) = Size(kind)
  BY KindFacts
<1>3. b \in Seq(Byte) /\ Len(b) = Size(kind)
  <2>1. <<0, 0>> \in Byte \X Byte /\ ProfileBytes \X ProfileBytes \subseteq Byte \X Byte
    <3>1. 0 \in Byte
      BY DEF Byte
    <3>2. ProfileBytes \subseteq Byte
      BY ToolAssumption
    <3> QED BY <3>1, <3>2
  <2>2. Leftovers \subseteq Byte
    BY ToolAssumption
  <2> QED BY <1>1, <1>2, <2>1, <2>2 DEF New, SavedByGame
<1>4. Skipped(kind) <= Len(b)
  BY <1>3, KindFacts
<1> QED BY <1>3, <1>4, FileComesBack

\* A copy is noted exactly for the files that were written.
LEMMA CopiesSaved ==
  ASSUME AllAreBytes, NEW suffix \in FileEnds, NEW content, NEW results, NEW of,
         NEW from, NEW ends \in [Kinds -> SaveEnds], SaveBoth(suffix, content, ends, results),
         Copies(suffix, from, of, ends),
         \A kind \in Kinds : content[kind] \in Seq(Byte) /\ Len(content[kind]) = Size(kind),
         \A kind \in Kinds : of[kind] # NoFile => of[kind] \in Seq(Byte)
  PROVE  /\ AllAreBytes'
         /\ \A kind \in Kinds, other \in FileEnds : other # suffix =>
              profile'[<<kind, other>>] = profile[<<kind, other>>]
              /\ taken'[<<kind, other>>] = taken[<<kind, other>>]
              /\ (<<kind, other>> \in padded' <=> <<kind, other>> \in padded)
         /\ \A kind \in Kinds :
              \/ /\ profile'[<<kind, suffix>>] = profile[<<kind, suffix>>]
                 /\ taken'[<<kind, suffix>>] = taken[<<kind, suffix>>]
                 /\ <<kind, suffix>> \in padded' <=> <<kind, suffix>> \in padded
              \/ /\ taken'[<<kind, suffix>>] = of[kind]
                 /\ Len(profile'[<<kind, suffix>>]) = Size(kind) =>
                      profile'[<<kind, suffix>>] = content[kind]
                 /\ <<kind, suffix>> \notin padded' =>
                      Len(profile[<<kind, from>>]) = Size(kind) /\ <<kind, from>> \notin padded
         /\ padded' # {} =>
              padded # {} \/ \E kind \in Kinds : Len(profile[<<kind, from>>]) # Size(kind)
         /\ profile_game' = profile_game /\ settings_file' = settings_file
<1>1. /\ DOMAIN profile' = FilesOf
      /\ \A at \in FilesOf : at[2] # suffix => profile'[at] = profile[at]
      /\ \A at \in FilesOf : at[2] = suffix =>
           IF ends[at[1]].length = -1 THEN profile'[at] = profile[at]
           ELSE /\ profile'[at] \in Seq(Byte)
                /\ Len(profile'[at]) = Size(at[1]) => profile'[at] = content[at[1]]
      /\ profile_game' = profile_game /\ settings_file' = settings_file
  BY BothSaved
<1> DEFINE Written(at) == at[2] = suffix /\ ends[at[1]].length # -1
           Bad(kind) == Len(profile[<<kind, from>>]) # Size(kind) \/ <<kind, from>> \in padded
<1>2. /\ taken' = [at \in FilesOf |-> IF Written(at) THEN of[at[1]] ELSE taken[at]]
      /\ \A at \in FilesOf :
           at \in padded' <=> IF Written(at) THEN Bad(at[1]) ELSE at \in padded
      /\ \A at \in padded' : at \in padded \/ (at \in FilesOf /\ Bad(at[1]))
  BY DEF Copies
<1>3. \A at \in FilesOf :
        \/ /\ profile'[at] = profile[at] /\ taken'[at] = taken[at]
           /\ at \in padded' <=> at \in padded
        \/ /\ at[2] = suffix /\ taken'[at] = of[at[1]] /\ profile'[at] \in Seq(Byte)
           /\ Len(profile'[at]) = Size(at[1]) => profile'[at] = content[at[1]]
           /\ at \notin padded' => ~Bad(at[1])
  BY <1>1, <1>2
<1>7. padded' # {} =>
        padded # {} \/ \E kind \in Kinds : Len(profile[<<kind, from>>]) # Size(kind)
  BY <1>2, FileNames
<1>4. AllAreBytes'
  <2>1. ASSUME NEW at \in FilesOf
        PROVE  /\ IsFile(profile'[at])
               /\ taken'[at] # NoFile => profile'[at] \in Seq(Byte) /\ taken'[at] \in Seq(Byte)
    <3>1. at[1] \in Kinds
      BY FileNames
    <3> QED BY <1>3, <3>1 DEF AllAreBytes, IsFile
  <2>2. DOMAIN taken' = FilesOf
    BY <1>2
  <2> QED BY <1>1, <2>1, <2>2 DEF AllAreBytes, IsFile
<1>5. \A kind \in Kinds, other \in FileEnds : other # suffix =>
        profile'[<<kind, other>>] = profile[<<kind, other>>]
        /\ taken'[<<kind, other>>] = taken[<<kind, other>>]
        /\ (<<kind, other>> \in padded' <=> <<kind, other>> \in padded)
  <2> HIDE DEF Bad
  <2> QED BY <1>3, FileNames
<1>6. \A kind \in Kinds :
        \/ /\ profile'[<<kind, suffix>>] = profile[<<kind, suffix>>]
           /\ taken'[<<kind, suffix>>] = taken[<<kind, suffix>>]
           /\ <<kind, suffix>> \in padded' <=> <<kind, suffix>> \in padded
        \/ /\ taken'[<<kind, suffix>>] = of[kind]
           /\ Len(profile'[<<kind, suffix>>]) = Size(kind) =>
                profile'[<<kind, suffix>>] = content[kind]
           /\ <<kind, suffix>> \notin padded' => ~Bad(kind)
  <2> HIDE DEF Bad
  <2> QED BY <1>3, FileNames
<1> QED BY <1>1, <1>4, <1>5, <1>6, <1>7

\* A decrypted copy is noted for what was loaded whole.
LEMMA DecKeeps ==
  ASSUME ToolInv, NEW ends \in [Kinds -> SaveEnds], NEW after \in Leftovers,
         CommandDec(ends, after)
  PROVE  ToolInv'
<1> DEFINE content == [kind \in Kinds |-> LoadedBytes(kind, "none", after)]
           of == [kind \in Kinds |-> profile[<<kind, "none">>]]
<1>1. AllAreBytes /\ CopiesInv /\ OnlyFexPads /\ SettingsSummed /\ after \in Byte
  BY ToolAssumption DEF ToolInv
<1>2. \A kind \in Kinds :
        /\ content[kind] \in Seq(Byte) /\ Len(content[kind]) = Size(kind)
        /\ of[kind] \in Seq(Byte) /\ of[kind] = profile[<<kind, "none">>]
        /\ Len(of[kind]) = Size(kind) => content[kind] = DecryptedFile(kind, of[kind])
        /\ Len(profile[<<kind, "none">>]) # Size(kind) => profile_game = "fex"
  <2> TAKE kind \in Kinds
  <2>1. IsFile(profile[<<kind, "none">>])
    BY <1>1, FileNames, ThreeEnds DEF AllAreBytes
  <2>2. LoadedBytes(kind, "none", after) # NoFile
    BY DEF CommandDec, Loads
  <2> QED BY <1>1, <2>1, <2>2, FileLoaded, ThreeEnds
<1>3. SaveBoth(".dec", content, ends, [rank |-> -6, save |-> -7])
        /\ Copies(".dec", "none", of, ends)
  BY DEF CommandDec
<1> HIDE DEF content, of
<1>4. /\ AllAreBytes'
      /\ \A kind \in Kinds, other \in FileEnds : other # ".dec" =>
           profile'[<<kind, other>>] = profile[<<kind, other>>]
           /\ taken'[<<kind, other>>] = taken[<<kind, other>>]
           /\ (<<kind, other>> \in padded' <=> <<kind, other>> \in padded)
      /\ \A kind \in Kinds :
           \/ /\ profile'[<<kind, ".dec">>] = profile[<<kind, ".dec">>]
              /\ taken'[<<kind, ".dec">>] = taken[<<kind, ".dec">>]
              /\ <<kind, ".dec">> \in padded' <=> <<kind, ".dec">> \in padded
           \/ /\ taken'[<<kind, ".dec">>] = of[kind]
              /\ Len(profile'[<<kind, ".dec">>]) = Size(kind) =>
                   profile'[<<kind, ".dec">>] = content[kind]
              /\ <<kind, ".dec">> \notin padded' =>
                   Len(profile[<<kind, "none">>]) = Size(kind) /\ <<kind, "none">> \notin padded
      /\ padded' # {} =>
           padded # {} \/ \E kind \in Kinds : Len(profile[<<kind, "none">>]) # Size(kind)
      /\ profile_game' = profile_game /\ settings_file' = settings_file
  BY <1>1, <1>2, <1>3, CopiesSaved, ThreeEnds
<1>5. CopiesInv'
  <2>1. ASSUME NEW kind \in Kinds
        PROVE  /\ <<kind, ".dec">> \notin padded' =>
                    DecryptedCopy(kind, profile'[<<kind, ".dec">>], taken'[<<kind, ".dec">>])
               /\ <<kind, ".dec.enc">> \notin padded' =>
                EncryptedCopy(kind, profile'[<<kind, ".dec.enc">>], taken'[<<kind, ".dec.enc">>])
    <3>1. <<kind, ".dec.enc">> \notin padded' =>
            EncryptedCopy(kind, profile'[<<kind, ".dec.enc">>], taken'[<<kind, ".dec.enc">>])
      BY <1>1, <1>4, ThreeEnds DEF CopiesInv
    <3>2. CASE taken'[<<kind, ".dec">>] = of[kind]
                 /\ (Len(profile'[<<kind, ".dec">>]) = Size(kind) =>
                       profile'[<<kind, ".dec">>] = content[kind])
                 /\ (<<kind, ".dec">> \notin padded' =>
                       Len(profile[<<kind, "none">>]) = Size(kind)
                       /\ <<kind, "none">> \notin padded)
      BY <1>2, <3>1, <3>2 DEF DecryptedCopy
    <3>3. CASE profile'[<<kind, ".dec">>] = profile[<<kind, ".dec">>]
                 /\ taken'[<<kind, ".dec">>] = taken[<<kind, ".dec">>]
                 /\ (<<kind, ".dec">> \in padded' <=> <<kind, ".dec">> \in padded)
      BY <1>1, <3>1, <3>3 DEF CopiesInv
    <3> QED BY <1>4, <3>2, <3>3
  <2> QED BY <1>4, <2>1, GameStays
<1>6. OnlyFexPads'
  BY <1>1, <1>2, <1>4 DEF OnlyFexPads
<1> QED BY <1>1, <1>4, <1>5, <1>6 DEF ToolInv, SettingsSummed, SettingsSum

\* What is encrypted from a whole decrypted copy is the file that it came from.
LEMMA EncKeeps ==
  ASSUME ToolInv, NEW ends \in [Kinds -> SaveEnds], NEW after \in Leftovers,
         CommandEnc(ends, after)
  PROVE  ToolInv'
<1> DEFINE content == [kind \in Kinds |-> EncryptedFile(kind, LoadedBytes(kind, ".dec", after))]
           of == [kind \in Kinds |-> taken[<<kind, ".dec">>]]
<1>1. AllAreBytes /\ CopiesInv /\ OnlyFexPads /\ SettingsSummed /\ after \in Byte
  BY ToolAssumption DEF ToolInv
<1>2. \A kind \in Kinds :
        /\ content[kind] \in Seq(Byte) /\ Len(content[kind]) = Size(kind)
        /\ of[kind] # NoFile => of[kind] \in Seq(Byte)
        /\ Len(profile[<<kind, ".dec">>]) = Size(kind) /\ <<kind, ".dec">> \notin padded
             /\ of[kind] # NoFile => content[kind] = of[kind]
        /\ Len(profile[<<kind, ".dec">>]) # Size(kind) => profile_game = "fex"
  <2> TAKE kind \in Kinds
  <2> DEFINE plain == profile[<<kind, ".dec">>]
             loaded == LoadedBytes(kind, ".dec", after)
  <2>1. IsFile(plain) /\ (taken[<<kind, ".dec">>] # NoFile => taken[<<kind, ".dec">>] \in Seq(Byte))
    BY <1>1, FileNames, ThreeEnds DEF AllAreBytes
  <2>2. loaded # NoFile
    BY DEF CommandEnc, Loads
  <2>3. /\ loaded \in Seq(Byte) /\ Len(loaded) = Size(kind)
        /\ Len(plain) = Size(kind) => loaded = plain
        /\ Len(plain) # Size(kind) => profile_game = "fex"
    BY <1>1, <2>1, <2>2, FileLoaded, ThreeEnds
  <2>4. /\ of[kind] # NoFile => of[kind] \in Seq(Byte)
        /\ of[kind] = taken[<<kind, ".dec">>]
    BY <2>1
  <2>5. content[kind] = EncryptedFile(kind, loaded)
    OBVIOUS
  <2> HIDE DEF content, of, loaded
  <2>6. Skipped(kind) <= Size(kind)
    BY KindFacts
  <2>7. content[kind] \in Seq(Byte) /\ Len(content[kind]) = Size(kind)
    BY <2>3, <2>5, <2>6, FileComesBack
  <2>8. ASSUME Len(plain) = Size(kind), <<kind, ".dec">> \notin padded, of[kind] # NoFile
        PROVE  content[kind] = of[kind]
    <3>1. DecryptedCopy(kind, plain, taken[<<kind, ".dec">>])
      BY <1>1, <2>8 DEF CopiesInv
    <3> HIDE DEF plain
    <3>2. Len(of[kind]) = Size(kind) /\ plain = DecryptedFile(kind, of[kind])
      BY <2>4, <2>8, <3>1 DEF DecryptedCopy
    <3>3. loaded = DecryptedFile(kind, of[kind])
      BY <2>3, <2>8, <3>2
    <3>4. EncryptedFile(kind, DecryptedFile(kind, of[kind])) = of[kind]
      BY <2>4, <2>6, <2>8, <3>2, FileComesBack
    <3> QED BY <2>5, <3>3, <3>4
  <2> QED BY <2>3, <2>4, <2>7, <2>8
<1>3. SaveBoth(".dec.enc", content, ends, [rank |-> -6, save |-> -7])
        /\ Copies(".dec.enc", ".dec", of, ends)
  BY DEF CommandEnc
<1> HIDE DEF content, of
<1>4. /\ AllAreBytes'
      /\ \A kind \in Kinds, other \in FileEnds : other # ".dec.enc" =>
           profile'[<<kind, other>>] = profile[<<kind, other>>]
           /\ taken'[<<kind, other>>] = taken[<<kind, other>>]
           /\ (<<kind, other>> \in padded' <=> <<kind, other>> \in padded)
      /\ \A kind \in Kinds :
           \/ /\ profile'[<<kind, ".dec.enc">>] = profile[<<kind, ".dec.enc">>]
              /\ taken'[<<kind, ".dec.enc">>] = taken[<<kind, ".dec.enc">>]
              /\ <<kind, ".dec.enc">> \in padded' <=> <<kind, ".dec.enc">> \in padded
           \/ /\ taken'[<<kind, ".dec.enc">>] = of[kind]
              /\ Len(profile'[<<kind, ".dec.enc">>]) = Size(kind) =>
                   profile'[<<kind, ".dec.enc">>] = content[kind]
              /\ <<kind, ".dec.enc">> \notin padded' =>
                   Len(profile[<<kind, ".dec">>]) = Size(kind) /\ <<kind, ".dec">> \notin padded
      /\ padded' # {} =>
           padded # {} \/ \E kind \in Kinds : Len(profile[<<kind, ".dec">>]) # Size(kind)
      /\ profile_game' = profile_game /\ settings_file' = settings_file
  BY <1>1, <1>2, <1>3, CopiesSaved, ThreeEnds
<1>5. CopiesInv'
  <2>1. ASSUME NEW kind \in Kinds
        PROVE  /\ <<kind, ".dec">> \notin padded' =>
                    DecryptedCopy(kind, profile'[<<kind, ".dec">>], taken'[<<kind, ".dec">>])
               /\ <<kind, ".dec.enc">> \notin padded' =>
                EncryptedCopy(kind, profile'[<<kind, ".dec.enc">>], taken'[<<kind, ".dec.enc">>])
    <3>1. <<kind, ".dec">> \notin padded' =>
            DecryptedCopy(kind, profile'[<<kind, ".dec">>], taken'[<<kind, ".dec">>])
      BY <1>1, <1>4, ThreeEnds DEF CopiesInv
    <3>2. CASE taken'[<<kind, ".dec.enc">>] = of[kind]
                 /\ (Len(profile'[<<kind, ".dec.enc">>]) = Size(kind) =>
                       profile'[<<kind, ".dec.enc">>] = content[kind])
                 /\ (<<kind, ".dec.enc">> \notin padded' =>
                       Len(profile[<<kind, ".dec">>]) = Size(kind)
                       /\ <<kind, ".dec">> \notin padded)
      BY <1>2, <3>1, <3>2 DEF EncryptedCopy
    <3>3. CASE profile'[<<kind, ".dec.enc">>] = profile[<<kind, ".dec.enc">>]
                 /\ taken'[<<kind, ".dec.enc">>] = taken[<<kind, ".dec.enc">>]
                 /\ (<<kind, ".dec.enc">> \in padded' <=> <<kind, ".dec.enc">> \in padded)
      BY <1>1, <3>1, <3>3 DEF CopiesInv
    <3> QED BY <1>4, <3>2, <3>3
  <2> QED BY <1>4, <2>1, GameStays
<1>6. OnlyFexPads'
  BY <1>1, <1>2, <1>4 DEF OnlyFexPads
<1> QED BY <1>1, <1>4, <1>5, <1>6 DEF ToolInv, SettingsSummed, SettingsSum

\* What only writes the files of the game.
LEMMA GamesFilesWritten ==
  ASSUME ToolInv, DOMAIN profile' = FilesOf,
         \A at \in FilesOf : \/ profile'[at] = profile[at]
                             \/ at[2] = "none" /\ profile'[at] \in Seq(Byte),
         copies' = copies, profile_game' = profile_game, settings_file' = settings_file
  PROVE  ToolInv'
<1>1. AllAreBytes'
  BY DEF ToolInv, AllAreBytes, IsFile, copies
<1>2. CopiesInv'
  <2>1. \A kind \in Kinds : profile'[<<kind, ".dec">>] = profile[<<kind, ".dec">>]
                            /\ profile'[<<kind, ".dec.enc">>] = profile[<<kind, ".dec.enc">>]
    BY FileNames, ThreeEnds
  <2> QED BY <2>1, GameStays DEF ToolInv, CopiesInv, copies
<1>3. OnlyFexPads'
  BY DEF ToolInv, OnlyFexPads, copies
<1> QED BY <1>1, <1>2, <1>3 DEF ToolInv, SettingsSummed, SettingsSum

LEMMA NewKeeps ==
  ASSUME ToolInv, NEW ends \in [Kinds -> SaveEnds], NEW content, CommandNew(content, ends)
  PROVE  ToolInv'
<1> DEFINE saved == [kind \in Kinds |-> EncryptedFile(kind, content[kind])]
<1>1. \A kind \in Kinds : content[kind] \in New(kind)
  BY DEF CommandNew
<1>2. \A kind \in Kinds : saved[kind] \in Seq(Byte) /\ Len(saved[kind]) = Size(kind)
  BY <1>1, NewFiles
<1>3. SaveBoth("none", saved, ends, [rank |-> -2, save |-> -3]) /\ copies' = copies
  BY DEF CommandNew
<1> HIDE DEF saved
<1>4. /\ DOMAIN profile' = FilesOf
      /\ \A at \in FilesOf : at[2] # "none" => profile'[at] = profile[at]
      /\ \A at \in FilesOf : at[2] = "none" =>
           IF ends[at[1]].length = -1 THEN profile'[at] = profile[at]
           ELSE /\ profile'[at] \in Seq(Byte)
                /\ Len(profile'[at]) = Size(at[1]) => profile'[at] = saved[at[1]]
      /\ profile_game' = profile_game /\ settings_file' = settings_file
  BY <1>2, <1>3, BothSaved, ThreeEnds DEF ToolInv
<1> QED BY <1>3, <1>4, GamesFilesWritten

LEMMA GameKeeps ==
  ASSUME ToolInv, NEW content, GameSaves(content)
  PROVE  ToolInv'
<1>1. \A kind \in Kinds : EncryptedFile(kind, content[kind]) \in Seq(Byte)
  BY NewFiles DEF GameSaves
<1>2. /\ profile' = [at \in FilesOf |-> IF at[2] = "none" THEN EncryptedFile(at[1], content[at[1]])
                                        ELSE profile[at]]
      /\ copies' = copies /\ profile_game' = profile_game /\ settings_file' = settings_file
  BY DEF GameSaves
<1>3. \A at \in FilesOf :
        \/ profile'[at] = profile[at]
        \/ at[2] = "none" /\ profile'[at] \in Seq(Byte)
  BY <1>1, <1>2, FileNames
<1> QED BY <1>2, <1>3, GamesFilesWritten

LEMMA PutBackKeeps ==
  ASSUME ToolInv, PlayerPutsBack
  PROVE  ToolInv'
<1>1. \A kind \in Kinds : profile[<<kind, ".dec.enc">>] \in Seq(Byte)
  BY FileNames, ThreeEnds DEF PlayerPutsBack, ToolInv, AllAreBytes, IsFile
<1>2. /\ profile' = [at \in FilesOf |-> IF at[2] = "none" THEN profile[<<at[1], ".dec.enc">>]
                                        ELSE profile[at]]
      /\ copies' = copies /\ profile_game' = profile_game /\ settings_file' = settings_file
  BY DEF PlayerPutsBack
<1>3. \A at \in FilesOf :
        \/ profile'[at] = profile[at]
        \/ at[2] = "none" /\ profile'[at] \in Seq(Byte)
  BY <1>1, <1>2, FileNames
<1> QED BY <1>2, <1>3, GamesFilesWritten

\* An edited file is no copy.
LEMMA EditKeeps ==
  ASSUME ToolInv, NEW kind \in Kinds, NEW byte \in Byte, PlayerEdits(kind, byte)
  PROVE  ToolInv'
<1> DEFINE to == <<kind, ".dec">>
           old == profile[to]
           new == [old EXCEPT ![Len(old)] = byte]
<1>1. to \in FilesOf /\ AllAreBytes /\ CopiesInv /\ OnlyFexPads /\ SettingsSummed
  BY FileNames, ThreeEnds DEF ToolInv
<1>2. old \in Seq(Byte)
  BY <1>1 DEF PlayerEdits, AllAreBytes, IsFile
<1>3. new \in Seq(Byte)
  <2>1. DOMAIN new = 1 .. Len(old) /\ \A i \in 1 .. Len(old) : new[i] \in Byte
    <3> HIDE DEF old
    <3> QED BY <1>2
  <2>2. new = [i \in 1 .. Len(old) |-> new[i]] /\ Len(old) \in Nat
    <3> HIDE DEF old
    <3> QED BY <1>2
  <2>3. new \in [1 .. Len(old) -> Byte]
    <3> HIDE DEF old, new
    <3> QED BY <2>1, <2>2
  <2> HIDE DEF old, new
  <2> QED BY <2>2, <2>3
<1>4. /\ profile' = [profile EXCEPT ![to] = new] /\ taken' = [taken EXCEPT ![to] = NoFile]
      /\ profile_game' = profile_game /\ settings_file' = settings_file /\ padded' = padded
  BY DEF PlayerEdits
<1> HIDE DEF new, old
<1>5. /\ DOMAIN profile' = FilesOf /\ DOMAIN taken' = FilesOf
      /\ \A at \in FilesOf : at # to => profile'[at] = profile[at] /\ taken'[at] = taken[at]
      /\ profile'[to] = new /\ taken'[to] = NoFile
  <2> HIDE DEF to
  <2> QED BY <1>1, <1>4 DEF AllAreBytes
<1>6. AllAreBytes'
  <2> HIDE DEF to
  <2> QED BY <1>1, <1>3, <1>5 DEF AllAreBytes, IsFile
<1>7. CopiesInv'
  <2>1. ASSUME NEW k \in Kinds
        PROVE  /\ <<k, ".dec">> \notin padded' =>
                    DecryptedCopy(k, profile'[<<k, ".dec">>], taken'[<<k, ".dec">>])
               /\ <<k, ".dec.enc">> \notin padded' =>
                    EncryptedCopy(k, profile'[<<k, ".dec.enc">>], taken'[<<k, ".dec.enc">>])
    <3>1. <<k, ".dec">> \in FilesOf /\ <<k, ".dec.enc">> \in FilesOf /\ <<k, ".dec.enc">> # to
      BY FileNames, ThreeEnds
    <3>2. <<k, ".dec.enc">> \notin padded' =>
            EncryptedCopy(k, profile'[<<k, ".dec.enc">>], taken'[<<k, ".dec.enc">>])
      BY <1>1, <1>4, <1>5, <3>1 DEF CopiesInv
    <3>3. CASE <<k, ".dec">> = to
      BY <1>5, <3>2, <3>3 DEF DecryptedCopy
    <3>4. CASE <<k, ".dec">> # to
      BY <1>1, <1>4, <1>5, <3>1, <3>2, <3>4 DEF CopiesInv
    <3> QED BY <3>3, <3>4
  <2> QED BY <1>4, <2>1, GameStays
<1>8. OnlyFexPads'
  BY <1>1, <1>4 DEF OnlyFexPads
<1> QED BY <1>1, <1>4, <1>6, <1>7, <1>8 DEF ToolInv, SettingsSummed, SettingsSum

\* What leaves the files of the profile alone.
LEMMA ProfileStays ==
  ASSUME ToolInv, UNCHANGED <<profile_game, profile, copies>>, SettingsSummed'
  PROVE  ToolInv'
<1>1. CopiesInv'
  BY GameStays DEF ToolInv, CopiesInv, copies
<1>2. OnlyFexPads'
  BY DEF ToolInv, OnlyFexPads, copies
<1> QED BY <1>1, <1>2 DEF ToolInv, AllAreBytes, IsFile, copies

\* Settings are saved with their sum, or too short to be taken for settings.
LEMMA SettingsSaved ==
  ASSUME SettingsSummed, NEW end \in SaveEnds, NEW part, NEW total,
         SettingsTo(Summed(part, total), end)
  PROVE  SettingsSummed' /\ UNCHANGED <<profile_game, profile, copies>>
<1> DEFINE file == Summed(part, total)
<1>1. /\ file \in Seq({SettingsSum(part), part, total}) /\ Len(file) = 3
      /\ file[1] = SettingsSum(part) /\ file[2] = part
  BY DEF Summed
<1>2. settings_file' = util_file_save(settings_file, file, end)
  BY DEF SettingsTo
<1>3. end.length \in {-1, 0, 2}
  BY DEF SaveEnds
<1> HIDE DEF file
<1>4. \A n \in {0, 2} : Len(SubSeq(file, 1, n)) = n
  BY <1>1
<1>5. settings_file' = settings_file \/ settings_file' = file
        \/ Len(settings_file') \in {0, 2}
  BY <1>2, <1>3, <1>4 DEF util_file_save
<1>6. SettingsSummed'
  <2>1. CASE settings_file' = settings_file
    BY <2>1 DEF SettingsSummed, SettingsSum
  <2>2. CASE settings_file' = file
    BY <1>1, <2>2 DEF SettingsSummed, SettingsSum
  <2>3. CASE Len(settings_file') \in {0, 2}
    BY <2>3 DEF SettingsSummed
  <2> QED BY <1>5, <2>1, <2>2, <2>3
<1> QED BY <1>6 DEF SettingsTo

\* Every step keeps that.
LEMMA ToolStep ==
  ASSUME ToolInv, [ToolNext]_vars_tool
  PROVE  ToolInv'
<1>1. SettingsSummed
  BY DEF ToolInv
<1>2. ASSUME UNCHANGED <<profile_game, profile, copies, settings_file>> PROVE ToolInv'
  BY <1>1, <1>2, ProfileStays DEF SettingsSummed, SettingsSum
<1>3. ASSUME NEW ends \in [Kinds -> SaveEnds], NEW content, CommandNew(content, ends) PROVE ToolInv'
  BY <1>3, NewKeeps
<1>4. ASSUME NEW ends \in [Kinds -> SaveEnds], NEW after \in Leftovers,
             CommandDec(ends, after) \/ CommandEnc(ends, after)
      PROVE ToolInv'
  BY <1>4, DecKeeps, EncKeeps
<1>5. ASSUME NEW end \in SaveEnds, SettingsNew(end) \/ SettingsUnlock(end) PROVE ToolInv'
  <2>1. CASE SettingsNew(end)
    <3>1. SettingsTo(Summed(0, 0), end)
      BY <2>1 DEF SettingsNew
    <3> QED BY <1>1, <3>1, SettingsSaved, ProfileStays
  <2>2. CASE SettingsTo(Summed(settings_file[2], 20000), end)
    BY <1>1, <2>2, SettingsSaved, ProfileStays
  <2>3. CASE SettingsUnlock(end)
    BY <1>2, <2>2, <2>3 DEF SettingsUnlock, asset_nx_settings_unlock
  <2> QED BY <1>5, <2>1, <2>3
<1>6. ASSUME NEW after, NEW suffix, CommandFails(suffix, after) \/ CommandDump(after) PROVE ToolInv'
  BY <1>2, <1>6 DEF CommandFails, CommandDump
<1>7. ASSUME NEW part, NEW total, OperatorSets(part, total) PROVE ToolInv'
  <2>1. SettingsSummed'
    BY <1>7 DEF OperatorSets, SettingsSummed, SettingsSum, Summed
  <2> QED BY <1>7, <2>1, ProfileStays DEF OperatorSets
<1>8. CASE UNCHANGED vars_tool
  BY <1>2, <1>8 DEF vars_tool
<1>9. CASE ToolNext
  BY <1>3, <1>4, <1>5, <1>6, <1>7, <1>9, GameKeeps, EditKeeps, PutBackKeeps DEF ToolNext
<1> QED BY <1>8, <1>9

LEMMA ToolStart == ASSUME ToolInit PROVE ToolInv
<1>1. /\ profile = [at \in FilesOf |-> NoFile] /\ taken = [at \in FilesOf |-> NoFile]
      /\ settings_file = NoFile /\ padded = {}
  BY DEF ToolInit
<1>2. AllAreBytes
  BY <1>1 DEF AllAreBytes, IsFile
<1>3. CopiesInv
  BY <1>1, FileNames, ThreeEnds DEF CopiesInv, DecryptedCopy, EncryptedCopy
<1> QED BY <1>1, <1>2, <1>3 DEF ToolInv, OnlyFexPads, SettingsSummed

\* ProfileTool: whatever bytes the game and the player write, whatever the mixing of
\* two bytes that undoes itself, and wherever a save was cut off, a profile that was
\* decrypted and encrypted again without an edit is short, or the game's file byte
\* for byte, or one of fex that was padded on the way.
THEOREM ProfilesComeBack == ToolSpec => []ProfilesSurvive
<1>1. ToolInit => ToolInv
  BY ToolStart
<1>2. ToolInv /\ [ToolNext]_vars_tool => ToolInv'
  BY ToolStep
<1>3. ToolInv => ProfilesSurvive
  BY DEF ToolInv, CopiesInv, OnlyFexPads, EncryptedCopy, SettingsSummed, ProfilesSurvive
<1> QED BY <1>1, <1>2, <1>3, PTL DEF ToolSpec
-----------------------------------------------------------------------------

\* What a field can be, by its type.
FieldsOf(type) == IF type \in {"INT", "TIME"} THEN {v \in Seq(Byte) : Len(v) = 4}
                  ELSE Seq(Byte)
AsnTypes == {"INT", "TIME", "STR", "DATA"}

\* The bytes of the buffer from an offset on.
BytesAt(offset, e) ==
  offset + Len(e) <= Len(asn_buffer) /\ \A i \in 1 .. Len(e) : asn_buffer[offset + i] = e[i]

\* A byte before a number, and the number behind it.
LEMMA ByteBefore ==
  ASSUME NEW v \in Seq(Byte), NEW b \in Byte
  PROVE  /\ <<b>> \o v \in Seq(Byte) /\ Len(<<b>> \o v) = Len(v) + 1 /\ Tail(<<b>> \o v) = v
<1> DEFINE t == <<b>> \o v
<1>1. <<b>> \in Seq(Byte) /\ Len(<<b>>) = 1
  OBVIOUS
<1>2. /\ t \in Seq(Byte) /\ Len(t) = 1 + Len(v)
      /\ \A i \in 1 .. 1 + Len(v) : t[i] = IF i <= 1 THEN b ELSE v[i - 1]
  BY <1>1, ConcatProperties
<1>3. Len(v) \in Nat
  BY LenProperties
<1> HIDE DEF t
<1>4. t # <<>>
  BY <1>2, <1>3
<1>5. /\ Tail(t) \in Seq(Byte) /\ Len(Tail(t)) = Len(v)
      /\ \A i \in 1 .. Len(v) : Tail(t)[i] = t[i + 1]
  BY <1>2, <1>3, <1>4, HeadTailProperties
<1>6. \A i \in 1 .. Len(v) : Tail(t)[i] = v[i]
  BY <1>2, <1>3, <1>5
<1>7. Tail(t) = v
  BY <1>5, <1>6, SeqEqual
<1> QED BY <1>2, <1>3, <1>7 DEF t

LEMMA TakenIs ==
  ASSUME NEW S, NEW t \in Seq(S), NEW offset, NEW after,
         \A i \in 1 .. Len(t) : offset + i <= Len(asn_buffer) /\ asn_buffer[offset + i] = t[i]
  PROVE  Taken(offset, Len(t), after) = t
<1>1. t = [i \in 1 .. Len(t) |-> t[i]]
  BY LenProperties
<1>2. Taken(offset, Len(t), after) = [i \in 1 .. Len(t) |-> t[i]]
  BY DEF Taken
<1> QED BY <1>1, <1>2

LEMMA TakenOf ==
  ASSUME asn_buffer \in Seq(Nat), NEW S, NEW t \in Seq(S), NEW offset \in Nat, NEW after,
         BytesAt(offset, t)
  PROVE  Taken(offset, Len(t), after) = t
<1>1. Len(t) \in Nat /\ Len(asn_buffer) \in Nat
  BY LenProperties
<1>2. \A i \in 1 .. Len(t) : offset + i <= Len(asn_buffer) /\ asn_buffer[offset + i] = t[i]
  <2>1. offset + Len(t) <= Len(asn_buffer) /\ \A i \in 1 .. Len(t) : asn_buffer[offset + i] = t[i]
    BY DEF BytesAt
  <2>2. \A x, y, z \in Nat : x + y <= z => \A i \in 1 .. y : x + i <= z
    OBVIOUS
  <2> QED BY Zenon, <1>1, <2>1, <2>2
<1> QED BY <1>2, TakenIs

LEMMA SignificantOf ==
  ASSUME NEW v \in FieldsOf("INT")
  PROVE  \E k \in 1 .. 4 : /\ Significant(v) = SubSeq(v, k, 4)
                           /\ \A i \in 1 .. k - 1 : v[i] = 0
                           /\ k = 4 \/ v[k] # 0
<1> DEFINE P(k) == (k = 4 \/ v[k] # 0) /\ \A i \in 1 .. k - 1 : v[i] = 0
<1>1. \E k \in 1 .. 4 : P(k)
  <2>1. CASE v[1] # 0
    BY <2>1
  <2>2. CASE v[1] = 0 /\ v[2] # 0
    BY <2>2
  <2>3. CASE v[1] = 0 /\ v[2] = 0 /\ v[3] # 0
    BY <2>3
  <2>4. CASE v[1] = 0 /\ v[2] = 0 /\ v[3] = 0
    BY <2>4
  <2> QED BY <2>1, <2>2, <2>3, <2>4
<1> DEFINE k == CHOOSE k \in 1 .. 4 : P(k)
<1>2. k \in 1 .. 4 /\ P(k)
  BY <1>1
<1>3. Significant(v) = SubSeq(v, k, 4)
  BY Zenon DEF Significant
<1> HIDE DEF k
<1> QED BY <1>2, <1>3

\* The bytes of a number, and what is made of them.
LEMMA IntComesBack ==
  ASSUME NEW v \in FieldsOf("INT"), v[1] > 127 \/ Significant(v)[1] <= 127
  PROVE  LET c == encode_int(v)
             n == blen("INT", v)
         IN /\ c \in Seq(Byte) /\ Len(c) = n /\ n \in 1 .. 5
            /\ (IF n = 5 THEN Tail(c) ELSE [i \in 1 .. 4 - n |-> 0] \o c) = v
            /\ v[1] \in 1 .. 127 => c = v
<1>1. v \in Seq(Byte) /\ Len(v) = 4
  BY DEF FieldsOf
<1>0. \A i \in 1 .. 4 : v[i] \in Byte /\ v[i] \in Nat
  <2>1. \A i \in 1 .. 4 : v[i] \in Byte
    BY <1>1, ElementOfSeq
  <2>2. Byte \subseteq Nat
    BY DEF Byte
  <2> QED BY <2>1, <2>2
<1>2. PICK k \in 1 .. 4 : /\ Significant(v) = SubSeq(v, k, 4)
                          /\ \A i \in 1 .. k - 1 : v[i] = 0
                          /\ k = 4 \/ v[k] # 0
  BY SignificantOf
<1> DEFINE s == Significant(v)
<1>3. /\ s \in Seq(Byte) /\ Len(s) = 5 - k /\ s[1] = v[k]
      /\ \A i \in 1 .. 5 - k : s[i] = v[k + i - 1]
  <2>1. k \in Int /\ 4 \in Int /\ \A i \in k .. 4 : v[i] \in Byte
    BY <1>0
  <2>2. /\ SubSeq(v, k, 4) \in Seq(Byte)
        /\ Len(SubSeq(v, k, 4)) = IF k <= 4 THEN 4 - k + 1 ELSE 0
        /\ \A i \in 1 .. 4 - k + 1 : SubSeq(v, k, 4)[i] = v[k + i - 1]
    BY <2>1, SubSeqProperties
  <2>3. 1 \in 1 .. 4 - k + 1 /\ k + 1 - 1 = k /\ 4 - k + 1 = 5 - k /\ k <= 4
    OBVIOUS
  <2> HIDE DEF s
  <2>4. s = SubSeq(v, k, 4)
    BY <1>2 DEF s
  <2> QED BY <2>2, <2>3, <2>4
<1>5. v[1] # 0 => k = 1
  <2>1. k # 1 => 1 \in 1 .. k - 1
    OBVIOUS
  <2> QED BY <2>1, <1>2
<1>7. v[1] # 0 => s = v
  <2> HIDE DEF s
  <2> SUFFICES ASSUME v[1] # 0 PROVE s = v
    OBVIOUS
  <2>1. Len(s) = 4 /\ \A i \in 1 .. 4 : s[i] = v[i]
    BY <1>3, <1>5
  <2> QED BY <2>1, <1>1, <1>3, SeqEqual
<1> DEFINE c == encode_int(v)
           n == blen("INT", v)
<1>4. n = Len(s) + IF v[1] > 127 THEN 1 ELSE 0
  BY DEF blen
<1>6. c = IF s[1] > 127 THEN <<0>> \o s ELSE s
  BY DEF encode_int
<1>10. v[1] > 127 \/ s[1] <= 127
  OBVIOUS
<1> HIDE DEF s, c, n
<1>8. ASSUME v[1] > 127
      PROVE  /\ c \in Seq(Byte) /\ Len(c) = n /\ n = 5 /\ Tail(c) = v
             /\ v[1] \notin 1 .. 127
  <2>1. s = v
    BY <1>0, <1>7, <1>8
  <2>2. c = <<0>> \o v
    BY <1>6, <1>8, <2>1
  <2>3. n = 5
    <3>1. n = Len(v) + 1
      BY Zenon, <1>4, <1>8, <2>1
    <3> QED BY <3>1, <1>1
  <2>4. 0 \in Byte
    BY DEF Byte
  <2>5. <<0>> \o v \in Seq(Byte) /\ Len(<<0>> \o v) = Len(v) + 1 /\ Tail(<<0>> \o v) = v
    BY <1>1, <2>4, ByteBefore
  <2>6. Len(v) + 1 = 5
    BY <1>1
  <2>7. v[1] \notin 1 .. 127
    BY <1>8
  <2> HIDE DEF c
  <2>8. c \in Seq(Byte) /\ Len(c) = 5 /\ Tail(c) = v
    BY Zenon, <2>2, <2>5, <2>6
  <2> QED BY <2>3, <2>7, <2>8
<1>9. ASSUME ~(v[1] > 127)
      PROVE  /\ c \in Seq(Byte) /\ Len(c) = n /\ n \in 1 .. 4
             /\ [i \in 1 .. 4 - n |-> 0] \o c = v
             /\ v[1] \in 1 .. 127 => c = v
  <2>1. ~(s[1] > 127)
    <3>1. s[1] <= 127 /\ s[1] \in Nat
      BY <1>0, <1>3, <1>9, <1>10
    <3> QED BY <3>1
  <2>2. c = s /\ n = 5 - k
    BY <1>3, <1>4, <1>6, <1>9, <2>1
  <2> DEFINE z == [i \in 1 .. k - 1 |-> 0]
  <2>3. z \o s = v
    <3>1. z \in Seq(Byte) /\ Len(z) = k - 1 /\ \A i \in 1 .. k - 1 : z[i] = 0
      <4>1. 0 \in Byte
        BY DEF Byte
      <4> QED BY <4>1
    <3> HIDE DEF z
    <3>2. /\ z \o s \in Seq(Byte) /\ Len(z \o s) = Len(z) + Len(s)
          /\ \A i \in 1 .. Len(z) + Len(s) :
               (z \o s)[i] = IF i <= Len(z) THEN z[i] ELSE s[i - Len(z)]
      BY <3>1, <1>3, ConcatProperties
    <3>3. Len(z) + Len(s) = 4
      BY <3>1, <1>3
    <3>4. ASSUME NEW i \in 1 .. 4 PROVE (z \o s)[i] = v[i]
      <4>1. CASE i <= k - 1
        BY <3>1, <3>2, <3>3, <1>2, <4>1
      <4>2. CASE ~(i <= k - 1)
        <5>1. i - (k - 1) \in 1 .. 5 - k /\ k + (i - (k - 1)) - 1 = i
          BY <4>2
        <5>2. s[i - (k - 1)] = v[i]
          BY <5>1, <1>3
        <5> QED BY <3>1, <3>2, <3>3, <4>2, <5>2
      <4> QED BY <4>1, <4>2
    <3> QED BY <3>2, <3>3, <3>4, <1>1, SeqEqual
  <2>4. 4 - n = k - 1 /\ n \in 1 .. 4
    BY <2>2
  <2>5. [i \in 1 .. 4 - n |-> 0] \o c = v
    BY Zenon, <2>2, <2>3, <2>4
  <2>6. v[1] \in 1 .. 127 => v[1] # 0
    OBVIOUS
  <2>7. v[1] \in 1 .. 127 => c = v
    BY <2>2, <2>6, <1>7
  <2> HIDE DEF z
  <2> QED BY <2>2, <2>4, <2>5, <2>7, <1>3
<1>11. n \in 1 .. 4 => n # 5 /\ n \in 1 .. 5
  OBVIOUS
<1>12. c \in Seq(Byte) /\ Len(c) = n /\ n \in 1 .. 5 /\ (v[1] \in 1 .. 127 => c = v)
  BY <1>8, <1>9, <1>11
<1>13. (IF n = 5 THEN Tail(c) ELSE [i \in 1 .. 4 - n |-> 0] \o c) = v
  <2>1. CASE v[1] > 127
    BY Zenon, <1>8, <2>1
  <2>2. CASE ~(v[1] > 127)
    BY Zenon, <1>9, <1>11, <2>2
  <2> QED BY <2>1, <2>2
<1> QED BY <1>12, <1>13 DEF c, n

\* A field is as many bytes as its length says, and is read back from them.
LEMMA FieldComesBack ==
  ASSUME NEW type \in AsnTypes, NEW v \in FieldsOf(type), Carried(type, v)
  PROVE  /\ Content(type, v) \in Seq(Byte) /\ Len(Content(type, v)) = blen(type, v)
         /\ blen(type, v) \in Nat \ {129, 130}
         /\ \A offset \in Nat : \A after : asn_buffer \in Seq(Nat) /\ BytesAt(offset, Content(type, v)) =>
              decode_value(type, offset, blen(type, v), after) = Field(v, offset + blen(type, v))
<1> DEFINE c == Content(type, v)
           n == blen(type, v)
<1>0. 0 \in Byte
  BY DEF Byte
<1> HIDE DEF c, n
<1>1. CASE type = "INT"
  <2>1. /\ c \in Seq(Byte) /\ Len(c) = n /\ n \in 1 .. 5
        /\ (IF n = 5 THEN Tail(c) ELSE [i \in 1 .. 4 - n |-> 0] \o c) = v
    <3>1. c = encode_int(v) /\ n = blen("INT", v)
      BY <1>1 DEF c, n, Content
    <3>2. v \in FieldsOf("INT") /\ (v[1] > 127 \/ Significant(v)[1] <= 127)
      BY <1>1 DEF Carried
    <3> QED BY Zenon, <3>1, <3>2, IntComesBack
  <2>2. ASSUME NEW offset \in Nat, NEW after, asn_buffer \in Seq(Nat), BytesAt(offset, c)
        PROVE  decode_value(type, offset, n, after) = Field(v, offset + n)
    <3>3. Taken(offset, n, after) = c
      BY <2>1, <2>2, TakenOf
    <3>4. decode_value(type, offset, n, after) = decode_int(offset, n, after)
      BY <1>1 DEF decode_value
    <3>5. decode_int(offset, n, after) = Field(v, offset + n)
      BY <2>1, <3>3 DEF decode_int
    <3> QED BY <3>4, <3>5
  <2>3. n \in Nat \ {129, 130}
    <3> QED BY <2>1
  <2> QED BY <2>1, <2>2, <2>3 DEF c, n
<1>2. CASE type = "TIME"
  <2>1. v \in Seq(Byte) /\ Len(v) = 4 /\ v[1] \in 1 .. 127
    BY <1>2 DEF Carried, FieldsOf
  <2>2. Significant(v)[1] <= 127
    <3>1. PICK k \in 1 .. 4 : /\ Significant(v) = SubSeq(v, k, 4)
                              /\ \A i \in 1 .. k - 1 : v[i] = 0
      BY <1>2, SignificantOf DEF FieldsOf
    <3>2. k = 1
      <4>1. k # 1 => 1 \in 1 .. k - 1
        OBVIOUS
      <4>2. \A x : x \in 1 .. 127 => x # 0
        OBVIOUS
      <4>3. v[1] # 0
        BY Zenon, <2>1, <4>2
      <4> QED BY Zenon, <3>1, <4>1, <4>3
    <3>3. SubSeq(v, 1, 4) = v
      BY <2>1, SubSeqFull
    <3>4. \A x : x \in 1 .. 127 => x <= 127
      OBVIOUS
    <3> QED BY Zenon, <3>1, <3>2, <3>3, <3>4, <2>1
  <2>3. encode_int(v) = v
    BY <2>1, <2>2, IntComesBack DEF FieldsOf
  <2>4. c = <<0>> \o v /\ n = 5
    BY <1>2, <2>3 DEF Content, blen, c, n
  <2>5. <<0>> \o v \in Seq(Byte) /\ Len(<<0>> \o v) = 5 /\ Tail(<<0>> \o v) = v
    <3>1. <<0>> \o v \in Seq(Byte) /\ Len(<<0>> \o v) = Len(v) + 1 /\ Tail(<<0>> \o v) = v
      BY <2>1, <1>0, ByteBefore
    <3>2. Len(v) + 1 = 5
      BY <2>1
    <3> QED BY Zenon, <3>1, <3>2
  <2>6. ASSUME NEW offset \in Nat, NEW after, asn_buffer \in Seq(Nat), BytesAt(offset, c)
        PROVE  decode_value(type, offset, n, after) = Field(v, offset + n)
    <3>1. c \in Seq(Byte) /\ Len(c) = 5 /\ Tail(c) = v
      BY <2>4, <2>5
    <3>2. Taken(offset, 5, after) = c
      BY <2>6, <3>1, TakenOf
    <3>3. decode_value(type, offset, n, after) = decode_int(offset, 5, after)
      BY <1>2, <2>4 DEF decode_value
    <3>4. decode_int(offset, 5, after) = Field(v, offset + 5)
      <4>1. ~(5 \notin 1 .. 5)
        OBVIOUS
      <4> QED BY Zenon, <3>1, <3>2, <4>1 DEF decode_int
    <3> QED BY <2>4, <3>3, <3>4
  <2> QED BY <2>4, <2>5, <2>6 DEF c, n
<1>3. CASE type = "STR"
  <2>1. v \in Seq(Byte) /\ n = Len(v) + 1 /\ c = Append(v, 0) /\ n \notin {129, 130}
    BY <1>3 DEF Carried, FieldsOf, blen, Content, c, n
  <2>2. \A offset, after :
          decode_value(type, offset, n, after) = Field(Taken(offset, n - 1, after), offset + n)
    BY <1>3 DEF decode_value
  <2>3. /\ c \in Seq(Byte) /\ Len(c) = n /\ n \in Nat /\ n - 1 = Len(v)
        /\ \A i \in 1 .. n - 1 : c[i] = v[i]
    BY <2>1, <1>0
  <2>4. ASSUME NEW offset \in Nat, NEW after, asn_buffer \in Seq(Nat), BytesAt(offset, c)
        PROVE  Taken(offset, n - 1, after) = v
    <3>1. ASSUME NEW i \in 1 .. Len(v)
          PROVE  offset + i <= Len(asn_buffer) /\ asn_buffer[offset + i] = v[i]
      <4>1. i \in 1 .. n /\ i \in 1 .. n - 1
        BY <2>3
      <4>2. offset + n <= Len(asn_buffer) /\ asn_buffer[offset + i] = c[i]
        BY <2>4, <2>3, <4>1 DEF BytesAt
      <4>3. Len(asn_buffer) \in Nat
        BY <2>4, LenProperties
      <4>4. offset + i <= Len(asn_buffer)
        BY <2>3, <4>1, <4>2, <4>3
      <4>5. c[i] = v[i]
        BY Zenon, <2>3, <4>1
      <4> QED BY Zenon, <4>2, <4>4, <4>5
    <3>2. Taken(offset, Len(v), after) = v
      BY ZenonT(60), <2>1, <3>1, TakenIs
    <3> QED BY <2>3, <3>2
  <2> QED BY <2>1, <2>2, <2>3, <2>4 DEF c, n
<1>4. CASE type = "DATA"
  <2>1. v \in Seq(Byte) /\ n = Len(v) /\ c = v /\ n \notin {129, 130}
    BY <1>4 DEF Carried, FieldsOf, blen, Content, c, n
  <2>2. \A offset, after :
          decode_value(type, offset, n, after) = Field(Taken(offset, n, after), offset + n)
    BY <1>4 DEF decode_value
  <2>3. ASSUME NEW offset \in Nat, NEW after, asn_buffer \in Seq(Nat), BytesAt(offset, c)
        PROVE  Taken(offset, n, after) = v
    BY <2>1, <2>3, TakenOf
  <2>4. n \in Nat
    BY <2>1
  <2> QED BY <2>1, <2>2, <2>3, <2>4 DEF c, n
<1> QED BY <1>1, <1>2, <1>3, <1>4 DEF AsnTypes

\* A length is read as it was written, if it is none of the two marks.
LEMMA LengthComesBack ==
  ASSUME asn_buffer \in Seq(Nat), NEW n \in Nat \ {129, 130}, NEW offset \in Nat, NEW after,
         BytesAt(offset, encode_length(n))
  PROVE  decode_length(offset, after) = Field(n, offset + Len(encode_length(n)))
<1> DEFINE b == Taken(offset, 3, after)
           e == encode_length(n)
<1>1. Len(asn_buffer) \in Nat
  BY LenProperties
<1>2. /\ b[1] = IF offset + 1 <= Len(asn_buffer) THEN asn_buffer[offset + 1] ELSE after
      /\ b[2] = IF offset + 2 <= Len(asn_buffer) THEN asn_buffer[offset + 2] ELSE after
      /\ b[3] = IF offset + 3 <= Len(asn_buffer) THEN asn_buffer[offset + 3] ELSE after
  BY DEF Taken
<1>3. /\ b[1] = 129 => decode_length(offset, after) = Field(b[2], offset + 2)
      /\ b[1] = 130 => decode_length(offset, after) = Field(b[2] * 256 + b[3], offset + 3)
      /\ b[1] \notin {129, 130} => decode_length(offset, after) = Field(b[1], offset + 1)
  BY DEF decode_length
<1>4. offset + Len(e) <= Len(asn_buffer) /\ \A i \in 1 .. Len(e) : asn_buffer[offset + i] = e[i]
  BY DEF BytesAt
<1>5. e = IF n <= 247 THEN <<n>> ELSE IF n <= 255 THEN <<129, n>>
          ELSE <<130, n \div 256, n % 256>>
  BY DEF encode_length
<1> HIDE DEF b, e
<1>6. CASE n <= 247
  <2>1. Len(e) = 1 /\ e[1] = n
    BY <1>5, <1>6
  <2>2. b[1] = n
    BY <1>1, <1>2, <1>4, <2>1
  <2> QED BY <1>3, <2>1, <2>2 DEF e
<1>7. CASE ~(n <= 247) /\ n <= 255
  <2>1. Len(e) = 2 /\ e[1] = 129 /\ e[2] = n
    BY <1>5, <1>7
  <2>2. b[1] = 129 /\ b[2] = n
    BY <1>1, <1>2, <1>4, <2>1
  <2> QED BY <1>3, <2>1, <2>2 DEF e
<1>8. CASE ~(n <= 255)
  <2>1. Len(e) = 3 /\ e[1] = 130 /\ e[2] = n \div 256 /\ e[3] = n % 256
    BY <1>5, <1>8
  <2>2. b[1] = 130 /\ b[2] = n \div 256 /\ b[3] = n % 256
    <3>1. /\ offset + 1 <= Len(asn_buffer) /\ offset + 2 <= Len(asn_buffer)
          /\ offset + 3 <= Len(asn_buffer)
      <4>1. offset + 3 <= Len(asn_buffer)
        BY Zenon, <1>4, <2>1
      <4>2. \A x, y \in Nat : x + 3 <= y => x + 1 <= y /\ x + 2 <= y
        OBVIOUS
      <4> QED BY Zenon, <1>1, <4>1, <4>2
    <3>2. /\ asn_buffer[offset + 1] = e[1] /\ asn_buffer[offset + 2] = e[2]
          /\ asn_buffer[offset + 3] = e[3]
      <4>1. \A i \in 1 .. 3 : asn_buffer[offset + i] = e[i]
        BY <1>4, <2>1
      <4> QED BY <4>1
    <3>3. b[1] = e[1] /\ b[2] = e[2] /\ b[3] = e[3]
      BY Zenon, <1>2, <3>1, <3>2
    <3> QED BY <2>1, <3>3
  <2>3. (n \div 256) * 256 + (n % 256) = n
    OBVIOUS
  <2> QED BY <1>3, <2>1, <2>2, <2>3 DEF e
<1> QED BY <1>6, <1>7, <1>8

LEMMA LengthBytes ==
  ASSUME NEW n \in Nat
  PROVE  encode_length(n) \in Seq(Nat) /\ Len(encode_length(n)) \in 1 .. 3
BY DEF encode_length

\* So is the tag of an object, and that of a message ends where it did.
LEMMA TagComesBack ==
  ASSUME asn_buffer \in Seq(Nat),
         NEW tag \in ((0 .. 255) \ {127}) \cup (127 * 256 .. 127 * 256 + 255),
         NEW offset \in Nat, NEW after, BytesAt(offset, encode_tag(tag))
  PROVE  decode_tag(offset, after) = Field(tag, offset + Len(encode_tag(tag)))
<1> DEFINE b == Taken(offset, 2, after)
           e == encode_tag(tag)
<1>1. Len(asn_buffer) \in Nat
  BY LenProperties
<1>2. /\ b[1] = IF offset + 1 <= Len(asn_buffer) THEN asn_buffer[offset + 1] ELSE after
      /\ b[2] = IF offset + 2 <= Len(asn_buffer) THEN asn_buffer[offset + 2] ELSE after
  BY DEF Taken
<1>3. decode_tag(offset, after) = IF b[1] = 127 THEN Field(b[1] * 256 + b[2], offset + 2)
                                  ELSE Field(b[1], offset + 1)
  BY DEF decode_tag
<1>4. offset + Len(e) <= Len(asn_buffer) /\ \A i \in 1 .. Len(e) : asn_buffer[offset + i] = e[i]
  BY DEF BytesAt
<1>5. e = IF tag > 255 THEN <<tag \div 256, tag % 256>> ELSE <<tag>>
  BY DEF encode_tag
<1> HIDE DEF b, e
<1>6. CASE tag <= 255
  <2>1. Len(e) = 1 /\ e[1] = tag /\ tag # 127
    BY <1>5, <1>6
  <2>2. b[1] = tag
    BY <1>1, <1>2, <1>4, <2>1
  <2> QED BY <1>3, <2>1, <2>2 DEF e
<1>7. CASE tag > 255
  <2>1. tag \div 256 = 127 /\ 127 * 256 + (tag % 256) = tag
    BY <1>7
  <2>2. Len(e) = 2 /\ e[1] = 127 /\ e[2] = tag % 256
    BY <1>5, <1>7, <2>1
  <2>3. b[1] = 127 /\ b[2] = tag % 256
    BY <1>1, <1>2, <1>4, <2>2
  <2> QED BY <1>3, <2>1, <2>2, <2>3 DEF e
<1> QED BY <1>6, <1>7

LEMMA TagBytes ==
  ASSUME NEW tag \in Nat
  PROVE  encode_tag(tag) \in Seq(Nat) /\ Len(encode_tag(tag)) \in 1 .. 2
BY DEF encode_tag

\* What is written in two parts is there in two parts.
LEMMA PartsAt ==
  ASSUME asn_buffer \in Seq(Nat), NEW s \in Seq(Nat), NEW t \in Seq(Nat), NEW offset \in Nat,
         BytesAt(offset, s \o t)
  PROVE  BytesAt(offset, s) /\ BytesAt(offset + Len(s), t)
<1>1. Len(asn_buffer) \in Nat /\ Len(s) \in Nat /\ Len(t) \in Nat
  BY LenProperties
<1>2. /\ Len(s \o t) = Len(s) + Len(t)
      /\ \A i \in 1 .. Len(s) + Len(t) :
           (s \o t)[i] = IF i <= Len(s) THEN s[i] ELSE t[i - Len(s)]
  BY ConcatProperties
<1>3. /\ offset + (Len(s) + Len(t)) <= Len(asn_buffer)
      /\ \A i \in 1 .. Len(s) + Len(t) : asn_buffer[offset + i] = (s \o t)[i]
  BY <1>2 DEF BytesAt
<1>4. \A i \in 1 .. Len(s) : asn_buffer[offset + i] = s[i]
  <2> TAKE i \in 1 .. Len(s)
  <2>1. i \in 1 .. Len(s) + Len(t) /\ i <= Len(s)
    BY <1>1
  <2> QED BY <1>2, <1>3, <2>1
<1>5. \A i \in 1 .. Len(t) : asn_buffer[(offset + Len(s)) + i] = t[i]
  <2> TAKE i \in 1 .. Len(t)
  <2>1. /\ Len(s) + i \in 1 .. Len(s) + Len(t) /\ ~(Len(s) + i <= Len(s))
        /\ Len(s) + i - Len(s) = i /\ offset + (Len(s) + i) = (offset + Len(s)) + i
    BY <1>1
  <2>2. asn_buffer[offset + (Len(s) + i)] = (s \o t)[Len(s) + i]
    BY <1>3, <2>1
  <2>3. (s \o t)[Len(s) + i] = t[Len(s) + i - Len(s)]
    BY <1>2, <2>1
  <2> QED BY <2>1, <2>2, <2>3
<1>6. offset + Len(s) <= Len(asn_buffer) /\ (offset + Len(s)) + Len(t) <= Len(asn_buffer)
  BY <1>1, <1>3
<1> QED BY <1>4, <1>5, <1>6 DEF BytesAt

\* Sequences one behind the other, from the first to each.
Joins(s, f) == f = [i \in 1 .. Len(s) |-> IF i = 1 THEN s[i] ELSE f[i - 1] \o s[i]]

LEMMA FlattenJoins ==
  ASSUME NEW s \in Seq(Seq(Nat)), Len(s) # 0
  PROVE  \E f : /\ Joins(s, f) /\ FlattenSeq(s) = f[Len(s)]
                /\ \A i \in 1 .. Len(s) : f[i] \in Seq(Nat)
<1>0. Len(s) \in Nat /\ \A i \in 1 .. Len(s) : s[i] \in Seq(Nat)
  BY LenProperties, ElementOfSeq
<1> DEFINE Upto(n, g) == \A k \in 1 .. n : g[k] = IF k = 1 THEN s[k] ELSE g[k - 1] \o s[k]
           T == {n \in 0 .. Len(s) : ~ \E g \in [1 .. n -> Seq(Nat)] : Upto(n, g)}
<1>1. T = {}
  <2> SUFFICES ASSUME NEW l \in T PROVE FALSE
    OBVIOUS
  <2>1. PICK n \in T : \A k \in T : n <= k
    <3> T \in SUBSET Nat
      BY <1>0
    <3> HIDE DEF T
    <3> QED BY LeastOf
  <2>2. n # 0
    <3>1. ASSUME n = 0 PROVE FALSE
      <4> DEFINE g == [k \in 1 .. 0 |-> <<>>]
      <4>1. g \in [1 .. n -> Seq(Nat)] /\ Upto(n, g)
        BY <3>1
      <4> QED BY <2>1, <4>1
    <3> QED BY <3>1
  <2>3. n - 1 \in 0 .. Len(s) /\ n - 1 \notin T /\ n \in 1 .. Len(s)
    <3>1. n \in 0 .. Len(s) /\ Len(s) \in Nat
      BY <1>0
    <3> HIDE DEF T
    <3>2. n - 1 \in 0 .. Len(s) /\ n \in 1 .. Len(s) /\ ~(n <= n - 1)
      BY <3>1, <2>2
    <3> QED BY <2>1, <3>2
  <2>4. PICK g \in [1 .. n - 1 -> Seq(Nat)] : Upto(n - 1, g)
    BY <2>3
  <2> DEFINE b == IF n = 1 THEN s[n] ELSE g[n - 1] \o s[n]
             h == [k \in 1 .. n |-> IF k = n THEN b ELSE g[k]]
  <2>5. b \in Seq(Nat)
    <3>1. CASE n = 1
      BY <1>0, <2>3, <3>1
    <3>2. CASE n # 1
      <4>1. s[n] \in Seq(Nat) /\ g[n - 1] \in Seq(Nat)
        BY <1>0, <2>3, <3>2
      <4> QED BY <3>2, <4>1, ConcatProperties
    <3> QED BY <3>1, <3>2
  <2>6. h \in [1 .. n -> Seq(Nat)]
    <3> HIDE DEF b
    <3> QED BY <2>3, <2>5
  <2>7. Upto(n, h)
    <3> SUFFICES ASSUME NEW k \in 1 .. n
                 PROVE  h[k] = IF k = 1 THEN s[k] ELSE h[k - 1] \o s[k]
      OBVIOUS
    <3>1. CASE k = n
      <4>1. h[k] = b /\ (k # 1 => h[k - 1] = g[k - 1])
        <5> HIDE DEF b
        <5> QED BY <3>1, <2>3
      <4> HIDE DEF h
      <4> QED BY <4>1, <3>1
    <3>2. CASE k # n
      <4>1. k \in 1 .. n - 1
        BY <2>3, <3>2
      <4>2. h[k] = g[k] /\ (k # 1 => h[k - 1] = g[k - 1])
        <5> HIDE DEF b
        <5> QED BY <4>1, <2>3, <3>2
      <4> HIDE DEF h
      <4> QED BY <4>1, <4>2, <2>4
    <3> QED BY <3>1, <3>2
  <2> HIDE DEF h, Upto
  <2> QED BY <2>1, <2>6, <2>7
<1>2. PICK c \in [1 .. Len(s) -> Seq(Nat)] : Upto(Len(s), c)
  <2>1. Len(s) \in 0 .. Len(s)
    BY <1>0
  <2>2. Len(s) \notin T
    BY <1>1
  <2> HIDE DEF Upto
  <2> QED BY <2>1, <2>2
<1>3. Joins(s, c)
  <2>1. c = [k \in 1 .. Len(s) |-> c[k]]
    OBVIOUS
  <2> QED BY <1>2, <2>1 DEF Joins
<1> DEFINE f == CHOOSE f : Joins(s, f)
<1>4. Joins(s, f)
  BY <1>3
<1>5. FlattenSeq(s) = f[Len(s)]
  BY Zenon DEF FlattenSeq, Joins
<1> HIDE DEF f
<1>6. \A i \in 1 .. Len(s) : f[i] = c[i]
  <2> DEFINE D == {i \in 1 .. Len(s) : f[i] # c[i]}
  <2> SUFFICES ASSUME NEW l \in D PROVE FALSE
    OBVIOUS
  <2>1. PICK m \in D : \A k \in D : m <= k
    <3> D \in SUBSET Nat
      OBVIOUS
    <3> HIDE DEF D
    <3> QED BY LeastOf
  <2>2. m # 1
    BY <2>1, <1>3, <1>4 DEF Joins
  <2>3. m - 1 \in 1 .. Len(s) /\ m - 1 \notin D
    BY <2>1, <2>2
  <2>4. f[m - 1] = c[m - 1]
    BY <2>3
  <2>5. f[m] = f[m - 1] \o s[m] /\ c[m] = c[m - 1] \o s[m]
    BY <2>1, <2>2, <1>3, <1>4 DEF Joins
  <2> QED BY <2>1, <2>4, <2>5
<1>7. \A i \in 1 .. Len(s) : f[i] \in Seq(Nat)
  BY <1>6
<1> QED BY <1>4, <1>5, <1>7

\* What is flattened is there one behind the other, at the places p.
PlacedFrom(s, p) ==
  /\ p \in [0 .. Len(s) -> Nat]
  /\ \A j \in 1 .. Len(s) : BytesAt(p[j - 1], s[j]) /\ p[j] = p[j - 1] + Len(s[j])
LEMMA FlattenPlaced ==
  ASSUME asn_buffer \in Seq(Nat), NEW s \in Seq(Seq(Nat)), NEW offset \in Nat,
         BytesAt(offset, FlattenSeq(s))
  PROVE  \E p : /\ PlacedFrom(s, p) /\ p[0] = offset
                /\ p[Len(s)] = offset + Len(FlattenSeq(s))
<1>0. Len(s) \in Nat /\ \A i \in 1 .. Len(s) : s[i] \in Seq(Nat) /\ Len(s[i]) \in Nat
  BY LenProperties, ElementOfSeq
<1>1. CASE Len(s) = 0
  <2> DEFINE p == [j \in 0 .. 0 |-> offset]
  <2>1. FlattenSeq(s) = s
    BY <1>1 DEF FlattenSeq
  <2>2. PlacedFrom(s, p)
    BY <1>1 DEF PlacedFrom
  <2>3. p[0] = offset /\ p[Len(s)] = offset + Len(FlattenSeq(s))
    BY <1>1, <2>1
  <2> HIDE DEF p
  <2> QED BY <2>2, <2>3
<1>2. CASE Len(s) # 0
  <2>1. PICK f : /\ Joins(s, f) /\ FlattenSeq(s) = f[Len(s)]
                 /\ \A i \in 1 .. Len(s) : f[i] \in Seq(Nat)
    BY <1>2, FlattenJoins
  <2>2. /\ f[1] = s[1]
        /\ \A i \in 1 .. Len(s) : i # 1 => f[i] = f[i - 1] \o s[i]
    <3>1. \A i \in 1 .. Len(s) : f[i] = IF i = 1 THEN s[i] ELSE f[i - 1] \o s[i]
      BY Zenon, <2>1 DEF Joins
    <3>2. 1 \in 1 .. Len(s)
      BY <1>0, <1>2
    <3> QED BY Zenon, <3>1, <3>2
  <2> DEFINE n == Len(s)
             T == {m \in 0 .. n - 1 : ~BytesAt(offset, f[n - m])}
  <2>3. T = {}
    <3> SUFFICES ASSUME NEW l \in T PROVE FALSE
      OBVIOUS
    <3>1. PICK m \in T : \A k \in T : m <= k
      <4> T \in SUBSET Nat
        BY <1>0
      <4> HIDE DEF T
      <4> QED BY LeastOf
    <3>2. m # 0
      <4>1. n - 0 = n
        BY <1>0
      <4> QED BY <2>1, <3>1, <4>1
    <3>3. m - 1 \in 0 .. n - 1 /\ m - 1 \notin T /\ n - (m - 1) \in 1 .. n /\ n - (m - 1) # 1
            /\ (n - (m - 1)) - 1 = n - m /\ n - m \in 1 .. n
      <4>1. m \in 0 .. n - 1 /\ n \in Nat
        BY <1>0
      <4> HIDE DEF T, n
      <4>2. /\ m - 1 \in 0 .. n - 1 /\ n - (m - 1) \in 1 .. n /\ n - (m - 1) # 1
            /\ (n - (m - 1)) - 1 = n - m /\ n - m \in 1 .. n /\ ~(m <= m - 1)
        BY <4>1, <3>2
      <4> QED BY <3>1, <4>2
    <3>4. BytesAt(offset, f[n - (m - 1)])
      BY <3>3
    <3>5. f[n - (m - 1)] = f[n - m] \o s[n - (m - 1)]
      BY <2>2, <3>3
    <3>6. f[n - m] \in Seq(Nat) /\ s[n - (m - 1)] \in Seq(Nat)
      BY <1>0, <2>1, <3>3
    <3>7. BytesAt(offset, f[n - m])
      BY <3>4, <3>5, <3>6, PartsAt
    <3> QED BY <3>1, <3>7
  <2>4. \A i \in 1 .. n : BytesAt(offset, f[i])
    <3> TAKE i \in 1 .. n
    <3>1. n - i \in 0 .. n - 1 /\ n - (n - i) = i
      BY <1>0
    <3> QED BY <2>3, <3>1
  <2> DEFINE p == [j \in 0 .. n |-> IF j = 0 THEN offset ELSE offset + Len(f[j])]
  <2>5. \A j \in 1 .. n : Len(f[j]) \in Nat
    BY <2>1, LenProperties
  <2>6. p \in [0 .. n -> Nat]
    BY <2>5
  <2>7. ASSUME NEW j \in 1 .. n
        PROVE  BytesAt(p[j - 1], s[j]) /\ p[j] = p[j - 1] + Len(s[j])
    <3>1. CASE j = 1
      <4>1. p[j] = offset + Len(s[j]) /\ p[j - 1] = offset
        <5>1. 1 \in 0 .. n /\ 0 \in 0 .. n /\ 1 - 1 = 0
          BY <1>0, <1>2
        <5>2. p[1] = offset + Len(f[1]) /\ p[0] = offset
          BY <5>1
        <5> HIDE DEF p
        <5> QED BY Zenon, <2>2, <3>1, <5>1, <5>2
      <4> QED BY <4>1, <2>2, <2>4, <3>1
    <3>2. CASE j # 1
      <4>1. j - 1 \in 1 .. n
        BY <1>0, <3>2
      <4>2. p[j] = offset + Len(f[j]) /\ p[j - 1] = offset + Len(f[j - 1])
        BY <4>1
      <4>3. f[j] = f[j - 1] \o s[j] /\ f[j - 1] \in Seq(Nat) /\ s[j] \in Seq(Nat)
        BY <1>0, <2>1, <2>2, <3>2, <4>1
      <4>4. BytesAt(offset, f[j - 1] \o s[j])
        BY <2>4, <4>3
      <4>5. BytesAt(offset + Len(f[j - 1]), s[j])
        BY <4>3, <4>4, PartsAt
      <4>6. Len(f[j]) = Len(f[j - 1]) + Len(s[j])
        BY <4>3, ConcatProperties
      <4>7. Len(f[j]) \in Nat /\ Len(f[j - 1]) \in Nat /\ Len(s[j]) \in Nat
        BY <1>0, <2>5, <4>1
      <4>8. p[j] = p[j - 1] + Len(s[j])
        <5> DEFINE a == Len(f[j])
                   d == Len(f[j - 1])
                   e == Len(s[j])
        <5>1. a = d + e /\ a \in Nat /\ d \in Nat /\ e \in Nat /\ p[j] = offset + a /\ p[j - 1] = offset + d
          BY Zenon, <4>2, <4>6, <4>7
        <5> HIDE DEF p, a, d, e
        <5>2. p[j] = p[j - 1] + e
          BY <5>1
        <5> QED BY <5>2 DEF e
      <4> QED BY <4>2, <4>5, <4>8
    <3> QED BY <3>1, <3>2
  <2>8. p[0] = offset /\ p[n] = offset + Len(FlattenSeq(s))
    BY <1>0, <1>2, <2>1
  <2> HIDE DEF p
  <2> QED BY <2>6, <2>7, <2>8 DEF PlacedFrom
<1> QED BY <1>1, <1>2

\* The bytes of an object, and those of all in the store.
ObjectBytes(o) == encode_tag(o.tag) \o encode_length(o.blen) \o Content(o.type, o.value)
StoreBytes == [k \in DOMAIN asn_store |-> ObjectBytes(asn_store[k])]
Stored(k) == [tag |-> asn_class.objects[k].tag, type |-> asn_class.objects[k].type,
              blen |-> blen(asn_class.objects[k].type, asn_given[k]), value |-> asn_given[k]]
AllCarried == \A k \in DOMAIN asn_given : Carried(asn_class.objects[k].type, asn_given[k])

LEMMA PayloadIs == Payload = FlattenSeq(StoreBytes)
BY DEF Payload, StoreBytes, ObjectBytes

\* What the store holds is what was added, each object in its place.
StoreIsGiven ==
  /\ asn_class \in AsnClasses
  /\ Len(asn_given) \in 0 .. Len(asn_class.objects)
  /\ asn_given = [k \in 1 .. Len(asn_given) |-> asn_given[k]]
  /\ \A k \in 1 .. Len(asn_given) : asn_given[k] \in FieldsOf(asn_class.objects[k].type)
  /\ asn_store = [k \in 1 .. Len(asn_given) |-> Stored(k)]
  /\ asn_pc \in {"add", "encoded", "decode", "read"}
MessageIsWhole ==
  asn_pc # "add" =>
    /\ Len(asn_given) = Len(asn_class.objects)
    /\ asn_buffer = encode_tag(asn_class.oid) \o encode_length(Len(Payload)) \o Payload
\* What was read up to the offset is what was given.
ReadSoFar(p, j) ==
  /\ asn_buffer \in Seq(Nat)
  /\ PlacedFrom(StoreBytes, p) /\ p[Len(asn_given)] = Len(asn_buffer)
  /\ j \in 0 .. Len(asn_given) /\ asn_offset = p[j] /\ (asn_pc = "read" => j = Len(asn_given))
  /\ asn_read = [k \in 1 .. Len(asn_given) |->
                   [tag |-> asn_class.objects[k].tag, type |-> asn_class.objects[k].type,
                    value |-> IF k <= j THEN asn_given[k] ELSE Empty[asn_class.objects[k].type]]]
ReadIsGiven ==
  asn_pc \in {"decode", "read"} /\ Len(Payload) \notin {129, 130} /\ AllCarried =>
    \E p, j : ReadSoFar(p, j)

AsnInv == StoreIsGiven /\ MessageIsWhole /\ ReadIsGiven

LEMMA ClassFacts ==
  ASSUME NEW class \in AsnClasses
  PROVE  /\ class.oid \in ((0 .. 255) \ {127}) \cup (127 * 256 .. 127 * 256 + 255)
         /\ class.oid \in Nat
         /\ Len(class.objects) \in Nat /\ DOMAIN class.objects = 1 .. Len(class.objects)
         /\ class.capacity \in Nat /\ Len(class.objects) <= class.capacity
         /\ \A k \in 1 .. Len(class.objects) :
              /\ class.objects[k].type \in AsnTypes /\ class.objects[k].tag \in 128 .. 158
              /\ class.objects[k].tag \in Nat
         /\ \A i, j \in 1 .. Len(class.objects) :
              class.objects[i].tag = class.objects[j].tag => i = j
<1> DEFINE Objects == [tag : 128 .. 158, type : {"INT", "TIME", "STR", "DATA"}]
<1>1. /\ class.objects \in Seq(Objects)
      /\ class.capacity \in Nat /\ Len(class.objects) <= class.capacity
      /\ \A i, j \in DOMAIN class.objects :
           class.objects[i].tag = class.objects[j].tag => i = j
      /\ class.oid \in ((0 .. 255) \ {127}) \cup (127 * 256 .. 127 * 256 + 255)
  BY ZenonT(60), AsnAssumption
<1>2. Len(class.objects) \in Nat /\ DOMAIN class.objects = 1 .. Len(class.objects)
  BY <1>1, LenProperties
<1>3. \A k \in 1 .. Len(class.objects) : class.objects[k] \in Objects
  <2> HIDE DEF Objects
  <2> QED BY ZenonT(60), <1>1, ElementOfSeq
<1>4. \A o \in Objects : o.type \in AsnTypes /\ o.tag \in 128 .. 158 /\ o.tag \in Nat
  BY DEF AsnTypes
<1> HIDE DEF Objects
<1>5. \A x \in ((0 .. 255) \ {127}) \cup (127 * 256 .. 127 * 256 + 255) : x \in Nat
  OBVIOUS
<1> QED BY Zenon, <1>1, <1>2, <1>3, <1>4, <1>5

\* A value of a type is a field of it.
LEMMA ValuesAreFields ==
  ASSUME NEW type \in AsnTypes, NEW v \in AsnValues[type]
  PROVE  v \in FieldsOf(type)
<1>1. CASE type \in {"INT", "TIME"}
  BY <1>1, AsnAssumption DEF FieldsOf, Byte
<1>2. CASE type \in {"STR", "DATA"}
  <2>1. v \in Seq(0 .. 255)
    BY <1>2, AsnAssumption
  <2> QED BY <1>2, <2>1 DEF FieldsOf, Byte
<1> QED BY <1>1, <1>2 DEF AsnTypes

LEMMA FieldBytes ==
  ASSUME NEW type \in AsnTypes, NEW v \in FieldsOf(type), Carried(type, v)
  PROVE  /\ Content(type, v) \in Seq(Nat) /\ Len(Content(type, v)) = blen(type, v)
         /\ blen(type, v) \in Nat \ {129, 130}
<1>1. Byte \subseteq Nat
  BY DEF Byte
<1> QED BY <1>1, FieldComesBack, SeqMonotonic

\* The objects of a message that the format carries are of bytes.
LEMMA ObjectsAreBytes ==
  ASSUME StoreIsGiven, AllCarried
  PROVE  /\ StoreBytes \in Seq(Seq(Nat)) /\ Len(StoreBytes) = Len(asn_given)
         /\ \A k \in 1 .. Len(asn_given) : StoreBytes[k] = ObjectBytes(Stored(k))
<1>1. /\ DOMAIN asn_given = 1 .. Len(asn_given) /\ Len(asn_given) \in Nat
      /\ \A k \in 1 .. Len(asn_given) :
           /\ k \in 1 .. Len(asn_class.objects)
           /\ asn_given[k] \in FieldsOf(asn_class.objects[k].type)
  <2>1. Len(asn_class.objects) \in Nat
    BY ClassFacts DEF StoreIsGiven
  <2>2. asn_given = [k \in 1 .. Len(asn_given) |-> asn_given[k]]
    BY DEF StoreIsGiven
  <2> QED BY <2>1, <2>2 DEF StoreIsGiven
<1>2. StoreBytes = [k \in 1 .. Len(asn_given) |-> ObjectBytes(Stored(k))]
  <2>1. asn_store = [k \in 1 .. Len(asn_given) |-> Stored(k)]
    BY DEF StoreIsGiven
  <2> QED BY Zenon, <2>1 DEF StoreBytes
<1>3. ASSUME NEW k \in 1 .. Len(asn_given)
      PROVE  ObjectBytes(Stored(k)) \in Seq(Nat)
  <2> DEFINE type == asn_class.objects[k].type
             v == asn_given[k]
             tag == asn_class.objects[k].tag
  <2>1. type \in AsnTypes /\ tag \in Nat /\ v \in FieldsOf(type) /\ Carried(type, v)
    BY <1>1, ClassFacts DEF StoreIsGiven, AllCarried
  <2>2. ObjectBytes(Stored(k)) = encode_tag(tag) \o encode_length(blen(type, v)) \o Content(type, v)
    BY DEF ObjectBytes, Stored
  <2> HIDE DEF type, v, tag
  <2>3. /\ encode_tag(tag) \in Seq(Nat) /\ encode_length(blen(type, v)) \in Seq(Nat)
        /\ Content(type, v) \in Seq(Nat)
    BY <2>1, TagBytes, LengthBytes, FieldBytes
  <2>4. encode_tag(tag) \o encode_length(blen(type, v)) \in Seq(Nat)
    BY <2>3, ConcatProperties
  <2>5. encode_tag(tag) \o encode_length(blen(type, v)) \o Content(type, v) \in Seq(Nat)
    BY <2>3, <2>4, ConcatProperties
  <2> QED BY <2>2, <2>5
<1>4. StoreBytes \in [1 .. Len(asn_given) -> Seq(Nat)]
  BY <1>2, <1>3
<1> QED BY <1>1, <1>2, <1>4

\* An object is read back where it was written.
LEMMA ObjectComesBack ==
  ASSUME StoreIsGiven, AllCarried, asn_buffer \in Seq(Nat), NEW k \in 1 .. Len(asn_given),
         NEW offset \in Nat, BytesAt(offset, ObjectBytes(Stored(k))), NEW after
  PROVE  LET type == asn_class.objects[k].type
             tag == decode_tag(offset, after)
             n == decode_length(tag.next, after)
         IN /\ tag.value = asn_class.objects[k].tag
            /\ decode_value(type, n.next, n.value, after)
                 = Field(asn_given[k], offset + Len(ObjectBytes(Stored(k))))
            /\ offset < Len(asn_buffer)
<1> DEFINE type == asn_class.objects[k].type
           v == asn_given[k]
           tag == asn_class.objects[k].tag
           a == encode_tag(tag)
           b == encode_length(blen(type, v))
           c == Content(type, v)
<1>1. /\ type \in AsnTypes /\ tag \in 128 .. 158 /\ tag \in Nat
      /\ v \in FieldsOf(type) /\ Carried(type, v)
  <2>1. DOMAIN asn_given = 1 .. Len(asn_given) /\ Len(asn_class.objects) \in Nat
        /\ Len(asn_given) \in 0 .. Len(asn_class.objects)
    BY ClassFacts DEF StoreIsGiven
  <2>2. k \in 1 .. Len(asn_class.objects) /\ k \in DOMAIN asn_given
    BY <2>1
  <2>3. type \in AsnTypes /\ tag \in 128 .. 158 /\ tag \in Nat
    BY <2>2, ClassFacts DEF StoreIsGiven
  <2>4. v \in FieldsOf(type)
    BY DEF StoreIsGiven
  <2>5. Carried(type, v)
    BY <2>2 DEF AllCarried
  <2> QED BY <2>3, <2>4, <2>5
<1>2. ObjectBytes(Stored(k)) = (a \o b) \o c
  BY DEF ObjectBytes, Stored
<1> HIDE DEF type, v, tag
<1>3. /\ a \in Seq(Nat) /\ b \in Seq(Nat) /\ c \in Seq(Nat)
      /\ Len(c) = blen(type, v) /\ blen(type, v) \in Nat \ {129, 130}
      /\ Len(a) \in 1 .. 2 /\ Len(b) \in 1 .. 3
  <2>1. a \in Seq(Nat) /\ Len(a) \in 1 .. 2
    BY Zenon, <1>1, TagBytes
  <2>2. c \in Seq(Nat) /\ Len(c) = blen(type, v) /\ blen(type, v) \in Nat \ {129, 130}
    BY Zenon, <1>1, FieldBytes
  <2>3. blen(type, v) \in Nat
    BY <2>2
  <2>4. b \in Seq(Nat) /\ Len(b) \in 1 .. 3
    BY Zenon, <2>3, LengthBytes
  <2> QED BY Zenon, <2>1, <2>2, <2>4
<1>4. tag \in ((0 .. 255) \ {127}) \cup (127 * 256 .. 127 * 256 + 255)
  BY <1>1
<1>5. a \o b \in Seq(Nat) /\ Len(a \o b) = Len(a) + Len(b)
      /\ Len((a \o b) \o c) = Len(a \o b) + Len(c)
  <2> HIDE DEF a, b, c
  <2>1. a \o b \in Seq(Nat) /\ Len(a \o b) = Len(a) + Len(b)
    BY <1>3, ConcatProperties
  <2>2. Len((a \o b) \o c) = Len(a \o b) + Len(c)
    <3> DEFINE ab == a \o b
    <3>1. ab \in Seq(Nat) /\ c \in Seq(Nat)
      BY <1>3, <2>1
    <3> HIDE DEF ab
    <3>2. Len(ab \o c) = Len(ab) + Len(c)
      BY <3>1, ConcatProperties
    <3> QED BY <3>2 DEF ab
  <2> QED BY <2>1, <2>2
<1>6. BytesAt(offset, a \o b) /\ BytesAt(offset + Len(a \o b), c)
  <2>1. BytesAt(offset, (a \o b) \o c)
    BY Zenon, <1>2
  <2> HIDE DEF a, b, c
  <2> QED BY ZenonT(60), <1>3, <1>5, <2>1, PartsAt
<1>7. BytesAt(offset, a) /\ BytesAt(offset + Len(a), b)
  BY <1>3, <1>6, PartsAt
<1>8. decode_tag(offset, after) = Field(tag, offset + Len(a))
  BY <1>4, <1>7, TagComesBack
<1>9. decode_length(offset + Len(a), after) = Field(blen(type, v), (offset + Len(a)) + Len(b))
  <2>1. offset + Len(a) \in Nat
    BY <1>3
  <2> QED BY <1>3, <1>7, <2>1, LengthComesBack
<1>10. decode_value(type, (offset + Len(a)) + Len(b), blen(type, v), after)
         = Field(v, ((offset + Len(a)) + Len(b)) + blen(type, v))
  <2>1. (offset + Len(a)) + Len(b) = offset + Len(a \o b) /\ offset + Len(a \o b) \in Nat
    <3> HIDE DEF a, b
    <3> QED BY <1>3, <1>5
  <2> QED BY <1>1, <1>6, <2>1, FieldComesBack
<1>11. ((offset + Len(a)) + Len(b)) + blen(type, v) = offset + Len((a \o b) \o c)
  <2> HIDE DEF a, b, c
  <2> QED BY <1>3, <1>5
<1>12. offset < Len(asn_buffer)
  <2>1. offset + Len(a) <= Len(asn_buffer) /\ Len(asn_buffer) \in Nat
    BY <1>7, LenProperties DEF BytesAt
  <2>2. Len(a) \in 1 .. 2
    BY <1>3
  <2>3. \A x, z \in Nat : \A y \in 1 .. 2 : x + y <= z => x < z
    OBVIOUS
  <2> QED BY Zenon, <2>1, <2>2, <2>3
<1> HIDE DEF a, b, c
<1>13. \A x, y : Field(x, y).value = x /\ Field(x, y).next = y
  BY DEF Field
<1> DEFINE t == decode_tag(offset, after)
           n == decode_length(t.next, after)
<1>14. t.value = tag /\ t.next = offset + Len(a)
  BY Zenon, <1>8, <1>13
<1>15. n.value = blen(type, v) /\ n.next = (offset + Len(a)) + Len(b)
  <2>1. n = Field(blen(type, v), (offset + Len(a)) + Len(b))
    BY Zenon, <1>9, <1>14
  <2> HIDE DEF n
  <2> QED BY Zenon, <1>13, <2>1
<1>16. decode_value(type, n.next, n.value, after) = Field(v, offset + Len(ObjectBytes(Stored(k))))
  BY Zenon, <1>2, <1>10, <1>11, <1>15
<1> QED BY Zenon, <1>12, <1>14, <1>16 DEF type, v, tag

LEMMA GivenFacts ==
  ASSUME StoreIsGiven
  PROVE  /\ Len(asn_given) \in Nat /\ DOMAIN asn_given = 1 .. Len(asn_given)
         /\ Len(asn_class.objects) \in Nat /\ DOMAIN asn_class.objects = 1 .. Len(asn_class.objects)
         /\ \A k \in 1 .. Len(asn_given) : k \in 1 .. Len(asn_class.objects)
<1>1. /\ Len(asn_class.objects) \in Nat
      /\ DOMAIN asn_class.objects = 1 .. Len(asn_class.objects)
  BY ClassFacts DEF StoreIsGiven
<1>2. Len(asn_given) \in 0 .. Len(asn_class.objects)
  BY DEF StoreIsGiven
<1>3. DOMAIN asn_given = 1 .. Len(asn_given)
  <2>1. asn_given = [k \in 1 .. Len(asn_given) |-> asn_given[k]]
    BY DEF StoreIsGiven
  <2> QED BY Zenon, <2>1
<1> QED BY <1>1, <1>2, <1>3

\* What the fields hold does not change once the message is encoded.
AsnGiven == <<asn_class, asn_given, asn_store>>

LEMMA GivenStays ==
  ASSUME UNCHANGED AsnGiven
  PROVE  /\ Payload' = Payload /\ StoreBytes' = StoreBytes /\ AllCarried' = AllCarried
         /\ \A k : Stored(k)' = Stored(k)
         /\ StoreIsGiven /\ asn_pc' \in {"add", "encoded", "decode", "read"} => StoreIsGiven'
BY DEF AsnGiven, Payload, StoreBytes, AllCarried, Stored, StoreIsGiven

LEMMA AsnStarts == AsnInit => AsnInv
<1> SUFFICES ASSUME AsnInit PROVE AsnInv
  OBVIOUS
<1>1. asn_given = <<>> /\ asn_store = <<>> /\ asn_class \in AsnClasses /\ asn_pc = "add"
  BY DEF AsnInit
<1>2. Len(asn_class.objects) \in Nat
  BY <1>1, ClassFacts
<1>3. StoreIsGiven
  <2>1. Len(asn_given) = 0 /\ 0 \in 0 .. Len(asn_class.objects)
    BY <1>1, <1>2
  <2>2. /\ asn_given = [k \in 1 .. Len(asn_given) |-> asn_given[k]]
        /\ asn_store = [k \in 1 .. Len(asn_given) |-> Stored(k)]
    BY <1>1, <2>1
  <2>3. \A k \in 1 .. Len(asn_given) : FALSE
    BY <2>1
  <2> QED BY <1>1, <2>1, <2>2, <2>3 DEF StoreIsGiven
<1>4. MessageIsWhole /\ ReadIsGiven
  BY <1>1 DEF MessageIsWhole, ReadIsGiven
<1> QED BY <1>3, <1>4 DEF AsnInv

LEMMA AddKeeps ==
  ASSUME AsnInv, NEW v, sec_hasp_asn1_object_add(v)
  PROVE  AsnInv'
<1> DEFINE n == Len(asn_given)
           o == asn_class.objects[n + 1]
<1>0. StoreIsGiven
  BY DEF AsnInv
<1>1. /\ asn_pc = "add" /\ n + 1 <= Len(asn_class.objects) /\ v \in AsnValues[o.type]
      /\ asn_given' = Append(asn_given, v)
      /\ asn_store' = IF Len(asn_store) = asn_class.capacity THEN asn_store
                      ELSE Append(asn_store, [tag |-> o.tag, type |-> o.type,
                                              blen |-> blen(o.type, v), value |-> v])
      /\ asn_pc' = asn_pc /\ asn_class' = asn_class
  BY DEF sec_hasp_asn1_object_add
<1>2. /\ n \in Nat /\ Len(asn_class.objects) \in Nat /\ n + 1 \in 1 .. Len(asn_class.objects)
      /\ asn_class \in AsnClasses
  BY <1>0, <1>1, GivenFacts DEF StoreIsGiven
<1>3. o.type \in AsnTypes /\ asn_class.capacity \in Nat
      /\ Len(asn_class.objects) <= asn_class.capacity
  BY <1>2, ClassFacts
<1>4. asn_given = [k \in 1 .. n |-> asn_given[k]] /\ asn_store = [k \in 1 .. n |-> Stored(k)]
  BY <1>0 DEF StoreIsGiven
<1> HIDE DEF n, o
<1>5. Len(asn_store) = n
  BY <1>2, <1>4
<1>6. asn_store' = Append(asn_store, [tag |-> o.tag, type |-> o.type,
                                      blen |-> blen(o.type, v), value |-> v])
  <2>1. Len(asn_store) # asn_class.capacity
    BY <1>2, <1>3, <1>5
  <2> QED BY <1>1, <2>1
<1>7. asn_given' = [k \in 1 .. n + 1 |-> IF k = n + 1 THEN v ELSE asn_given[k]]
  BY <1>1, <1>2, <1>4
<1>8. Len(asn_given') = n + 1
  BY <1>2, <1>7
<1>9. asn_store' = [k \in 1 .. n + 1 |-> Stored(k)']
  <2>1. asn_store' = [k \in 1 .. n + 1 |-> IF k = n + 1 THEN [tag |-> o.tag, type |-> o.type,
                                      blen |-> blen(o.type, v), value |-> v] ELSE asn_store[k]]
    BY <1>2, <1>4, <1>5, <1>6
  <2>2. ASSUME NEW k \in 1 .. n + 1, k # n + 1
        PROVE  asn_store[k] = Stored(k)'
    <3>1. k \in 1 .. n /\ asn_given'[k] = asn_given[k]
      BY <1>2, <1>7, <2>2
    <3> QED BY <1>1, <1>4, <3>1 DEF Stored
  <2>3. ASSUME NEW k \in 1 .. n + 1, k = n + 1
        PROVE  Stored(k)' = [tag |-> o.tag, type |-> o.type, blen |-> blen(o.type, v), value |-> v]
    <3>1. asn_given'[k] = v
      BY <1>7, <2>3
    <3>2. asn_class'.objects[k] = o
      BY <1>1, <2>3 DEF o
    <3> QED BY <3>1, <3>2 DEF Stored
  <2>4. ASSUME NEW k \in 1 .. n + 1
        PROVE  (IF k = n + 1 THEN [tag |-> o.tag, type |-> o.type,
                                   blen |-> blen(o.type, v), value |-> v] ELSE asn_store[k])
                 = Stored(k)'
    <3>1. CASE k = n + 1
      BY <2>3, <3>1
    <3>2. CASE k # n + 1
      BY <2>2, <3>2
    <3> QED BY <3>1, <3>2
  <2> QED BY Zenon, <2>1, <2>4
<1>10. ASSUME NEW k \in 1 .. n + 1
       PROVE  asn_given'[k] \in FieldsOf(asn_class.objects[k].type)
  <2>1. CASE k = n + 1
    <3>1. asn_given'[k] = v
      BY <1>7, <2>1
    <3>2. v \in FieldsOf(o.type)
      BY <1>1, <1>3, ValuesAreFields
    <3> QED BY <2>1, <3>1, <3>2 DEF o
  <2>2. CASE k # n + 1
    <3>1. k \in 1 .. n /\ asn_given'[k] = asn_given[k]
      BY <1>2, <1>7, <2>2
    <3> QED BY <1>0, <3>1 DEF StoreIsGiven, n
  <2> QED BY <2>1, <2>2
<1>11. StoreIsGiven'
  <2>1. asn_given' = [k \in 1 .. n + 1 |-> asn_given'[k]]
    BY <1>7
  <2>2. Len(asn_given') \in 0 .. Len(asn_class'.objects)
    BY <1>1, <1>2, <1>8
  <2>3. asn_class' \in AsnClasses /\ asn_pc' = "add"
    BY <1>1, <1>2
  <2> QED BY <1>1, <1>8, <1>9, <1>10, <2>1, <2>2, <2>3 DEF StoreIsGiven
<1>12. MessageIsWhole' /\ ReadIsGiven'
  BY <1>1 DEF MessageIsWhole, ReadIsGiven
<1> QED BY <1>11, <1>12 DEF AsnInv

LEMMA EncodeKeeps ==
  ASSUME AsnInv, sec_hasp_asn1_encode
  PROVE  AsnInv'
<1>1. /\ asn_pc = "add" /\ asn_pc' = "encoded" /\ Len(asn_given) = Len(asn_class.objects)
      /\ asn_buffer' = encode_tag(asn_class.oid) \o encode_length(Len(Payload)) \o Payload
      /\ UNCHANGED AsnGiven
  BY DEF sec_hasp_asn1_encode, AsnGiven
<1>2. StoreIsGiven' /\ Payload' = Payload
  BY <1>1, GivenStays DEF AsnInv
<1>3. MessageIsWhole'
  BY <1>1, <1>2 DEF MessageIsWhole, AsnGiven
<1> QED BY <1>1, <1>2, <1>3 DEF AsnInv, ReadIsGiven

\* Where nothing was left out and no length is a mark, the reader finds the first
\* object behind the head of the message, and the others behind each other.
LEMMA HeadComesBack ==
  ASSUME AsnInv, asn_pc = "encoded", AllCarried, Len(Payload) \notin {129, 130}, NEW after
  PROVE  /\ asn_buffer \in Seq(Nat)
         /\ \E p : /\ PlacedFrom(StoreBytes, p) /\ p[Len(asn_given)] = Len(asn_buffer)
                   /\ decode_length(decode_tag(0, after).next, after).next = p[0]
<1> DEFINE a == encode_tag(asn_class.oid)
           b == encode_length(Len(Payload))
           c == Payload
<1>0. StoreIsGiven /\ asn_class \in AsnClasses
  BY DEF AsnInv, StoreIsGiven
<1>1. asn_buffer = (a \o b) \o c
  BY DEF AsnInv, MessageIsWhole
<1>2. StoreBytes \in Seq(Seq(Nat)) /\ Len(StoreBytes) = Len(asn_given) /\ c = FlattenSeq(StoreBytes)
  BY <1>0, ObjectsAreBytes, PayloadIs
<1>3. c \in Seq(Nat)
  <2>1. CASE Len(StoreBytes) = 0
    <3>1. FlattenSeq(StoreBytes) = <<>>
      BY <1>2, <2>1 DEF FlattenSeq
    <3> QED BY <1>2, <3>1
  <2>2. CASE Len(StoreBytes) # 0
    <3>1. PICK f : /\ FlattenSeq(StoreBytes) = f[Len(StoreBytes)]
                   /\ \A i \in 1 .. Len(StoreBytes) : f[i] \in Seq(Nat)
      BY <1>2, <2>2, FlattenJoins
    <3>2. Len(StoreBytes) \in 1 .. Len(StoreBytes)
      BY <1>2, <2>2, LenProperties
    <3> QED BY <1>2, <3>1, <3>2
  <2> QED BY <2>1, <2>2
<1>4. Len(c) \in Nat \ {129, 130}
  BY <1>3, LenProperties
<1>5. /\ asn_class.oid \in ((0 .. 255) \ {127}) \cup (127 * 256 .. 127 * 256 + 255)
      /\ asn_class.oid \in Nat
  BY <1>0, ClassFacts
<1>6. a \in Seq(Nat) /\ b \in Seq(Nat) /\ Len(a) \in 1 .. 2 /\ Len(b) \in 1 .. 3
  BY <1>4, <1>5, TagBytes, LengthBytes
<1> HIDE DEF a, b, c
<1>8. a \o b \in Seq(Nat) /\ Len(a \o b) = Len(a) + Len(b)
  BY <1>6, ConcatProperties
<1>9. asn_buffer \in Seq(Nat) /\ Len(asn_buffer) = Len(a \o b) + Len(c)
  <2> DEFINE ab == a \o b
  <2>1. ab \in Seq(Nat) /\ asn_buffer = ab \o c
    BY <1>1, <1>8
  <2> HIDE DEF ab
  <2>2. ab \o c \in Seq(Nat) /\ Len(ab \o c) = Len(ab) + Len(c)
    BY <1>3, <2>1, ConcatProperties
  <2> QED BY <2>1, <2>2 DEF ab
<1>10. BytesAt(0, (a \o b) \o c)
  <2>1. Len(asn_buffer) \in Nat
    BY <1>9, LenProperties
  <2>2. BytesAt(0, asn_buffer)
    BY <2>1 DEF BytesAt
  <2> QED BY <1>1, <2>2
<1>11. BytesAt(0, a \o b) /\ BytesAt(0 + Len(a \o b), c)
  BY <1>3, <1>8, <1>9, <1>10, PartsAt
<1>12. BytesAt(0, a) /\ BytesAt(0 + Len(a), b)
  BY <1>6, <1>9, <1>11, PartsAt
<1>13. decode_tag(0, after) = Field(asn_class.oid, 0 + Len(a))
  <2>1. 0 \in Nat /\ BytesAt(0, encode_tag(asn_class.oid))
    BY <1>12 DEF a
  <2>2. decode_tag(0, after) = Field(asn_class.oid, 0 + Len(encode_tag(asn_class.oid)))
    BY ZenonT(60), <1>5, <1>9, <2>1, TagComesBack
  <2> QED BY <2>2 DEF a
<1>14. decode_length(0 + Len(a), after) = Field(Len(c), (0 + Len(a)) + Len(b))
  <2>1. 0 + Len(a) \in Nat
    BY <1>6
  <2> QED BY <1>4, <1>9, <1>12, <2>1, LengthComesBack DEF b, c
<1>15. decode_length(decode_tag(0, after).next, after).next = (0 + Len(a)) + Len(b)
  <2>1. \A x, y : Field(x, y).next = y
    BY DEF Field
  <2>2. decode_tag(0, after).next = 0 + Len(a)
    BY Zenon, <1>13, <2>1
  <2>3. decode_length(decode_tag(0, after).next, after) = Field(Len(c), (0 + Len(a)) + Len(b))
    BY Zenon, <1>14, <2>2
  <2> HIDE DEF a, b, c
  <2> QED BY Zenon, <2>1, <2>3
<1>16. 0 + Len(a \o b) \in Nat /\ 0 + Len(a \o b) = (0 + Len(a)) + Len(b)
       /\ (0 + Len(a \o b)) + Len(c) = Len(asn_buffer)
  BY <1>4, <1>6, <1>8, <1>9
<1>17. \E p : /\ PlacedFrom(StoreBytes, p) /\ p[0] = 0 + Len(a \o b)
              /\ p[Len(StoreBytes)] = (0 + Len(a \o b)) + Len(c)
  BY <1>2, <1>9, <1>11, <1>16, FlattenPlaced
<1> QED BY <1>2, <1>9, <1>15, <1>16, <1>17

LEMMA SetKeeps ==
  ASSUME AsnInv, NEW after, sec_hasp_asn1_object_set(after)
  PROVE  AsnInv'
<1>1. /\ asn_pc = "encoded" /\ asn_pc' = "decode" /\ UNCHANGED AsnGiven /\ asn_buffer' = asn_buffer
      /\ asn_offset' = decode_length(decode_tag(0, after).next, after).next
      /\ asn_read' = [k \in DOMAIN asn_class.objects |->
                        [tag |-> asn_class.objects[k].tag, type |-> asn_class.objects[k].type,
                         value |-> Empty[asn_class.objects[k].type]]]
  BY DEF sec_hasp_asn1_object_set, AsnGiven
<1>2. StoreIsGiven /\ MessageIsWhole
  BY DEF AsnInv
<1>3. StoreIsGiven' /\ Payload' = Payload /\ StoreBytes' = StoreBytes /\ AllCarried' = AllCarried
      /\ asn_given' = asn_given /\ asn_class' = asn_class
  BY <1>1, <1>2, GivenStays DEF AsnGiven
<1>4. MessageIsWhole' /\ Len(asn_given) = Len(asn_class.objects)
  BY <1>1, <1>2, <1>3 DEF MessageIsWhole
<1>5. Len(asn_given) \in Nat /\ DOMAIN asn_class.objects = 1 .. Len(asn_given)
  BY <1>2, <1>4, GivenFacts
<1>6. ASSUME AllCarried, Len(Payload) \notin {129, 130}
      PROVE  \E p, j : ReadSoFar(p, j)'
  <2>1. PICK p : /\ PlacedFrom(StoreBytes, p) /\ p[Len(asn_given)] = Len(asn_buffer)
                 /\ decode_length(decode_tag(0, after).next, after).next = p[0]
    BY <1>1, <1>6, HeadComesBack
  <2>2. asn_buffer \in Seq(Nat)
    BY <1>1, <1>6, HeadComesBack
  <2>3. PlacedFrom(StoreBytes, p)'
    BY <1>1, <1>3, <2>1 DEF PlacedFrom, BytesAt
  <2>4. asn_read' = [k \in 1 .. Len(asn_given) |->
                   [tag |-> asn_class.objects[k].tag, type |-> asn_class.objects[k].type,
                    value |-> IF k <= 0 THEN asn_given[k] ELSE Empty[asn_class.objects[k].type]]]
    <3>1. \A k \in 1 .. Len(asn_given) : ~(k <= 0)
      BY <1>5
    <3> QED BY <1>1, <1>5, <3>1
  <2>5. ReadSoFar(p, 0)'
    <3>1. 0 \in 0 .. Len(asn_given)
      BY <1>5
    <3> QED BY <1>1, <1>3, <2>1, <2>2, <2>3, <2>4, <3>1 DEF ReadSoFar
  <2> QED BY <2>5
<1> QED BY <1>3, <1>4, <1>6 DEF AsnInv, ReadIsGiven

\* The reader of a message that it can carry takes the next object, in its place.
LEMMA NextIsRead ==
  ASSUME AsnInv, asn_pc = "decode", AllCarried, NEW p, NEW j, ReadSoFar(p, j),
         NEW after, sec_hasp_asn1_decode(after)
  PROVE  \E q, i : ReadSoFar(q, i)'
<1> DEFINE n == Len(asn_given)
           o(k) == asn_class.objects[k]
           tag == decode_tag(asn_offset, after)
           m == decode_length(tag.next, after)
           places == {k \in DOMAIN asn_read : asn_read[k].tag = tag.value}
           v(k) == decode_value(asn_read[k].type, m.next, m.value, after)
           At(i) == [k \in 1 .. n |-> [tag |-> o(k).tag, type |-> o(k).type,
                                       value |-> IF k <= i THEN asn_given[k] ELSE Empty[o(k).type]]]
<1>0. StoreIsGiven /\ UNCHANGED AsnGiven /\ asn_buffer' = asn_buffer
  BY DEF AsnInv, sec_hasp_asn1_decode, AsnGiven
<1>1. StoreBytes' = StoreBytes /\ asn_given' = asn_given /\ asn_class' = asn_class
  BY <1>0, GivenStays DEF AsnGiven
<1>2. /\ asn_buffer \in Seq(Nat) /\ PlacedFrom(StoreBytes, p) /\ p[n] = Len(asn_buffer)
      /\ j \in 0 .. n /\ asn_offset = p[j] /\ asn_read = At(j)
  BY DEF ReadSoFar
<1>3. /\ n \in Nat /\ asn_class \in AsnClasses /\ Len(asn_class.objects) \in Nat
      /\ \A k \in 1 .. n : k \in 1 .. Len(asn_class.objects)
  BY <1>0, GivenFacts DEF StoreIsGiven
<1>4. PlacedFrom(StoreBytes, p)'
  BY <1>0, <1>1, <1>2 DEF PlacedFrom, BytesAt
<1>5. IF asn_offset >= Len(asn_buffer) \/ tag.value \notin 128 .. 158 \/ places = {}
      THEN asn_pc' = "read" /\ UNCHANGED <<asn_offset, asn_read>>
      ELSE /\ asn_offset' = v(CHOOSE k \in places : TRUE).next
           /\ asn_read' = [asn_read EXCEPT ![CHOOSE k \in places : TRUE].value =
                                             v(CHOOSE k \in places : TRUE).value]
           /\ UNCHANGED asn_pc
  BY DEF sec_hasp_asn1_decode
<1>6. StoreBytes \in Seq(Seq(Nat)) /\ Len(StoreBytes) = n
      /\ \A k \in 1 .. n : StoreBytes[k] = ObjectBytes(Stored(k))
  BY <1>0, ObjectsAreBytes
<1>7. /\ p \in [0 .. n -> Nat]
      /\ \A k \in 1 .. n : /\ BytesAt(p[k - 1], ObjectBytes(Stored(k)))
                           /\ p[k] = p[k - 1] + Len(ObjectBytes(Stored(k)))
  BY <1>2, <1>6 DEF PlacedFrom
<1>8. CASE j = n
  <2>1. asn_offset >= Len(asn_buffer)
    BY <1>2, <1>7, <1>8, LenProperties
  <2>2. asn_pc' = "read" /\ UNCHANGED <<asn_offset, asn_read>>
    BY <1>5, <2>1
  <2>3. ReadSoFar(p, j)'
    BY <1>0, <1>1, <1>2, <1>4, <1>8, <2>2 DEF ReadSoFar
  <2> QED BY <2>3
<1>9. CASE j # n
  <2> DEFINE k == j + 1
  <2>1. k \in 1 .. n /\ k - 1 = j /\ j \in Nat
    BY <1>2, <1>3, <1>9
  <2>2. /\ BytesAt(asn_offset, ObjectBytes(Stored(k))) /\ asn_offset \in Nat
        /\ p[k] = asn_offset + Len(ObjectBytes(Stored(k)))
    BY <1>2, <1>7, <2>1
  <2>3. o(k).tag \in 128 .. 158 /\ o(k).type \in AsnTypes
        /\ \A i \in 1 .. n : o(i).tag = o(k).tag => i = k
    <3>1. /\ \A i \in 1 .. Len(asn_class.objects) :
                o(i).tag \in 128 .. 158 /\ o(i).type \in AsnTypes
          /\ \A i, l \in 1 .. Len(asn_class.objects) : o(i).tag = o(l).tag => i = l
      BY ZenonT(60), <1>3, ClassFacts
    <3> HIDE DEF o, k
    <3> QED BY <1>3, <2>1, <3>1
  <2> HIDE DEF k
  <2>4. /\ tag.value = o(k).tag /\ asn_offset < Len(asn_buffer)
        /\ decode_value(o(k).type, m.next, m.value, after)
             = Field(asn_given[k], asn_offset + Len(ObjectBytes(Stored(k))))
    BY Zenon, <1>0, <1>2, <2>1, <2>2, ObjectComesBack
  <2>5. /\ DOMAIN asn_read = 1 .. n
        /\ \A i \in 1 .. n : asn_read[i].tag = o(i).tag /\ asn_read[i].type = o(i).type
    BY Zenon, <1>2
  <2> HIDE DEF tag, m
  <2>6. places = {k}
    BY <2>1, <2>3, <2>4, <2>5
  <2>7. (CHOOSE i \in places : TRUE) = k
    BY <2>6
  <2>8. v(k) = Field(asn_given[k], p[k])
    BY Zenon, <2>1, <2>2, <2>4, <2>5
  <2>9. /\ asn_offset' = v(k).next /\ asn_pc' = asn_pc
        /\ asn_read' = [asn_read EXCEPT ![k].value = v(k).value]
    <3>1. ~(asn_offset >= Len(asn_buffer)) /\ tag.value \in 128 .. 158 /\ places # {}
      <4>1. Len(asn_buffer) \in Nat
        BY <1>2, LenProperties
      <4>2. ~(asn_offset >= Len(asn_buffer))
        BY <2>2, <2>4, <4>1
      <4>3. tag.value \in 128 .. 158
        BY Zenon, <2>3, <2>4
      <4>4. places # {}
        BY <2>6
      <4> QED BY Zenon, <4>2, <4>3, <4>4
    <3> HIDE DEF places, v
    <3> QED BY <1>5, <2>7, <3>1
  <2>10. v(k).next = p[k] /\ v(k).value = asn_given[k]
    BY <2>8 DEF Field
  <2> HIDE DEF v
  <2>11. asn_read' = At(k)
    <3>1. asn_read' = [asn_read EXCEPT ![k].value = asn_given[k]]
      BY <2>9, <2>10
    <3>2. \A i \in 1 .. n : i # k => (i <= j <=> i <= k)
      BY <1>3, <2>1 DEF k
    <3>3. k <= k
      BY <1>3, <2>1
    <3>4. asn_read' = [i \in 1 .. n |-> IF i = k THEN [asn_read[k] EXCEPT !.value = asn_given[k]]
                                       ELSE asn_read[i]]
      BY <2>1, <2>5, <3>1
    <3>5. [asn_read[k] EXCEPT !.value = asn_given[k]] = At(k)[k]
      BY <1>2, <2>1, <3>3
    <3>6. \A i \in 1 .. n : i # k => asn_read[i] = At(k)[i]
      BY <1>2, <3>2
    <3>7. At(k) = [i \in 1 .. n |-> At(k)[i]]
      OBVIOUS
    <3> HIDE DEF At
    <3> QED BY Zenon, <3>4, <3>5, <3>6, <3>7
  <2>12. k \in 0 .. n
    BY <1>3, <2>1
  <2> HIDE DEF At
  <2>13. ReadSoFar(p, k)'
    <3>1. asn_offset' = p[k] /\ asn_pc' # "read" /\ asn_buffer' \in Seq(Nat)
          /\ p[Len(asn_given')] = Len(asn_buffer') /\ Len(asn_given') = n
      BY <1>0, <1>1, <1>2, <2>9, <2>10
    <3> QED BY <1>1, <1>4, <2>11, <2>12, <3>1 DEF ReadSoFar, At
  <2> QED BY <2>13
<1> QED BY <1>8, <1>9

LEMMA DecodeKeeps ==
  ASSUME AsnInv, NEW after, sec_hasp_asn1_decode(after)
  PROVE  AsnInv'
<1>1. /\ asn_pc = "decode" /\ asn_pc' \in {"decode", "read"} /\ UNCHANGED AsnGiven
      /\ asn_buffer' = asn_buffer
  BY DEF sec_hasp_asn1_decode, AsnGiven
<1>2. StoreIsGiven' /\ Payload' = Payload /\ AllCarried' = AllCarried
  BY <1>1, GivenStays DEF AsnInv
<1>3. MessageIsWhole'
  BY <1>1, <1>2 DEF AsnInv, MessageIsWhole, AsnGiven
<1>4. ASSUME AllCarried, Len(Payload) \notin {129, 130}
      PROVE  \E p, j : ReadSoFar(p, j)'
  <2>1. PICK p, j : ReadSoFar(p, j)
    BY <1>1, <1>4 DEF AsnInv, ReadIsGiven
  <2> QED BY <1>1, <1>4, <2>1, NextIsRead
<1>5. ReadIsGiven'
  BY <1>2, <1>4 DEF ReadIsGiven
<1> QED BY <1>2, <1>3, <1>5 DEF AsnInv

LEMMA AsnInvSurvives == AsnInv => MessagesSurvive
<1> SUFFICES ASSUME AsnInv, asn_pc = "read", Len(Payload) \notin {129, 130}, AllCarried,
                    NEW k \in DOMAIN asn_given
             PROVE  asn_read[k].value = asn_given[k]
  BY DEF MessagesSurvive, AllCarried
<1>1. PICK p, j : ReadSoFar(p, j)
  BY DEF AsnInv, ReadIsGiven
<1>2. k \in 1 .. Len(asn_given) /\ Len(asn_given) \in Nat
  BY GivenFacts DEF AsnInv
<1>3. j = Len(asn_given)
  BY <1>1 DEF ReadSoFar
<1>4. k <= j
  BY <1>2, <1>3
<1> QED BY <1>1, <1>2, <1>4 DEF ReadSoFar

\* In every state of the writer and the reader, whatever the messages, the values
\* and the bytes behind them: a message that the format can carry is read as it
\* was written (sec_hasp_asn1_encode and sec_hasp_asn1_decode).
THEOREM MessagesAreRead == AsnSpec => []MessagesSurvive
<1>1. AsnInit => AsnInv
  BY AsnStarts
<1>2. AsnInv /\ [AsnNext]_vars_asn => AsnInv'
  <2> SUFFICES ASSUME AsnInv, [AsnNext]_vars_asn PROVE AsnInv'
    OBVIOUS
  <2>1. CASE UNCHANGED vars_asn
    <3>1. /\ UNCHANGED AsnGiven /\ asn_pc' = asn_pc /\ asn_buffer' = asn_buffer
          /\ asn_offset' = asn_offset /\ asn_read' = asn_read
      BY <2>1 DEF vars_asn, AsnGiven
    <3>2. /\ Payload' = Payload /\ StoreBytes' = StoreBytes /\ AllCarried' = AllCarried
          /\ StoreIsGiven'
      BY <3>1, GivenStays DEF AsnInv, StoreIsGiven
    <3>3. MessageIsWhole'
      BY <3>1, <3>2 DEF AsnInv, MessageIsWhole, AsnGiven
    <3>4. \A p, j : ReadSoFar(p, j) => ReadSoFar(p, j)'
      BY <3>1, <3>2 DEF ReadSoFar, PlacedFrom, BytesAt, AsnGiven
    <3>5. ReadIsGiven'
      BY <3>1, <3>2, <3>4 DEF AsnInv, ReadIsGiven
    <3> QED BY <3>2, <3>3, <3>5 DEF AsnInv
  <2>2. ASSUME NEW v, sec_hasp_asn1_object_add(v)
        PROVE  AsnInv'
    BY <2>2, AddKeeps
  <2>3. CASE sec_hasp_asn1_encode
    BY <2>3, EncodeKeeps
  <2>4. ASSUME NEW after, sec_hasp_asn1_object_set(after)
        PROVE  AsnInv'
    BY <2>4, SetKeeps
  <2>5. ASSUME NEW after, sec_hasp_asn1_decode(after)
        PROVE  AsnInv'
    BY <2>5, DecodeKeeps
  <2> QED BY <2>1, <2>2, <2>3, <2>4, <2>5 DEF AsnNext
<1>3. AsnInv => MessagesSurvive
  BY AsnInvSurvives
<1> QED BY <1>1, <1>2, <1>3, PTL DEF AsnSpec
=============================================================================
