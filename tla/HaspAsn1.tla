-------------------------------- MODULE HaspAsn1 --------------------------------
(***************************************************************************)
(* The messages of the HASP server, sec/hasp/lib/asn1.c: a store of tagged *)
(* objects is written into a buffer as tag, length and content, and read   *)
(* back into a store that was prepared with the same tags.  A 32-bit       *)
(* number is its four bytes, highest first, since it is beyond TLC's       *)
(* integers.  Tags, lengths and contents are the bytes of the code.        *)
(***************************************************************************)
EXTENDS Integers, Sequences, SequencesExt

CONSTANTS
  AsnClasses,    \* the messages: [oid, capacity, objects], an object [tag, type]
  AsnValues,     \* by type, what a field can hold
  AsnAfter       \* what the buffer can hold after the message

\* What the server makes of it: a place in the store for each object, no tag twice,
\* and none that the reader takes for the end; a number is its four bytes.
ASSUME AsnAssumption ==
  /\ \A class \in AsnClasses :
       /\ class.objects \in Seq([tag : 128 .. 158, type : {"INT", "TIME", "STR", "DATA"}])
       /\ class.capacity \in Nat /\ Len(class.objects) <= class.capacity
       /\ \A i, j \in DOMAIN class.objects :
            class.objects[i].tag = class.objects[j].tag => i = j
       /\ class.oid \in ((0 .. 255) \ {127}) \cup (127 * 256 .. 127 * 256 + 255)
  /\ \A type \in {"INT", "TIME"} : \A v \in AsnValues[type] : v \in Seq(0 .. 255) /\ Len(v) = 4
  /\ \A type \in {"STR", "DATA"} : AsnValues[type] \subseteq Seq(0 .. 255)

VARIABLES
  asn_pc,      \* "add", "encoded", "decode", or "read"
  asn_class,   \* the message
  asn_given,   \* what was added
  asn_store,   \* the objects of the store: [tag, type, blen, value]
  asn_buffer,  \* the bytes of the message
  asn_offset,  \* the position that decode has come to
  asn_read     \* the store that it fills

vars_asn == <<asn_pc, asn_class, asn_given, asn_store, asn_buffer, asn_offset, asn_read>>

AsnZero == <<0, 0, 0, 0>>
Empty == [INT |-> AsnZero, TIME |-> AsnZero, STR |-> <<>>, DATA |-> <<>>]

AsnInit ==
  /\ asn_pc = "add" /\ asn_class \in AsnClasses
  /\ asn_given = <<>> /\ asn_store = <<>> /\ asn_buffer = <<>> /\ asn_offset = 0 /\ asn_read = <<>>

\* The bytes of a number without the leading zeros; zero is one byte.
Significant(v) == SubSeq(v, CHOOSE k \in 1 .. 4 : /\ k = 4 \/ v[k] # 0
                                                 /\ \A i \in 1 .. k - 1 : v[i] = 0, 4)
\* "Determine length, considers padding for encoding later as well" (asn1.c:66), but
\* only a number of four bytes is counted with its padding.
blen(type, v) == CASE type = "TIME" -> 5
                   [] type = "STR" -> Len(v) + 1
                   [] type = "DATA" -> Len(v)
                   [] type = "INT" -> Len(Significant(v)) + IF v[1] > 127 THEN 1 ELSE 0

\* An object for which the store has no place is left out.
sec_hasp_asn1_object_add(v) ==
  LET k == Len(asn_given) + 1
      o == asn_class.objects[k]
  IN
  /\ asn_pc = "add" /\ k <= Len(asn_class.objects)
  /\ v \in AsnValues[o.type]
  /\ asn_given' = Append(asn_given, v)
  /\ asn_store' = IF Len(asn_store) = asn_class.capacity THEN asn_store
                  ELSE Append(asn_store, [tag |-> o.tag, type |-> o.type,
                                          blen |-> blen(o.type, v), value |-> v])
  /\ UNCHANGED <<asn_pc, asn_class, asn_buffer, asn_offset, asn_read>>

encode_tag(tag) == IF tag > 255 THEN <<tag \div 256, tag % 256>> ELSE <<tag>>
\* Mutation: a length of 256 is taken to fit in one byte.
encode_length_OneByte(n) == IF n <= 247 THEN <<n>>
                            ELSE IF n <= 256 THEN <<129, n % 256>>
                            ELSE <<130, n \div 256, n % 256>>
\* A length is below 2^16, for the bound of the code's own buffer.
encode_length(n) == IF n <= 247 THEN <<n>>
                    ELSE IF n <= 255 THEN <<129, n>>
                    ELSE <<130, n \div 256, n % 256>>
\* A zero is put before a number whose first byte looks negative.
encode_int(v) == LET s == Significant(v)
                 IN IF s[1] > 127 THEN <<0>> \o s ELSE s
Content(type, v) == CASE type = "TIME" -> <<0>> \o encode_int(v)
                      [] type = "INT" -> encode_int(v)
                      [] type = "STR" -> Append(v, 0)
                      [] type = "DATA" -> v

Payload ==
  LET object(o) == encode_tag(o.tag) \o encode_length(o.blen) \o Content(o.type, o.value)
  IN FlattenSeq([k \in DOMAIN asn_store |-> object(asn_store[k])])
\* Bound: the code's own buffer, behind which a longer message would be written.
BUFFER_TMP == 32768
sec_hasp_asn1_encode ==
  /\ asn_pc = "add" /\ Len(asn_given) = Len(asn_class.objects)
  /\ Len(Payload) <= BUFFER_TMP
  /\ asn_pc' = "encoded"
  /\ asn_buffer' = encode_tag(asn_class.oid) \o encode_length(Len(Payload)) \o Payload
  /\ UNCHANGED <<asn_class, asn_given, asn_store, asn_offset, asn_read>>

\* The n bytes from an offset on; the buffer goes on behind the message.
Taken(offset, n, after) ==
  [i \in 1 .. n |-> IF offset + i <= Len(asn_buffer) THEN asn_buffer[offset + i] ELSE after]
\* A field that was read: its value and the offset behind it.
Field(value, next) == [value |-> value, next |-> next]
decode_tag(offset, after) ==
  LET b == Taken(offset, 2, after)
  IN IF b[1] = 127 THEN Field(b[1] * 256 + b[2], offset + 2) ELSE Field(b[1], offset + 1)
\* A length of 129 or 130 that was written as one byte is taken for the mark.
decode_length(offset, after) ==
  LET b == Taken(offset, 3, after)
  IN CASE b[1] = 129 -> Field(b[2], offset + 2)
       [] b[1] = 130 -> Field(b[2] * 256 + b[3], offset + 3)
       [] OTHER -> Field(b[1], offset + 1)
\* No number is longer than five bytes: of any other length nothing is read.
decode_int(offset, n, after) ==
  LET b == Taken(offset, n, after)
  IN IF n \notin 1 .. 5 THEN Field(AsnZero, offset)
     ELSE Field(IF n = 5 THEN Tail(b) ELSE [i \in 1 .. 4 - n |-> 0] \o b, offset + n)
decode_value(type, offset, n, after) ==
  CASE type \in {"INT", "TIME"} -> decode_int(offset, n, after)
    [] type = "STR" -> Field(Taken(offset, n - 1, after), offset + n)
    [] type = "DATA" -> Field(Taken(offset, n, after), offset + n)

\* The reader's store: the tags without their values, and the head of the message.
sec_hasp_asn1_object_set(after) ==
  LET oid == decode_tag(0, after)
  IN
  /\ asn_pc = "encoded" /\ asn_pc' = "decode"
  /\ asn_read' = [k \in DOMAIN asn_class.objects |->
                   LET o == asn_class.objects[k]
                   IN [tag |-> o.tag, type |-> o.type, value |-> Empty[o.type]]]
  /\ asn_offset' = decode_length(oid.next, after).next
  /\ UNCHANGED <<asn_class, asn_given, asn_store, asn_buffer>>

\* One object; it ends at the end, at what is no tag, or at a tag it does not know.
sec_hasp_asn1_decode(after) ==
  LET tag == decode_tag(asn_offset, after)
      n == decode_length(tag.next, after)
      places == {k \in DOMAIN asn_read : asn_read[k].tag = tag.value}
      k == CHOOSE k \in places : TRUE
      v == decode_value(asn_read[k].type, n.next, n.value, after)
  IN
  /\ asn_pc = "decode"
  /\ IF asn_offset >= Len(asn_buffer) \/ tag.value \notin 128 .. 158 \/ places = {}
     THEN asn_pc' = "read" /\ UNCHANGED <<asn_offset, asn_read>>
     ELSE /\ asn_offset' = v.next
          /\ asn_read' = [asn_read EXCEPT ![k].value = v.value]
          /\ UNCHANGED asn_pc
  /\ UNCHANGED <<asn_class, asn_given, asn_store, asn_buffer>>

AsnNext ==
  \/ \E v \in UNION {AsnValues[type] : type \in DOMAIN AsnValues} : sec_hasp_asn1_object_add(v)
  \/ sec_hasp_asn1_encode
  \/ \E after \in AsnAfter : sec_hasp_asn1_object_set(after) \/ sec_hasp_asn1_decode(after)

AsnSpec == AsnInit /\ [][AsnNext]_vars_asn
-----------------------------------------------------------------------------
\* What the format can carry: numbers that need no padding unless they are four
\* bytes long, times until 2038, and contents whose length is not one of the
\* two marks.  (The same holds of the whole message.)
Carried(type, v) ==
  CASE type = "INT" -> v[1] > 127 \/ Significant(v)[1] <= 127
    [] type = "TIME" -> v[1] \in 1 .. 127
    [] type \in {"STR", "DATA"} -> blen(type, v) \notin {129, 130}

\* A message whose fields the format can carry is read as it was written,
\* however many of its objects are strings, times or data and however long: no
\* object shifts the ones behind it.
MessagesSurvive ==
  /\ asn_pc = "read"
  /\ Len(Payload) \notin {129, 130}
  /\ \A k \in DOMAIN asn_given : Carried(asn_class.objects[k].type, asn_given[k])
  => \A k \in DOMAIN asn_given : asn_read[k].value = asn_given[k]
=============================================================================
