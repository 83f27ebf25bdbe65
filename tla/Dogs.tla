---------------------------------- MODULE Dogs ----------------------------------
(***************************************************************************)
(* The dongles that sec/microdog34/microdog34.c and                        *)
(* sec/microdog40/microdog40.c stand in for, and what the game sends them. *)
(* The game masks its requests with keys that it sends along.  A word is a *)
(* number below DogModulus, and the dongle's memory has a few of them; the *)
(* bytes of a word are not told apart.  Next to the emulator's state is    *)
(* that of a dongle that knows neither masks nor tables: the memory, the   *)
(* password in force, and what was taught.                                 *)
(***************************************************************************)
EXTENDS Integers, Sequences, SequencesExt

CONSTANTS
  DogModulus,     \* 2^w for words of w bits
  XorWord(_, _),  \* the exclusive or of two words
  FlashWords,     \* words of the memory; the last one is the algorithm
  DogKeyFile,     \* the keys of the file
  MaxDogKeys,     \* bound: keys in the table
  DogRequests,    \* what the game means to ask a microdog 3.4
  Dog40Requests,  \* and a microdog 4.0
  DogMaskKeys, DogTimestamps

VARIABLES
  dog,          \* which of the dongles the game has
  dog_header,   \* the attributes: serial, password, vendor_id, mfg_serial, flash_memory
  dog_keys,     \* the key table, as a sequence of [response, algorithm, request]
  dog_share,
  dog_memory, dog_password, dog_taught  \* the dongle without masks and tables

dog_emulated == <<dog_header, dog_keys, dog_share>>
dog_ideal == <<dog_memory, dog_password, dog_taught>>
vars_dogs == <<dog, dog_emulated, dog_ideal>>

DogWords == 0 .. DogModulus - 1
DogKeys == [response : DogWords, algorithm : DogWords, request : Seq(DogWords)]

\* A mask that is applied twice is gone.
ASSUME XorAssumption ==
  /\ DogModulus \in Nat \ {0}
  /\ \A a, b \in DogWords : XorWord(a, b) \in DogWords /\ XorWord(XorWord(a, b), b) = a

\* The game names words of the memory, and sends the words that it announces.
ASSUME DogAssumption ==
  /\ FlashWords \in Nat \ {0}
  /\ DogMaskKeys \subseteq DogWords
  /\ DogKeyFile \in Seq(DogKeys)
  /\ \A req \in DogRequests :
       /\ req \in [opcode : STRING, dog_addr : DogWords, dog_bytes : DogWords,
                   dog_data : Seq(DogWords), dog_password : DogWords]
       /\ req.dog_bytes <= Len(req.dog_data)
       /\ req.dog_addr + req.dog_bytes <= FlashWords
  /\ Dog40Requests \subseteq [magic : DogWords, req_type : DogWords, payload_size : DogWords,
                              payload : Seq(DogWords)]
  /\ \A req \in Dog40Requests : req.payload_size <= Len(req.payload)

\* A function that has a value for one more element, unless it had one.
Extended(f, x, v) == [y \in DOMAIN f \cup {x} |-> IF y \in DOMAIN f THEN f[y] ELSE v]

GOLD_SALT == 3
MaskOf(mask_key) == (mask_key + GOLD_SALT) % DogModulus
XorAll(data, mask) == [i \in DOMAIN data |-> XorWord(data[i], mask)]

\* The first key of a sequence for an algorithm and a request answers it; 0 if
\* there is none.
FirstResponse(keys, algorithm, request) ==
  LET fits == {k \in DOMAIN keys : keys[k].algorithm = algorithm /\ keys[k].request = request}
  IN IF fits = {} THEN 0 ELSE keys[CHOOSE k \in fits : \A l \in fits : k <= l].response

\* The file of a game has all the keys that its header announces.
DogsInit ==
  /\ dog \in {"none", "microdog34", "microdog40"}
  /\ dog_header = [serial |-> 1, password |-> 1, vendor_id |-> <<1, 2>>, mfg_serial |-> 2,
                   flash_memory |-> [i \in 1 .. FlashWords |-> 0]]
  /\ dog_keys = DogKeyFile /\ dog_share = 0
  /\ dog_memory = dog_header.flash_memory /\ dog_password = dog_header.password
  /\ dog_taught = [at \in {<<key.algorithm, key.request>> : key \in ToSet(DogKeyFile)} |->
                     FirstResponse(DogKeyFile, at[1], at[2])]

----------------------------------------------------------------------------
(* Microdog 3.4 *)

\* What the game sends: opcode, serial and mask_key are not masked.
Masked(req, mask_key) ==
  [req EXCEPT !.dog_addr = XorWord(@, MaskOf(mask_key)),
              !.dog_bytes = XorWord(@, MaskOf(mask_key)),
              !.dog_data = XorAll(@, MaskOf(mask_key)),
              !.dog_password = XorWord(@, MaskOf(mask_key))]
\* Mutation: the password is taken as it comes.
sec_microdog34_crypt_req_NoPassword(req, mask_key) ==
  LET mask == MaskOf(mask_key)
  IN [req EXCEPT !.dog_addr = XorWord(@, mask), !.dog_bytes = XorWord(@, mask),
                 !.dog_data = XorAll(@, mask)]
sec_microdog34_crypt_req(req, mask_key) ==
  LET mask == MaskOf(mask_key)
  IN [req EXCEPT !.dog_addr = XorWord(@, mask), !.dog_bytes = XorWord(@, mask),
                 !.dog_data = XorAll(@, mask), !.dog_password = XorWord(@, mask)]
sec_microdog34_crypt_resp(data, mask_key) == XorAll(data, MaskOf(mask_key))

\* Mutation: the algorithm of a key is the first word.
CurrentAlgorithm_First(flash_memory) == flash_memory[1]
CurrentAlgorithm(flash_memory) == flash_memory[FlashWords]
Asked(req) == SubSeq(req.dog_data, 1, req.dog_bytes)
\* A response has as many words as a request; it starts as zeros.
Response(words, req) ==
  [i \in DOMAIN req.dog_data |-> IF i <= Len(words) THEN words[i] ELSE 0]

sec_microdog34_convert_req(req) ==
  FirstResponse(dog_keys, CurrentAlgorithm(dog_header.flash_memory), Asked(req))

Refuses(req) == /\ req.opcode \in {"READ_DOG", "WRITE_DOG", "SET_PASS"}
                /\ req.dog_password # dog_header.password

\* The answer: return_code and dog_data.
sec_microdog34_answer(req) ==
  [return_code |-> IF Refuses(req) THEN "ERR_PASS" ELSE "NO_ERR",
   dog_data |-> Response(
     CASE req.opcode = "READ_DOG" /\ ~Refuses(req) ->
            SubSeq(dog_header.flash_memory, req.dog_addr + 1, req.dog_addr + req.dog_bytes)
       [] req.opcode = "CONVERT" -> <<sec_microdog34_convert_req(req)>>
       [] req.opcode \in {"SET_SHARE", "DOG_CASCADE"} -> <<req.dog_data[1]>>
       [] req.opcode = "GET_LOCK_NO" -> <<dog_header.mfg_serial>>
       [] req.opcode = "LOGIN" -> dog_header.vendor_id
       [] OTHER -> <<>>, req)]

\* What the request leaves behind.
Overwritten(memory, req) ==
  [i \in DOMAIN memory |-> IF i - req.dog_addr \in 1 .. req.dog_bytes
                           THEN req.dog_data[i - req.dog_addr] ELSE memory[i]]
sec_microdog34_dispatch(req) ==
  /\ dog_header' =
       IF Refuses(req) THEN dog_header
       ELSE CASE req.opcode = "WRITE_DOG" ->
                [dog_header EXCEPT !.flash_memory = Overwritten(@, req)]
              [] req.opcode = "SET_PASS" -> [dog_header EXCEPT !.password = req.dog_data[1]]
              [] req.opcode = "DOG_SERIAL" -> [dog_header EXCEPT !.serial = req.dog_data[1]]
              [] req.opcode = "SET_MFG_SERIAL" -> [dog_header EXCEPT !.mfg_serial = req.dog_data[1]]
              [] req.opcode = "SET_VID" -> [dog_header EXCEPT !.vendor_id = req.dog_data]
              [] OTHER -> dog_header
  /\ dog_share' = IF req.opcode = "SET_SHARE" THEN req.dog_data[1] ELSE dog_share
  /\ dog_keys' = IF req.opcode # "RAINBOW_TABLE_ADD" THEN dog_keys
                 ELSE Append(dog_keys, [response |-> req.dog_password, request |-> Asked(req),
                                        algorithm |-> CurrentAlgorithm(dog_header.flash_memory)])

\* The dongle without masks: a request that was taught keeps its first answer.
Learns(req) ==
  LET at == <<dog_memory[FlashWords], Asked(req)>>
      allowed == req.dog_password = dog_password
  IN
  /\ dog_memory' = IF req.opcode = "WRITE_DOG" /\ allowed THEN Overwritten(dog_memory, req)
                   ELSE dog_memory
  /\ dog_password' = IF req.opcode = "SET_PASS" /\ allowed THEN req.dog_data[1] ELSE dog_password
  /\ dog_taught' = IF req.opcode = "RAINBOW_TABLE_ADD"
                   THEN Extended(dog_taught, at, req.dog_password) ELSE dog_taught

sec_microdog34_process(req, mask_key) ==
  /\ dog = "microdog34" /\ UNCHANGED dog
  /\ req.opcode = "RAINBOW_TABLE_ADD" => Len(dog_keys) < MaxDogKeys
  /\ sec_microdog34_dispatch(sec_microdog34_crypt_req(Masked(req, mask_key), mask_key))
  /\ Learns(req)

----------------------------------------------------------------------------
(* Microdog 4.0 *)

MonthKey(timestamp) == <<timestamp.year, timestamp.month>>
\* AES: what was written under a key is read under it, and garbage under another.
Encrypted(key, text) == [key |-> key, text |-> text]
Decrypted(key, cipher) == IF cipher.key = key THEN cipher.text ELSE "garbage"

\* The fields that each mask covers.
Covered1 == {"magic", "req_type"}
Covered2 == Covered1 \cup {"mask_key1"}
Covered3 == Covered2 \cup {"mask_key2", "payload_size"}
Covered4 == Covered3 \cup {"mask_key3", "payload"}
UnderMask(req, fields, mask) ==
  [f \in DOMAIN req |-> IF f \notin fields THEN req[f]
                        ELSE IF f = "payload" THEN XorAll(req[f], mask) ELSE XorWord(req[f], mask)]
\* What the game sends: each mask covers the one before it, and the time, from
\* which the key of the month is made, is under a key of its own.
Sent(req, timestamp) ==
  LET by1 == UnderMask(req, Covered1, req.mask_key1)
      by2 == UnderMask(by1, Covered2, req.mask_key2)
      by3 == UnderMask(by2, Covered3, req.mask_key3)
  IN [head |-> Encrypted(MonthKey(timestamp), UnderMask(by3, Covered4, req.mask_key4)),
      tail |-> Encrypted("shared_secret", timestamp)]
Stripped(req, fields, mask_key) == UnderMask(req, fields, req[mask_key])
\* Mutation: the payload stays under the fourth mask.
sec_microdog40_dec_req_NoPayload(sent) ==
  LET timestamp == Decrypted("shared_secret", sent.tail)
      masked == Decrypted(MonthKey(timestamp), sent.head)
      under3 == Stripped(masked, Covered4 \ {"payload"}, "mask_key4")
      under2 == Stripped(under3, Covered3, "mask_key3")
      under1 == Stripped(under2, Covered2, "mask_key2")
  IN Extended(Stripped(under1, Covered1, "mask_key1"), "timestamp", timestamp)
sec_microdog40_dec_req(sent) ==
  LET timestamp == Decrypted("shared_secret", sent.tail)
      masked == Decrypted(MonthKey(timestamp), sent.head)
      under3 == Stripped(masked, Covered4, "mask_key4")
      under2 == Stripped(under3, Covered3, "mask_key3")
      under1 == Stripped(under2, Covered2, "mask_key2")
  IN Extended(Stripped(under1, Covered1, "mask_key1"), "timestamp", timestamp)

\* The low four bits of the opcodes and of PROTOCOL_VERSION.
Opcode40 == [DOG_CHECK |-> 1, SET_SHARE |-> 8, GET_LOCK_NO |-> 11, GET_ID |-> 4, CONVERT |-> 0,
             AUTH_STEP_1 |-> 5, AUTH_STEP_2 |-> 7, AUTH_STEP_3 |-> 6]
PROTOCOL_VERSION == 17
sec_microdog40_convert_req(req) ==
  FirstResponse(dog_keys, CurrentAlgorithm(dog_header.flash_memory),
                SubSeq(req.payload, 1, req.payload_size))
\* The words of the response that are set.  The others, krnl_retval and the mask
\* keys are whatever the stack held.
sec_microdog40_answer(req) ==
  CASE req.req_type = Opcode40.GET_LOCK_NO -> <<dog_header.mfg_serial>>
    [] req.req_type = Opcode40.GET_ID -> dog_header.vendor_id
    [] req.req_type = Opcode40.CONVERT -> <<sec_microdog40_convert_req(req)>>
    [] req.req_type = Opcode40.AUTH_STEP_3 ->
         <<Encrypted(MonthKey(req.timestamp), req.payload)>>
    [] OTHER -> <<>>
\* The transaction as it is sent back: an opcode that is not known has no response.
Transaction(sent) ==
  LET req == sec_microdog40_dec_req(sent)
  IN IF \E op \in DOMAIN Opcode40 : req.req_type = Opcode40[op]
     THEN [header |-> 0, response |->
             Encrypted(MonthKey(req.timestamp),
                       [req_type |-> req.req_type, payload |-> sec_microdog40_answer(req)])]
     ELSE [header |-> 20023, response |-> "none"]
\* With another header it is not looked at, and not answered.
sec_microdog40_do_transaction(header, sent) ==
  /\ dog = "microdog40"
  /\ header = PROTOCOL_VERSION
  /\ LET req == sec_microdog40_dec_req(sent)
     IN dog_share' = IF req.req_type = Opcode40.SET_SHARE THEN req.payload[1] ELSE dog_share
  /\ UNCHANGED <<dog, dog_header, dog_keys, dog_ideal>>
WithMasks(req, masks) ==
  [magic |-> req.magic, req_type |-> req.req_type, payload_size |-> req.payload_size,
   payload |-> req.payload, mask_key1 |-> masks[1], mask_key2 |-> masks[2],
   mask_key3 |-> masks[3], mask_key4 |-> masks[4]]

DogsNext ==
  \/ \E req \in DogRequests, k \in DogMaskKeys : sec_microdog34_process(req, k)
  \/ \E header \in {0, PROTOCOL_VERSION}, req \in Dog40Requests,
        masks \in [1 .. 4 -> DogMaskKeys], t \in DogTimestamps :
       sec_microdog40_do_transaction(header, Sent(WithMasks(req, masks), t))
DogsSpec == DogsInit /\ [][DogsNext]_vars_dogs
-----------------------------------------------------------------------------
\* What a dongle that was taught answers.
Taught(request) ==
  LET at == <<dog_memory[FlashWords], request>>
  IN IF at \in DOMAIN dog_taught THEN dog_taught[at] ELSE 0
Meant(req) ==
  LET refuses == req.opcode \in {"READ_DOG", "WRITE_DOG", "SET_PASS"}
                 /\ req.dog_password # dog_password
  IN [return_code |-> IF refuses THEN "ERR_PASS" ELSE "NO_ERR",
      dog_data |-> Response(
        CASE req.opcode = "READ_DOG" /\ ~refuses ->
               [i \in 1 .. req.dog_bytes |-> dog_memory[req.dog_addr + i]]
          [] req.opcode = "CONVERT" -> <<Taught(Asked(req))>>
          [] OTHER -> <<>>, req)]

\* Whatever was written, under whatever password, and taught before, and
\* whatever masks the game chose: a read gives the words that were last written
\* by a request that knew the password in force, and a conversion gives the
\* first answer that was taught for the request while the last word of the
\* memory was what it is now, or else zero.
DogAnswersAsTaught ==
  /\ dog = "microdog34" =>
       \A req \in DogRequests, k \in DogMaskKeys :
         req.opcode \in {"READ_DOG", "WRITE_DOG", "SET_PASS", "CONVERT"} =>
           LET answer == sec_microdog34_answer(sec_microdog34_crypt_req(Masked(req, k), k))
               data == sec_microdog34_crypt_resp(answer.dog_data, k)
           IN Meant(req) = [answer EXCEPT !.dog_data = XorAll(data, MaskOf(k))]
  /\ dog = "microdog40" =>
       \A req \in Dog40Requests, masks \in [1 .. 4 -> DogMaskKeys], t \in DogTimestamps :
         req.req_type = Opcode40.CONVERT =>
           LET answer == Transaction(Sent(WithMasks(req, masks), t))
           IN /\ answer.header = 0
              /\ Decrypted(MonthKey(t), answer.response) =
                   [req_type |-> req.req_type,
                    payload |-> <<Taught(SubSeq(req.payload, 1, req.payload_size))>>]
=============================================================================
