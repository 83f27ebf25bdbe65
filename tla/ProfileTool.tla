------------------------------- MODULE ProfileTool -------------------------------
(***************************************************************************)
(* The tools on the files of a player: asset/{nx2,nxa,fex}/tool make,      *)
(* decrypt, encrypt and print the two files of a profile, the rank and the *)
(* save, and asset/nx/tool the settings of NX.  A file is a sequence of    *)
(* bytes: the part of the save that is never encrypted is one byte, the    *)
(* checksum two, one for each half of the sum, and what it sums two more.  *)
(* Saving a file may fail at each of its three calls, and the last one is  *)
(* not looked at.                                                          *)
(***************************************************************************)
EXTENDS Integers, Sequences, SequencesExt

CONSTANTS NoFile,
  XorByte(_, _),  \* the exclusive or of two bytes
  ProfileGames,   \* of "nx2", "nxa" and "fex"
  ProfileBytes,   \* bound: what a summed byte can be
  Leftovers       \* what memory can hold behind a short file

VARIABLES
  profile_game,
  profile,      \* the files, by kind and suffix, or NoFile
  taken,        \* by file, the game's file of which it is an unedited copy, or NoFile
  padded,       \* history: the files with bytes that memory held behind a shorter one
  tool_ret,     \* the result of the last command
  settings_file \* of NX: <<adler32, game part, bookkeeping_play_total>>, cut off, or NoFile

copies == <<taken, padded>>
vars_tool == <<profile_game, profile, copies, tool_ret, settings_file>>

Byte == 0 .. 255

\* A byte that is mixed twice with another is what it was.
ASSUME ToolAssumption ==
  /\ \A a, b \in Byte : XorByte(a, b) \in Byte /\ XorByte(XorByte(a, b), b) = a
  /\ ProfileBytes \subseteq Byte /\ Leftovers \subseteq Byte

Kinds == {"rank", "save"}
\* The suffix of a file; that of the game itself has none.
FileEnds == {"none", ".dec", ".dec.enc"}
FilesOf == Kinds \X FileEnds

ToolInit ==
  /\ profile_game \in ProfileGames
  /\ profile = [at \in FilesOf |-> NoFile]
  /\ taken = [at \in FilesOf |-> NoFile] /\ padded = {}
  /\ tool_ret = 0 /\ settings_file = NoFile

Mix(a) == ((a * 1234567) \div 256) % 256
\* Mutation: a byte is unmixed with the byte before it as it came out.
decrypt_Ascending(buf) ==
  LET plain[k \in DOMAIN buf] == IF k = 1 THEN buf[1]
                                 ELSE (XorByte(buf[k], plain[k - 1]) + Mix(k - 1)) % 256
  IN plain
\* From the end, with the byte before it as it is in the file.
decrypt(buf) ==
  [k \in DOMAIN buf |-> IF k = 1 THEN buf[1]
                         ELSE (XorByte(buf[k], buf[k - 1]) + Mix(k - 1)) % 256]
encrypt(buf) ==
  LET cipher[k \in DOMAIN buf] == IF k = 1 THEN buf[1]
                                  ELSE XorByte((buf[k] - Mix(k - 1)) % 256, cipher[k - 1])
  IN cipher

\* The review area of a save is skipped, but not in the one of fex.
Skipped(kind) == IF kind = "save" /\ profile_game # "fex" THEN 1 ELSE 0
Size(kind) == Skipped(kind) + 4
BehindReview(kind, bytes) == SubSeq(bytes, Skipped(kind) + 1, Len(bytes))
Review(kind, bytes) == SubSeq(bytes, 1, Skipped(kind))
DecryptedFile(kind, bytes) == Review(kind, bytes) \o decrypt(BehindReview(kind, bytes))
EncryptedFile(kind, bytes) == Review(kind, bytes) \o encrypt(BehindReview(kind, bytes))

\* The two halves of the sum, which start at 1 and 0.  In a half of one byte
\* the modulus is 251, the prime that is to 2^8 what 65521 is to 2^16.
MOD_ADLER == 251
util_adler32_calc(d) ==
  <<(1 + d[1] + d[2]) % MOD_ADLER, (2 + 2 * d[1] + d[2]) % MOD_ADLER>>
Whole(kind, d) == [i \in 1 .. Skipped(kind) |-> d[1]] \o util_adler32_calc(d) \o d
SavedByGame(kind) == {Whole(kind, d) : d \in ProfileBytes \X ProfileBytes}
\* A new profile is zeros, but for a name, and its sum; of fex it is what the
\* memory held, without a sum.
New(kind) == IF profile_game = "fex" THEN {[i \in 1 .. Size(kind) |-> b] : b \in Leftovers}
             ELSE {Whole(kind, <<0, 0>>)}

\* A file of another size is refused, except by fex: there it is cut off, or goes
\* on with what is behind it in memory.
LoadedBytes(kind, suffix, after) ==
  LET bytes == profile[<<kind, suffix>>]
      plain == IF suffix = ".dec" THEN bytes ELSE DecryptedFile(kind, bytes)
  IN CASE bytes = NoFile -> NoFile
       [] bytes # NoFile /\ bytes = <<>> -> NoFile
       [] bytes # NoFile /\ bytes # <<>> ->
            IF Len(bytes) = Size(kind) THEN plain
            ELSE IF profile_game # "fex" THEN NoFile
            ELSE [i \in 1 .. Size(kind) |-> IF i <= Len(bytes) THEN plain[i] ELSE after]

\* The ends of util_file_save: not opened, cut off by a write that fails, or by a
\* close that fails and is taken for success.
SaveEnds == [saved : {TRUE}, whole : {TRUE}, length : {0}]
            \cup [saved : {FALSE}, whole : {TRUE}, length : {-1}]
            \cup [saved : BOOLEAN, whole : {FALSE}, length : {0, 2}]
util_file_save(old, bytes, end) ==
  IF end.length = -1 THEN old ELSE IF end.whole THEN bytes ELSE SubSeq(bytes, 1, end.length)

\* Both files are saved; the result is the one of the last that failed.
SaveBoth(suffix, bytes, ends, results) ==
  /\ profile' = [at \in FilesOf |->
                   IF at[2] # suffix THEN profile[at]
                   ELSE util_file_save(profile[at], bytes[at[1]], ends[at[1]])]
  /\ tool_ret' = IF ~ends["save"].saved THEN results["save"]
                 ELSE IF ~ends["rank"].saved THEN results["rank"] ELSE 0
  /\ UNCHANGED <<profile_game, settings_file>>
\* Each file that is written is a copy of what "of" says, and comes, padded or not,
\* of the one with the other suffix.
Copies(suffix, from, of, ends) ==
  LET written == {at \in FilesOf : at[2] = suffix /\ ends[at[1]].length # -1}
  IN
  /\ taken' = [at \in FilesOf |-> IF at \in written THEN of[at[1]] ELSE taken[at]]
  /\ padded' = (padded \ written)
                 \cup {at \in written : \/ Len(profile[<<at[1], from>>]) # Size(at[1])
                                        \/ <<at[1], from>> \in padded}

CommandNew(bytes, ends) ==
  /\ \A kind \in Kinds : bytes[kind] \in New(kind)
  /\ SaveBoth("none", [kind \in Kinds |-> EncryptedFile(kind, bytes[kind])], ends,
              [rank |-> -2, save |-> -3])
  /\ UNCHANGED copies

\* The four other commands load both files first, a rank that is missing being
\* told before a save.
LoadFails(suffix, after) ==
  \/ /\ LoadedBytes("rank", suffix, after) = NoFile /\ tool_ret' = -4
  \/ /\ LoadedBytes("rank", suffix, after) # NoFile /\ LoadedBytes("save", suffix, after) = NoFile
     /\ tool_ret' = -5
Loads(suffix, after) == \A kind \in Kinds : LoadedBytes(kind, suffix, after) # NoFile
CommandFails(suffix, after) ==
  LoadFails(suffix, after) /\ UNCHANGED <<profile_game, profile, copies, settings_file>>
CommandDec(ends, after) ==
  /\ Loads("none", after)
  /\ SaveBoth(".dec", [kind \in Kinds |-> LoadedBytes(kind, "none", after)], ends,
              [rank |-> -6, save |-> -7])
  /\ Copies(".dec", "none", [kind \in Kinds |-> profile[<<kind, "none">>]], ends)
CommandEnc(ends, after) ==
  /\ Loads(".dec", after)
  /\ SaveBoth(".dec.enc",
              [kind \in Kinds |-> EncryptedFile(kind, LoadedBytes(kind, ".dec", after))], ends,
              [rank |-> -6, save |-> -7])
  /\ Copies(".dec.enc", ".dec", [kind \in Kinds |-> taken[<<kind, ".dec">>]], ends)
CommandDump(after) ==
  /\ Loads("none", after) /\ tool_ret' = 0
  /\ UNCHANGED <<profile_game, profile, copies, settings_file>>

\* Between the commands: the game saves the profile, and the player edits what
\* was decrypted, or puts what was encrypted back in place.
GameSaves(bytes) ==
  /\ \A kind \in Kinds : bytes[kind] \in SavedByGame(kind)
  /\ profile' = [at \in FilesOf |-> IF at[2] = "none" THEN EncryptedFile(at[1], bytes[at[1]])
                                    ELSE profile[at]]
  /\ UNCHANGED <<profile_game, copies, tool_ret, settings_file>>
PlayerEdits(kind, byte) ==
  /\ profile[<<kind, ".dec">>] # NoFile /\ profile[<<kind, ".dec">>] # <<>>
  /\ profile' = [profile EXCEPT ![<<kind, ".dec">>][Len(profile[<<kind, ".dec">>])] = byte]
  /\ taken' = [taken EXCEPT ![<<kind, ".dec">>] = NoFile]
  /\ UNCHANGED <<profile_game, padded, tool_ret, settings_file>>
PlayerPutsBack ==
  /\ \A kind \in Kinds : profile[<<kind, ".dec.enc">>] # NoFile
  /\ profile' = [at \in FilesOf |-> IF at[2] = "none" THEN profile[<<at[1], ".dec.enc">>]
                                    ELSE profile[at]]
  /\ UNCHANGED <<profile_game, copies, tool_ret, settings_file>>

(* The settings of NX. *)
SettingsSum(part) == 1 + part
Summed(part, total) == <<SettingsSum(part), part, total>>
asset_nx_settings_unlock(file) == Summed(file[2], 20000)
\* A file that cannot be loaded is reported, and then unlocked all the same.
SIGSEGV == -11
SettingsTo(file, end) ==
  /\ settings_file' = util_file_save(settings_file, file, end)
  /\ tool_ret' = IF end.saved THEN 0 ELSE -1
  /\ UNCHANGED <<profile_game, profile, copies>>
SettingsNew(end) == SettingsTo(Summed(0, 0), end)
SettingsUnlock(end) ==
  IF settings_file # NoFile /\ Len(settings_file) = 3
  THEN SettingsTo(asset_nx_settings_unlock(settings_file), end)
  ELSE tool_ret' = SIGSEGV /\ UNCHANGED <<profile_game, profile, copies, settings_file>>
\* The operator changes the settings in the game, which sums them as well.
OperatorSets(part, total) ==
  /\ settings_file' = Summed(part, total)
  /\ UNCHANGED <<profile_game, profile, copies, tool_ret>>

ToolNext ==
  \/ \E ends \in [Kinds -> SaveEnds] :
       \/ \E r \in New("rank"), s \in New("save") : CommandNew([rank |-> r, save |-> s], ends)
       \/ \E after \in Leftovers : CommandDec(ends, after) \/ CommandEnc(ends, after)
  \/ \E end \in SaveEnds : SettingsNew(end) \/ SettingsUnlock(end)
  \/ \E after \in Leftovers : \/ \E suffix \in {"none", ".dec"} : CommandFails(suffix, after)
                              \/ CommandDump(after)
  \/ \E r \in SavedByGame("rank"), s \in SavedByGame("save") :
       GameSaves([rank |-> r, save |-> s])
  \/ \E kind \in Kinds, byte \in Byte : PlayerEdits(kind, byte)
  \/ PlayerPutsBack
  \/ \E part, total \in Nat : OperatorSets(part, total)

ToolSpec == ToolInit /\ [][ToolNext]_vars_tool
-----------------------------------------------------------------------------
\* A profile that is decrypted and encrypted again without an edit is the game's
\* file byte for byte, or it is short, because a save was cut off: whichever of
\* the saves failed, whatever was decrypted before, and whatever the game saved
\* in between.  The tool of fex alone makes a whole file of one that a save cut
\* off, see WholeIsTheGames: that one it does not bring back.  Settings that have
\* their length have their checksum.
ProfilesSurvive ==
  /\ \A kind \in Kinds :
       LET encrypted == profile[<<kind, ".dec.enc">>]
           original == taken[<<kind, ".dec.enc">>]
       IN original # NoFile /\ Len(encrypted) = Size(kind) =>
            IF <<kind, ".dec.enc">> \in padded THEN profile_game = "fex" ELSE encrypted = original
  /\ settings_file # NoFile /\ Len(settings_file) = 3 =>
       settings_file[1] = SettingsSum(settings_file[2])

\* What the check of the size is for, in the tools of nx2 and nxa, and in a comment
\* in the one of fex: whatever the tool encrypts whole is the game's file, if that
\* was whole and was not edited.  Not of fex, where a save of the decrypted file that
\* was cut off and taken for a success is padded from memory.
WholeIsTheGames ==
  \A kind \in Kinds :
    LET encrypted == profile[<<kind, ".dec.enc">>]
        original == taken[<<kind, ".dec.enc">>]
    IN original # NoFile /\ Len(original) = Size(kind) /\ Len(encrypted) = Size(kind)
         => encrypted = original
=============================================================================
