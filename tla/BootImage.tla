----------------------------- MODULE BootImage -----------------------------
(***************************************************************************)
(* The executable format shared by the image generator (image_gen.c), the  *)
(* bootloader's loader (get_exe, get_exe_word) and its writer (save_exe).   *)
(* A word is four bytes; a byte has Radix values here, 256 in the code, and *)
(* every sum is taken modulo the number of words.                           *)
(***************************************************************************)
EXTENDS Integers, Sequences

CONSTANTS Radix, EXE_SIGNATURE

(* 16 keeps the words within the integers of the model checker. *)
ASSUME RadixAssumption == Radix \in {16, 256}

Bytes  == 0 .. Radix - 1
Erased == Radix - 1                      \* 0xFF
WordSize == Radix * Radix * Radix * Radix

(* 0x4788CAFE in the code. *)
ASSUME SignatureAssumption == EXE_SIGNATURE \in 0 .. WordSize - 1

(* The union of a uint32_t and four uint8_t, on a little-endian machine. *)
Place(i) == CASE i = 0 -> 1 [] i = 1 -> Radix [] i = 2 -> Radix * Radix [] OTHER -> Radix * Radix * Radix
uint8(w, i)    == (w \div Place(i)) % Radix
uint32(b)      == b[1] + b[2] * Radix + b[3] * (Radix * Radix) + b[4] * (Radix * Radix * Radix)
Neg(w)         == (WordSize - w) % WordSize     \* (~w) + 1

EXE_OFFSET_SIGNATURE == 0
EXE_OFFSET_SIZE      == 4
EXE_OFFSET_CHECKSUM  == 8
EXE_OFFSET_DATA      == 12

SumOf(words) ==
  LET sum[k \in 0 .. Len(words)] == IF k = 0 THEN 0 ELSE (words[k] + sum[k - 1]) % WordSize
  IN  sum[Len(words)]

(* The words of a raw file.  fread returns fewer than four bytes at its     *)
(* end and leaves the rest of the buffer as the word before it was.         *)
WordsOf(file) ==
  LET byte(k, i) == LET x == 4 * k + i
                    IN  IF x <= Len(file) THEN file[x] ELSE IF k = 0 THEN 0 ELSE file[x - 4]
  IN  [k \in 1 .. (Len(file) + 3) \div 4 |->
         uint32([i \in 1 .. 4 |-> byte(k - 1, i)])]

(* -app_bin: signature, size in bytes, sum complement, and the words. *)
app_bin(file) ==
  LET words == WordsOf(file)
      word(k) == CASE k = 0 -> EXE_SIGNATURE
                   [] k = 1 -> 4 * Len(words)
                   [] k = 2 -> Neg(SumOf(words))
                   [] OTHER -> words[k - 2]
  IN  [x \in 1 .. 4 * (Len(words) + 3) |-> uint8(word((x - 1) \div 4), (x - 1) % 4)]

-----------------------------------------------------------------------------
(* The image in a flash: every word is stored with its bytes swapped.       *)

FlashWord(mem, addr) == uint32([i \in 1 .. 4 |-> mem[addr + (3 - (i - 1))]])

(* The flash after a complete save of words over erased sectors.            *)
HoldsImage(mem, words) ==
  /\ FlashWord(mem, EXE_OFFSET_SIGNATURE) = EXE_SIGNATURE
  /\ FlashWord(mem, EXE_OFFSET_SIZE) = 4 * Len(words)
  /\ FlashWord(mem, EXE_OFFSET_CHECKSUM) = Neg(SumOf(words))
  /\ \A k \in DOMAIN words : FlashWord(mem, EXE_OFFSET_DATA + 4 * (k - 1)) = words[k]
=============================================================================
