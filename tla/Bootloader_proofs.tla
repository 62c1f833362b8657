------------------------- MODULE Bootloader_proofs -------------------------
(***************************************************************************)
(* The bootloader, for every set of files, every size of the memories, the  *)
(* sectors and the receive FIFO, and every number of resets, power failures *)
(* and lost bytes.                                                          *)
(***************************************************************************)
EXTENDS Bootloader, SequenceTheorems, WellFoundedInduction, TLAPS

Word == 0 .. WordSize - 1

-----------------------------------------------------------------------------
(* Bytes and words. *)

LEMMA ByteOfWord ==
  ASSUME NEW w \in Int, NEW i
  PROVE  uint8(w, i) \in Bytes
<1>1. Place(i) \in {1, Radix, Radix * Radix, Radix * Radix * Radix}
  BY DEF Place
<1>2. CASE Radix = 16
  <2>1. Place(i) \in {1, 16, 256, 4096}
    BY <1>1, <1>2
  <2>2. (w \div 1) % 16 \in 0 .. 15 /\ (w \div 16) % 16 \in 0 .. 15
        /\ (w \div 256) % 16 \in 0 .. 15 /\ (w \div 4096) % 16 \in 0 .. 15
    OBVIOUS
  <2> QED  BY <2>1, <2>2, <1>2 DEF uint8, Bytes
<1>3. CASE Radix = 256
  <2>1. Place(i) \in {1, 256, 65536, 16777216}
    BY <1>1, <1>3, SMT
  <2>2. (w \div 1) % 256 \in 0 .. 255 /\ (w \div 256) % 256 \in 0 .. 255
        /\ (w \div 65536) % 256 \in 0 .. 255 /\ (w \div 16777216) % 256 \in 0 .. 255
    BY SMT
  <2> QED  BY <2>1, <2>2, <1>3, SMT DEF uint8, Bytes
<1> QED  BY <1>2, <1>3, RadixAssumption DEF RadixAssumption

LEMMA Powers ==
  /\ Radix = 16 => /\ Radix * Radix = 256 /\ Radix * Radix * Radix = 4096 /\ WordSize = 65536
                   /\ Radix \in Int
  /\ Radix = 256 => /\ Radix * Radix = 65536 /\ Radix * Radix * Radix = 16777216
                    /\ WordSize = 4294967296 /\ Radix \in Int
  BY SMT DEF WordSize

LEMMA WordOfBytes ==
  ASSUME NEW b, \A i \in 1 .. 4 : b[i] \in Bytes
  PROVE  uint32(b) \in Word
<1> DEFINE w == b[1]  x == b[2]  y == b[3]  z == b[4]
<1>1. w \in Bytes /\ x \in Bytes /\ y \in Bytes /\ z \in Bytes
  BY SMT
<1>2. uint32(b) = w + x * Radix + y * (Radix * Radix) + z * (Radix * Radix * Radix)
  BY SMT DEF uint32
<1> HIDE DEF w, x, y, z
<1>3. CASE Radix = 16
  <2>1. uint32(b) = w + x * 16 + y * 256 + z * 4096
    BY <1>2, <1>3, Powers, SMT
  <2>2. w \in 0 .. 15 /\ x \in 0 .. 15 /\ y \in 0 .. 15 /\ z \in 0 .. 15
    BY <1>1, <1>3, SMT DEF Bytes
  <2>3. /\ uint32(b) \in Int /\ uint32(b) >= 0 /\ uint32(b) <= 65535
    BY <2>1, <2>2, SMT
  <2> QED  BY <2>3, <1>3, Powers, SMT DEF Word
<1>4. CASE Radix = 256
  <2>1. uint32(b) = w + x * 256 + y * 65536 + z * 16777216
    BY <1>2, <1>4, Powers, SMT
  <2>2. w \in 0 .. 255 /\ x \in 0 .. 255 /\ y \in 0 .. 255 /\ z \in 0 .. 255
    BY <1>1, <1>4, SMT DEF Bytes
  <2>3. /\ uint32(b) \in Int /\ uint32(b) >= 0 /\ uint32(b) <= 4294967295
    BY <2>1, <2>2, SMT
  <2> QED  BY <2>3, <1>4, Powers, SMT DEF Word
<1> QED  BY <1>3, <1>4, RadixAssumption, SMT DEF RadixAssumption

LEMMA RoundTrip ==
  ASSUME NEW w \in Word
  PROVE  uint8(w, 0) + uint8(w, 1) * Radix + uint8(w, 2) * (Radix * Radix)
           + uint8(w, 3) * (Radix * Radix * Radix) = w
<1>1. Place(0) = 1 /\ Place(1) = Radix /\ Place(2) = Radix * Radix /\ Place(3) = Radix * Radix * Radix
  BY SMT DEF Place
<1>2. CASE Radix = 16
  <2>1. w \in Int /\ w >= 0 /\ w <= 65535
    BY <1>2, Powers, SMT DEF Word
  <2>2. /\ uint8(w, 0) = (w \div 1) % 16 /\ uint8(w, 1) = (w \div 16) % 16
        /\ uint8(w, 2) = (w \div 256) % 16 /\ uint8(w, 3) = (w \div 4096) % 16
    BY <1>1, <1>2, Powers, SMT DEF uint8
  <2>3. ((w \div 1) % 16) + ((w \div 16) % 16) * 16 + ((w \div 256) % 16) * 256
          + ((w \div 4096) % 16) * 4096 = w
    BY <2>1, SMT
  <2> QED  BY <2>2, <2>3, <1>2, Powers, SMT
<1>3. CASE Radix = 256
  <2>1. w \in Int /\ w >= 0 /\ w <= 4294967295
    BY <1>3, Powers, SMT DEF Word
  <2>2. /\ uint8(w, 0) = (w \div 1) % 256 /\ uint8(w, 1) = (w \div 256) % 256
        /\ uint8(w, 2) = (w \div 65536) % 256 /\ uint8(w, 3) = (w \div 16777216) % 256
    BY <1>1, <1>3, Powers, SMT DEF uint8
  <2>3. ((w \div 1) % 256) + ((w \div 256) % 256) * 256 + ((w \div 65536) % 256) * 65536
          + ((w \div 16777216) % 256) * 16777216 = w
    BY <2>1, SMT
  <2> QED  BY <2>2, <2>3, <1>3, Powers, SMT
<1> QED  BY <1>2, <1>3, RadixAssumption, SMT DEF RadixAssumption

LEMMA SizeOfWord == WordSize \in Nat \ {0}
  BY RadixAssumption, Powers, SMT DEF RadixAssumption

LEMMA NegWord == \A w \in Word : Neg(w) \in Word
  BY SizeOfWord DEF Neg, Word

LEMMA AndByte ==
  ASSUME NEW a \in Bytes, NEW b \in Bytes
  PROVE  And(a, b) \in Bytes /\ And(Erased, b) = b
<1> DEFINE bit(x, p) == (x \div p) % 2
           both(x, p) == IF bit(x, p) = 1 /\ bit(b, p) = 1 THEN p ELSE 0
<1>1. \A x : And(x, b) = both(x, 1) + both(x, 2) + both(x, 4) + both(x, 8)
                         + both(x, 16) + both(x, 32) + both(x, 64) + both(x, 128)
  BY SMT DEF And
<1>2. \A x, p : both(x, p) \in {0, p}
  OBVIOUS
<1>3. a \in 0 .. 255 /\ b \in 0 .. 255
  BY RadixAssumption, SMT DEF RadixAssumption, Bytes
<1>4. bit(b, 1) + 2 * bit(b, 2) + 4 * bit(b, 4) + 8 * bit(b, 8) + 16 * bit(b, 16)
        + 32 * bit(b, 32) + 64 * bit(b, 64) + 128 * bit(b, 128) = b
  BY <1>3, SMT
<1>5. \A p \in {1, 2, 4, 8, 16, 32, 64, 128} : bit(b, p) \in {0, 1} /\ bit(255, p) = 1
  BY <1>3, SMT
<1>6. CASE Radix = 16
  <2>1. a \in 0 .. 15 /\ b \in 0 .. 15 /\ Erased = 15
    BY <1>6, SMT DEF Bytes, Erased
  <2>2. both(a, 16) = 0 /\ both(a, 32) = 0 /\ both(a, 64) = 0 /\ both(a, 128) = 0
    BY <2>1, SMT
  <2>3. both(15, 16) = 0 /\ both(15, 32) = 0 /\ both(15, 64) = 0 /\ both(15, 128) = 0
    BY SMT
  <2>4. /\ bit(15, 1) = 1 /\ bit(15, 2) = 1 /\ bit(15, 4) = 1 /\ bit(15, 8) = 1
        /\ bit(b, 16) = 0 /\ bit(b, 32) = 0 /\ bit(b, 64) = 0 /\ bit(b, 128) = 0
    BY <2>1, SMT
  <2>5. /\ both(15, 1) = bit(b, 1) /\ both(15, 2) = 2 * bit(b, 2)
        /\ both(15, 4) = 4 * bit(b, 4) /\ both(15, 8) = 8 * bit(b, 8)
    BY <2>4, <1>5, SMT
  <2> HIDE DEF both, bit
  <2>6. And(15, b) = b
    BY <1>1, <1>4, <2>3, <2>4, <2>5, <1>5, SMT
  <2>7. And(a, b) \in 0 .. 15
    BY <1>1, <1>2, <2>2, SMT
  <2> QED  BY <1>6, <2>1, <2>6, <2>7, SMT DEF Bytes
<1>7. CASE Radix = 256
  <2>1. Erased = 255
    BY <1>7, SMT DEF Erased
  <2>2. /\ both(255, 1) = bit(b, 1) /\ both(255, 2) = 2 * bit(b, 2)
        /\ both(255, 4) = 4 * bit(b, 4) /\ both(255, 8) = 8 * bit(b, 8)
        /\ both(255, 16) = 16 * bit(b, 16) /\ both(255, 32) = 32 * bit(b, 32)
        /\ both(255, 64) = 64 * bit(b, 64) /\ both(255, 128) = 128 * bit(b, 128)
    BY <1>5, SMT
  <2> HIDE DEF both, bit
  <2>3. And(255, b) = b
    BY <1>1, <1>4, <2>2, SMT
  <2>4. And(a, b) \in 0 .. 255
    BY <1>1, <1>2, SMT
  <2> QED  BY <1>7, <2>1, <2>3, <2>4, SMT DEF Bytes
<1> QED  BY <1>6, <1>7, RadixAssumption, SMT DEF RadixAssumption

-----------------------------------------------------------------------------
(* The checksum.  Its recursive function exists, by the least length for    *)
(* which there would be none.                                               *)

Sums(words, n) ==
  {g \in [0 .. n -> Word] :
     \A k \in 0 .. n : g[k] = IF k = 0 THEN 0 ELSE (words[k] + g[k - 1]) % WordSize}

LEMMA SumsExist ==
  ASSUME NEW words \in Seq(Word), NEW n \in 0 .. Len(words)
  PROVE  Sums(words, n) # {}
<1> DEFINE bad == {k \in Nat : k <= Len(words) /\ Sums(words, k) = {}}
<1> SUFFICES ASSUME bad # {}
             PROVE  FALSE
  BY SMT
<1>1. PICK m \in bad : \A j \in bad : <<j, m>> \notin OpToRel(<, Nat)
  BY WFMin, NatLessThanWellFounded
<1>2. \A j \in bad : ~(j < m)
  BY <1>1, Zenon DEF OpToRel
<1>3. CASE m = 0
  <2>1. 0 \in Word
    BY SizeOfWord, SMT DEF Word
  <2>2. [k \in 0 .. 0 |-> 0] \in Sums(words, 0)
    BY <2>1, SMT DEF Sums
  <2> QED  BY <2>2, <1>3
<1>4. CASE m # 0
  <2>1. m - 1 \in Nat /\ m - 1 <= Len(words) /\ m - 1 < m
    BY <1>4, SMT
  <2>2. Sums(words, m - 1) # {}
    BY <2>1, <1>2
  <2>3. PICK g : g \in Sums(words, m - 1)
    BY <2>2
  <2> DEFINE d == (words[m] + g[m - 1]) % WordSize
             h == [k \in 0 .. m |-> IF k = m THEN d ELSE g[k]]
  <2>4. g \in [0 .. m - 1 -> Word] /\ words[m] \in Word
    BY <2>3, <1>4, SMT DEF Sums
  <2>5. d \in Word
    BY <2>4, <1>4, SizeOfWord, SMT DEF Word
  <2>6. \A k \in 0 .. m - 1 : g[k] = IF k = 0 THEN 0 ELSE (words[k] + g[k - 1]) % WordSize
    BY <2>3, SMT DEF Sums
  <2> HIDE DEF d
  <2>7. h \in [0 .. m -> Word]
    BY <2>4, <2>5, SMT
  <2>8. \A k \in 0 .. m : h[k] = IF k = 0 THEN 0 ELSE (words[k] + h[k - 1]) % WordSize
    <3> SUFFICES ASSUME NEW k \in 0 .. m
                 PROVE  h[k] = IF k = 0 THEN 0 ELSE (words[k] + h[k - 1]) % WordSize
      OBVIOUS
    <3>1. CASE k = m
      BY <3>1, <1>4, SMT DEF d
    <3>2. CASE k # m
      BY <3>2, <2>6, SMT
    <3> QED  BY <3>1, <3>2
  <2>9. h \in Sums(words, m)
    BY <2>7, <2>8 DEF Sums
  <2> QED  BY <2>9
<1> QED  BY <1>3, <1>4

LEMMA SumFunctionExists ==
  ASSUME NEW words \in Seq(Word)
  PROVE  \E s \in Sums(words, Len(words)) : SumOf(words) = s[Len(words)]
<1> DEFINE n == Len(words)
           is(g) == g = [k \in 0 .. n |-> IF k = 0 THEN 0 ELSE (words[k] + g[k - 1]) % WordSize]
           sum[k \in 0 .. n] == IF k = 0 THEN 0 ELSE (words[k] + sum[k - 1]) % WordSize
           bad == {k \in Nat : k <= n /\ sum[k] \notin Word}
<1>1. n \in Nat /\ n \in 0 .. Len(words)
  OBVIOUS
<1>2. PICK g : g \in Sums(words, n)
  BY <1>1, SumsExist
<1>3. is(g)
  BY <1>2 DEF Sums
<1>4. sum = [k \in 0 .. n |-> IF k = 0 THEN 0 ELSE (words[k] + sum[k - 1]) % WordSize]
  BY <1>3
<1>5. SumOf(words) = sum[n]
  BY DEF SumOf
<1> HIDE DEF sum
<1>6. ASSUME bad # {}
      PROVE  FALSE
  <2>1. PICK m \in bad : \A j \in bad : <<j, m>> \notin OpToRel(<, Nat)
    BY <1>6, WFMin, NatLessThanWellFounded
  <2>2. \A j \in bad : ~(j < m)
    BY <2>1, Zenon DEF OpToRel
  <2>3. CASE m = 0
    BY <1>1, <1>4, <2>3, SizeOfWord, SMT DEF Word
  <2>4. CASE m # 0
    <3>1. m - 1 \in Nat /\ m - 1 <= n /\ m - 1 < m
      BY <1>1, <2>4, SMT
    <3>2. sum[m - 1] \in Word /\ words[m] \in Word
      BY <3>1, <2>2, <2>4, SMT
    <3>3. sum[m] = (words[m] + sum[m - 1]) % WordSize
      BY <1>1, <1>4, <2>4, SMT
    <3> QED  BY <3>2, <3>3, SizeOfWord, SMT DEF Word
  <2> QED  BY <2>3, <2>4
<1>7. \A k \in 0 .. n : sum[k] \in Word
  BY <1>1, <1>6, SMT
<1>8. sum \in Sums(words, n)
  BY <1>4, <1>7 DEF Sums
<1> QED  BY <1>5, <1>8

LEMMA SumWord == \A words \in Seq(Word) : SumOf(words) \in Word
<1> SUFFICES ASSUME NEW words \in Seq(Word)
             PROVE  SumOf(words) \in Word
  OBVIOUS
<1>1. PICK s \in Sums(words, Len(words)) : SumOf(words) = s[Len(words)]
  BY SumFunctionExists
<1>2. Len(words) \in 0 .. Len(words)
  OBVIOUS
<1> QED  BY <1>1, <1>2 DEF Sums

(* The sum of a longer program goes on from that of its beginning.          *)
LEMMA SumOfNext ==
  ASSUME NEW words \in Seq(Word), NEW more \in Seq(Word), Len(more) = Len(words) + 1,
         \A k \in 1 .. Len(words) : more[k] = words[k]
  PROVE  SumOf(more) = (more[Len(more)] + SumOf(words)) % WordSize
<1> DEFINE n == Len(words)
<1>1. n \in Nat /\ Len(more) = n + 1
  OBVIOUS
<1>2. PICK s \in Sums(words, n) : SumOf(words) = s[n]
  BY SumFunctionExists
<1>3. PICK t \in Sums(more, n + 1) : SumOf(more) = t[n + 1]
  BY <1>1, SumFunctionExists
<1> DEFINE bad == {k \in Nat : k <= n /\ s[k] # t[k]}
<1>4. \A k \in 0 .. n : s[k] = IF k = 0 THEN 0 ELSE (words[k] + s[k - 1]) % WordSize
  BY <1>2, SMT DEF Sums
<1>5. \A k \in 0 .. n + 1 : t[k] = IF k = 0 THEN 0 ELSE (more[k] + t[k - 1]) % WordSize
  BY <1>3, SMT DEF Sums
<1>6. ASSUME bad # {}
      PROVE  FALSE
  <2>1. PICK m \in bad : \A j \in bad : <<j, m>> \notin OpToRel(<, Nat)
    BY <1>6, WFMin, NatLessThanWellFounded
  <2>2. \A j \in bad : ~(j < m)
    BY <2>1, Zenon DEF OpToRel
  <2>3. CASE m = 0
    BY <1>1, <1>4, <1>5, <2>3, SMT
  <2>4. CASE m # 0
    <3>1. m - 1 \in Nat /\ m - 1 <= n /\ m - 1 < m /\ m \in 0 .. n /\ m \in 0 .. n + 1 /\ m \in 1 .. n
      BY <1>1, <2>4, SMT
    <3>2. s[m - 1] = t[m - 1] /\ more[m] = words[m]
      BY <2>2, <3>1
    <3> QED  BY <1>4, <1>5, <2>4, <3>1, <3>2
  <2> QED  BY <2>3, <2>4
<1>7. s[n] = t[n]
  BY <1>1, <1>6
<1>8. n + 1 \in 0 .. n + 1 /\ n + 1 # 0 /\ (n + 1) - 1 = n
  BY <1>1, SMT
<1>9. t[n + 1] = (more[n + 1] + t[n]) % WordSize
  BY <1>5, <1>8
<1> QED  BY <1>1, <1>2, <1>3, <1>7, <1>9

LEMMA SumOfNone == SumOf(<<>>) = 0
<1>1. <<>> \in Seq(Word) /\ Len(<<>>) = 0
  OBVIOUS
<1>2. PICK s \in Sums(<<>>, 0) : SumOf(<<>>) = s[0]
  BY <1>1, SumFunctionExists
<1> QED  BY <1>2, SMT DEF Sums

-----------------------------------------------------------------------------
(* The executable. *)

LEMMA WordsOfFile ==
  ASSUME NEW file \in Seq(Bytes)
  PROVE  WordsOf(file) \in Seq(Word)
<1> DEFINE byte(k, i) ==
             LET x == 4 * k + i
             IN  IF x <= Len(file) THEN file[x] ELSE IF k = 0 THEN 0 ELSE file[x - 4]
           n == (Len(file) + 3) \div 4
           word(k) == uint32([i \in 1 .. 4 |-> byte(k - 1, i)])
<1>1. n \in Nat /\ 4 * n <= Len(file) + 3
  BY SMT
<1>2. 0 \in Bytes
  BY RadixAssumption, SMT DEF RadixAssumption, Bytes
<1>3. \A x \in 1 .. Len(file) : file[x] \in Bytes
  BY SMT
<1>4. \A k \in 1 .. n, i \in 1 .. 4 : byte(k - 1, i) \in Bytes
  BY <1>1, <1>2, <1>3, SMT
<1> HIDE DEF byte
<1>5. \A k \in 1 .. n : word(k) \in Word
  <2> SUFFICES ASSUME NEW k \in 1 .. n
               PROVE  word(k) \in Word
    OBVIOUS
  <2> DEFINE b == [i \in 1 .. 4 |-> byte(k - 1, i)]
  <2>1. \A i \in 1 .. 4 : b[i] \in Bytes
    BY <1>4
  <2> QED  BY <2>1, WordOfBytes
<1>6. WordsOf(file) = [k \in 1 .. n |-> word(k)]
  BY DEF WordsOf, byte
<1> HIDE DEF word, n
<1> QED  BY <1>1, <1>5, <1>6

LEMMA AppBin ==
  ASSUME NEW file \in Seq(Bytes)
  PROVE  app_bin(file) \in Seq(Bytes) /\ \E k \in Nat : Len(app_bin(file)) = 4 * k
<1> DEFINE words == WordsOf(file)
           word(k) == CASE k = 0 -> EXE_SIGNATURE
                        [] k = 1 -> 4 * Len(words)
                        [] k = 2 -> Neg(SumOf(words))
                        [] OTHER -> words[k - 2]
           n == 4 * (Len(words) + 3)
           byte(x) == uint8(word((x - 1) \div 4), (x - 1) % 4)
<1>1. words \in Seq(Word)
  BY WordsOfFile
<1>2. app_bin(file) = [x \in 1 .. n |-> byte(x)]
  BY DEF app_bin
<1> HIDE DEF words
<1>3. n \in Nat /\ Len(words) \in Nat
  BY <1>1, SMT
<1>4. SumOf(words) \in Word
  BY <1>1, SumWord
<1>5. Neg(SumOf(words)) \in Int /\ EXE_SIGNATURE \in Int /\ 4 * Len(words) \in Int
  BY <1>3, <1>4, NegWord, SizeOfWord, SignatureAssumption, SMT DEF Word, SignatureAssumption
<1>6. \A k \in 0 .. Len(words) + 2 : word(k) \in Int
  <2> SUFFICES ASSUME NEW k \in 0 .. Len(words) + 2
               PROVE  word(k) \in Int
    OBVIOUS
  <2>1. CASE k \in {0, 1, 2}
    BY <2>1, <1>5
  <2>2. CASE k \notin {0, 1, 2}
    <3>1. k - 2 \in 1 .. Len(words)
      BY <2>2, <1>3, SMT
    <3>2. words[k - 2] \in Word
      BY <3>1, <1>1
    <3>3. word(k) = words[k - 2]
      BY <2>2
    <3> QED  BY <3>2, <3>3, SizeOfWord, SMT DEF Word
  <2> QED  BY <2>1, <2>2
<1> HIDE DEF word
<1>7. \A x \in 1 .. n : byte(x) \in Bytes
  <2> SUFFICES ASSUME NEW x \in 1 .. n
               PROVE  byte(x) \in Bytes
    OBVIOUS
  <2> DEFINE k == (x - 1) \div 4
  <2>1. k \in 0 .. Len(words) + 2
    BY <1>3, SMT
  <2> HIDE DEF k
  <2>2. word(k) \in Int
    BY <2>1, <1>6
  <2> QED  BY <2>2, ByteOfWord DEF k
<1> HIDE DEF byte
<1>8. app_bin(file) \in Seq(Bytes) /\ Len(app_bin(file)) = n
  BY <1>2, <1>3, <1>7
<1>9. Len(words) + 3 \in Nat
  BY <1>3
<1> QED  BY <1>8, <1>9

-----------------------------------------------------------------------------
(* Types. *)

USE FilesAssumption, KeysAssumption, ImemAssumption, SectorAssumption, RxAssumption, FlashAssumption
    DEF FilesAssumption, KeysAssumption, ImemAssumption, SectorAssumption, RxAssumption,
        FlashAssumption, EXE_OFFSET_DATA

Cells == [0 .. FlashBytes - 1 -> Bytes]
Ops   == [op : {"none", "erase", "program"}, addr : 0 .. FlashBytes - 1, data : Bytes]
Gets  == [field : 0 .. 3, bytes : Seq(Bytes), size : Word, check : Word, sum : Word, i : 0 .. ImemWords]
Saves == [sectors : Nat, sector : Nat, word : Nat, byte : 0 .. 3]
Hosts == [todo : Seq(Bytes), keys : Nat, uploads : Nat, lost : Nat, resets : Nat]

Commands == {"none", "auto", "upload", "load", "store"}

MemoryType ==
  /\ exe_available \in Word /\ SaveWords <= ImemWords
  /\ imem \in [0 .. ImemWords - 1 -> Word]
GetType   == get \in Gets /\ Len(get.bytes) <= 4
FlashType == flash \in [mem : Cells, wel : BOOLEAN, op : Ops]
LineType  == rx \in Seq(Bytes) /\ Len(rx) <= RxDepth /\ host \in Hosts
ControlType ==
  /\ pc \in Labels /\ cmd \in Commands
  /\ getting_exe \in BOOLEAN /\ irqs \in BOOLEAN /\ led \in BOOLEAN
  /\ Len(started) \in {0, ImemWords}

Types == ControlType /\ MemoryType /\ GetType /\ save \in Saves /\ FlashType /\ LineType

LEMMA Zeros ==
  /\ 0 \in Bytes /\ Erased \in Bytes /\ 0 \in Word /\ Idle \in Ops
  /\ NoGet \in Gets /\ Len(NoGet.bytes) = 0 /\ NoSave \in Saves /\ Len(None) = 0
<1>1. 0 \in Bytes /\ Erased \in Bytes
  BY RadixAssumption, SMT DEF RadixAssumption, Bytes, Erased
<1>2. 0 \in Word
  BY SizeOfWord, SMT DEF Word
<1>3. Idle \in Ops
  BY <1>1, SMT DEF Idle, Ops
<1>4. NoGet \in Gets /\ Len(NoGet.bytes) = 0
  BY <1>1, <1>2, SMT DEF NoGet, Gets
<1>5. NoSave \in Saves
  BY SMT DEF NoSave, Saves
<1> QED  BY <1>1, <1>2, <1>3, <1>4, <1>5 DEF None

(* What is read from the flash is a word, and so is what was received.      *)
LEMMA ReadWord ==
  ASSUME Types, NEW a \in Nat, a + 3 < FlashBytes, cmd = "upload" => Len(get.bytes) = 4
  PROVE  get_exe_word(a) \in Word
<1>1. CASE cmd = "upload"
  <2>1. \A i \in 1 .. 4 : get.bytes[i] \in Bytes
    BY <1>1 DEF Types, GetType, Gets
  <2> QED  BY <1>1, <2>1, WordOfBytes DEF get_exe_word
<1>2. CASE cmd # "upload" /\ flash.op # Idle
  BY <1>2, SizeOfWord, SMT DEF get_exe_word, Word
<1>3. CASE cmd # "upload" /\ flash.op = Idle
  <2> DEFINE b == [i \in 1 .. 4 |-> flash.mem[a + (3 - (i - 1))]]
  <2>1. \A i \in 1 .. 4 : b[i] \in Bytes
    BY SMT DEF Types, FlashType, Cells
  <2>2. uint32(b) \in Word
    BY <2>1, WordOfBytes
  <2> QED  BY <1>3, <2>2 DEF get_exe_word, FlashWord
<1> QED  BY <1>1, <1>2, <1>3

(* The data and the place of every word that is saved.                      *)
LEMMA WordsSaved ==
  ASSUME Types
  PROVE  /\ SaveWords \in Nat /\ 4 * SaveWords <= exe_available
         /\ SaveWord(0).addr = 0 /\ SaveWord(1).addr = 4
         /\ \A n \in 2 .. SaveWords + 1 : SaveWord(n).addr = 12 + 4 * (n - 2)
         /\ SaveWord(SaveWords + 2).addr = 8
         /\ \A n \in 0 .. SaveWords + 2 : SaveWord(n).data \in Word
<1>1. SaveWords \in Nat /\ 4 * SaveWords <= exe_available
  BY SizeOfWord, SMT DEF Types, MemoryType, SaveWords, Word
<1>2. SaveWord(0).addr = 0 /\ SaveWord(1).addr = 4
  BY DEF SaveWord, EXE_OFFSET_SIGNATURE, EXE_OFFSET_SIZE
<1>3. \A n \in 2 .. SaveWords + 1 : n # 0 /\ n # 1
  BY <1>1, SMT
<1>4. SaveWords + 2 # 0 /\ SaveWords + 2 # 1 /\ SaveWords + 2 \notin 2 .. SaveWords + 1
  BY <1>1, SMT
<1>5. \A n \in 2 .. SaveWords + 1 :
        /\ SaveWord(n).addr = 12 + 4 * (n - 2) /\ SaveWord(n).data = imem[n - 2]
  BY <1>3 DEF SaveWord
<1> DEFINE words == [k \in 1 .. SaveWords |-> imem[k - 1]]
<1>6. /\ SaveWord(SaveWords + 2).addr = 8
      /\ SaveWord(SaveWords + 2).data = Neg(SumOf(words))
  BY <1>4 DEF SaveWord, EXE_OFFSET_CHECKSUM
<1>7. SaveWord(0).data = EXE_SIGNATURE /\ SaveWord(1).data = exe_available
  BY DEF SaveWord
<1>8. EXE_SIGNATURE \in Word /\ exe_available \in Word
  BY SignatureAssumption DEF SignatureAssumption, Word, Types, MemoryType
<1>9. words \in Seq(Word)
  BY <1>1, SMT DEF Types, MemoryType
<1> HIDE DEF words
<1>10. Neg(SumOf(words)) \in Word
  BY <1>9, SumWord, NegWord
<1>11. \A n \in 2 .. SaveWords + 1 : imem[n - 2] \in Word
  BY <1>1, SMT DEF Types, MemoryType
<1>12. \A n \in 0 .. SaveWords + 2 : n = 0 \/ n = 1 \/ n \in 2 .. SaveWords + 1 \/ n = SaveWords + 2
  BY <1>1, SMT
<1>13. \A n \in 0 .. SaveWords + 2 : SaveWord(n).data \in Word
  BY <1>5, <1>6, <1>7, <1>8, <1>10, <1>11, <1>12
<1> QED  BY <1>1, <1>2, <1>5, <1>6, <1>13

LEMMA EffectCells ==
  ASSUME Types, NEW op \in Ops
  PROVE  Effect(op) \in Cells
<1> DEFINE byte(x) == CASE op.op = "erase" /\ x \in op.addr .. op.addr + SectorBytes - 1 -> Erased
                        [] op.op = "program" /\ x = op.addr -> And(flash.mem[x], op.data)
                        [] OTHER -> flash.mem[x]
<1>1. DOMAIN flash.mem = 0 .. FlashBytes - 1 /\ \A x \in 0 .. FlashBytes - 1 : flash.mem[x] \in Bytes
  BY DEF Types, FlashType, Cells
<1>2. op.data \in Bytes
  BY DEF Ops
<1>3. \A x \in 0 .. FlashBytes - 1 : And(flash.mem[x], op.data) \in Bytes
  BY <1>1, <1>2, AndByte
<1>4. Effect(op) = [x \in 0 .. FlashBytes - 1 |-> byte(x)]
  BY <1>1 DEF Effect
<1>5. \A x \in 0 .. FlashBytes - 1 : byte(x) \in {Erased, And(flash.mem[x], op.data), flash.mem[x]}
  OBVIOUS
<1> HIDE DEF byte
<1> QED  BY <1>1, <1>3, <1>4, <1>5, Zeros DEF Cells

LEMMA StoredCells ==
  ASSUME NEW f \in Stored
  PROVE  StoredImage(f) \in Cells
<1> DEFINE b == app_bin(f)
           byte(x) == IF x < Len(b) THEN b[4 * (x \div 4) + 4 - (x % 4)] ELSE Erased
<1>1. f \in Seq(Bytes)
  OBVIOUS
<1>2. b \in Seq(Bytes)
  BY <1>1, AppBin
<1>3. PICK k \in Nat : Len(b) = 4 * k
  BY <1>1, AppBin
<1>4. StoredImage(f) = [x \in 0 .. FlashBytes - 1 |-> byte(x)]
  BY DEF StoredImage
<1> HIDE DEF b
<1>5. \A x \in 0 .. FlashBytes - 1 : byte(x) \in Bytes
  <2> SUFFICES ASSUME NEW x \in 0 .. FlashBytes - 1
               PROVE  byte(x) \in Bytes
    OBVIOUS
  <2>1. CASE x < Len(b)
    <3>1. 4 * (x \div 4) + 4 - (x % 4) \in 1 .. Len(b)
      BY <2>1, <1>3, SMT
    <3> QED  BY <3>1, <2>1, <1>2
  <2>2. CASE ~(x < Len(b))
    BY <2>2, Zeros
  <2> QED  BY <2>1, <2>2
<1> QED  BY <1>4, <1>5 DEF Cells

LEMMA TypesInit == Init => Types
<1> SUFFICES ASSUME Init
             PROVE  Types
  OBVIOUS
<1>1. [x \in 0 .. FlashBytes - 1 |-> Erased] \in Cells
  BY Zeros DEF Cells
<1>2. PICK m \in Cells : flash = [mem |-> m, wel |-> FALSE, op |-> Idle]
  BY <1>1, StoredCells DEF Init
<1>3. flash \in [mem : Cells, wel : BOOLEAN, op : Ops]
  BY <1>2, Zeros
<1>4. host \in Hosts
  BY SMT DEF Init, Hosts
<1>5. imem \in [0 .. ImemWords - 1 -> Word]
  BY Zeros DEF Init
<1>6. exe_available \in Word /\ SaveWords <= ImemWords
  BY Zeros, SMT DEF Init, SaveWords
<1>7. pc \in Labels /\ cmd \in Commands /\ getting_exe \in BOOLEAN /\ irqs \in BOOLEAN /\ led \in BOOLEAN
  BY DEF Init, Labels, Commands
<1>8. rx \in Seq(Bytes) /\ Len(rx) <= RxDepth
  BY SMT DEF Init
<1>9. get \in Gets /\ Len(get.bytes) <= 4 /\ save \in Saves /\ Len(started) \in {0, ImemWords}
  BY Zeros, SMT DEF Init
<1> QED  BY <1>3, <1>4, <1>5, <1>6, <1>7, <1>8, <1>9
         DEF Types, ControlType, MemoryType, GetType, FlashType, LineType

-----------------------------------------------------------------------------
(* What each action may change. *)

LEMMA Frames ==
  ASSUME [Next]_vars
  PROVE  /\ UNCHANGED imem \/ GetWord \/ PowerFail
         /\ UNCHANGED exe_available \/ Crt0 \/ Main \/ Verify
         /\ UNCHANGED get \/ Crt0 \/ AutoBoot \/ Console \/ GetByte \/ GetWord \/ Verify
         /\ UNCHANGED save \/ Crt0 \/ Confirm \/ SavePoll \/ Stored_OK
         /\ UNCHANGED flash \/ FlashCheck \/ SaveEnable \/ SaveCommand \/ FlashDone \/ PowerFail
         /\ UNCHANGED <<rx, host>> \/ Main \/ AbortAutoBoot \/ Console \/ GetByte \/ Confirm \/ HostKey \/ HostUpload \/ HostByte \/ Reset \/ PowerFail
<1>1. CASE Crt0
  BY <1>1 DEF Crt0
<1>2. CASE Main
  BY <1>2 DEF Main
<1>3. CASE AbortAutoBoot
  BY <1>3 DEF AbortAutoBoot
<1>4. CASE AutoBoot
  BY <1>4 DEF AutoBoot
<1>5. CASE Console
  BY <1>5 DEF Console
<1>6. CASE StartApp
  BY <1>6 DEF StartApp
<1>7. CASE Jump
  BY <1>7 DEF Jump
<1>8. CASE Error
  BY <1>8 DEF Error
<1>9. CASE Lit
  BY <1>9 DEF Lit
<1>10. CASE GetByte
  BY <1>10 DEF GetByte
<1>11. CASE GetWord
  BY <1>11 DEF GetWord
<1>12. CASE Verify
  BY <1>12 DEF Verify
<1>13. CASE FlashCheck
  BY <1>13 DEF FlashCheck
<1>14. CASE Confirm
  BY <1>14 DEF Confirm
<1>15. CASE SaveEnable
  BY <1>15 DEF SaveEnable
<1>16. CASE SaveCommand
  BY <1>16 DEF SaveCommand
<1>17. CASE SavePoll
  BY <1>17 DEF SavePoll
<1>18. CASE Stored_OK
  BY <1>18 DEF Stored_OK
<1>19. CASE TimerTrap
  BY <1>19 DEF TimerTrap
<1>20. CASE FlashDone
  BY <1>20 DEF FlashDone
<1>21. CASE HostKey
  BY <1>21 DEF HostKey
<1>22. CASE HostUpload
  BY <1>22 DEF HostUpload
<1>23. CASE HostByte
  BY <1>23 DEF HostByte
<1>24. CASE Reset
  BY <1>24 DEF Reset
<1>25. CASE PowerFail
  BY <1>25 DEF PowerFail
<1>26. CASE UNCHANGED vars
  BY <1>26 DEF vars
<1> QED  BY <1>1, <1>2, <1>3, <1>4, <1>5, <1>6, <1>7, <1>8, <1>9, <1>10, <1>11, <1>12, <1>13, <1>14, <1>15, <1>16, <1>17, <1>18, <1>19, <1>20, <1>21, <1>22, <1>23, <1>24, <1>25, <1>26 DEF Next, Program

LEMMA MemoryTypeNext == Types /\ [Next]_vars => MemoryType'
<1> SUFFICES ASSUME Types, [Next]_vars
             PROVE  MemoryType'
  OBVIOUS
<1>1. imem' \in [0 .. ImemWords - 1 -> Word]
  <2>1. CASE UNCHANGED imem
    BY <2>1 DEF Types, MemoryType
  <2>2. CASE PowerFail
    BY <2>2, Zeros DEF PowerFail, Types, MemoryType
  <2>3. CASE GetWord
    <3>1. \/ UNCHANGED imem
          \/ /\ get.i < ImemWords
             /\ cmd = "upload" => Len(get.bytes) = 4
             /\ imem' = [imem EXCEPT ![get.i] = get_exe_word(12 + 4 * get.i)]
      BY <2>3 DEF GetWord
    <3>2. get.i \in Nat
      BY SMT DEF Types, GetType, Gets
    <3> DEFINE d == get_exe_word(12 + 4 * get.i)
    <3>3. CASE get.i < ImemWords /\ (cmd = "upload" => Len(get.bytes) = 4)
      <4>1. 12 + 4 * get.i \in Nat /\ (12 + 4 * get.i) + 3 < FlashBytes
        BY <3>2, <3>3, SMT
      <4>2. d \in Word
        BY <3>3, <4>1, ReadWord
      <4> HIDE DEF d
      <4>3. UNCHANGED imem \/ imem' = [imem EXCEPT ![get.i] = d]
        BY <3>1 DEF d
      <4> QED  BY <4>2, <4>3 DEF Types, MemoryType
    <3> QED  BY <3>1, <3>3 DEF Types, MemoryType
  <2> QED  BY <2>1, <2>2, <2>3, Frames
<1>2. exe_available' \in Word /\ SaveWords' <= ImemWords
  <2>1. CASE UNCHANGED exe_available
    BY <2>1 DEF Types, MemoryType, SaveWords
  <2>2. CASE Crt0 \/ Main
    <3>1. exe_available' = 0
      BY <2>2 DEF Crt0, Main
    <3> QED  BY <3>1, Zeros, SMT DEF SaveWords
  <2>3. CASE Verify
    <3>1. UNCHANGED exe_available \/ exe_available' = get.size
      BY <2>3 DEF Verify
    <3>2. get.i >= get.size \div 4 /\ get.i \in 0 .. ImemWords /\ get.size \in Word
      BY <2>3, SMT DEF Verify, Complete, DataWords, Types, GetType, Gets
    <3>3. get.size \in Int /\ get.size \div 4 <= ImemWords
      BY <3>2, SizeOfWord, SMT DEF Word
    <3> QED  BY <3>1, <3>2, <3>3 DEF Types, MemoryType, SaveWords
  <2> QED  BY <2>1, <2>2, <2>3, Frames
<1> QED  BY <1>1, <1>2 DEF MemoryType

Got(f, z, c, m, i) == [field |-> f, bytes |-> <<>>, size |-> z, check |-> c, sum |-> m, i |-> i]

LEMMA NextGet ==
  ASSUME NEW g \in Gets, NEW w \in Word
  PROVE  \A h :
    /\ h = [g EXCEPT !.bytes = <<>>, !.field = 1]
       => h \in Gets /\ h.bytes = <<>> /\ h = Got(1, g.size, g.check, g.sum, g.i)
    /\ h = [g EXCEPT !.bytes = <<>>, !.field = 2, !.size = w]
       => h \in Gets /\ h.bytes = <<>> /\ h = Got(2, w, g.check, g.sum, g.i)
    /\ h = [g EXCEPT !.bytes = <<>>, !.field = 3, !.check = w]
       => h \in Gets /\ h.bytes = <<>> /\ h = Got(3, g.size, w, g.sum, g.i)
<1>1. ASSUME NEW h, h = [g EXCEPT !.bytes = <<>>, !.field = 1]
      PROVE  h \in Gets /\ h.bytes = <<>> /\ h = Got(1, g.size, g.check, g.sum, g.i)
  <2>1. h = Got(1, g.size, g.check, g.sum, g.i)
    BY <1>1 DEF Gets, Got
  <2> QED  BY <2>1, SMT DEF Gets, Got
<1>2. ASSUME NEW h, h = [g EXCEPT !.bytes = <<>>, !.field = 2, !.size = w]
      PROVE  h \in Gets /\ h.bytes = <<>> /\ h = Got(2, w, g.check, g.sum, g.i)
  <2>1. h = Got(2, w, g.check, g.sum, g.i)
    BY <1>2 DEF Gets, Got
  <2> QED  BY <2>1, SMT DEF Gets, Got
<1>3. ASSUME NEW h, h = [g EXCEPT !.bytes = <<>>, !.field = 3, !.check = w]
      PROVE  h \in Gets /\ h.bytes = <<>> /\ h = Got(3, g.size, w, g.sum, g.i)
  <2>1. h = Got(3, g.size, w, g.sum, g.i)
    BY <1>3 DEF Gets, Got
  <2> QED  BY <2>1, SMT DEF Gets, Got
<1> QED  BY <1>1, <1>2, <1>3

LEMMA NextGetData ==
  ASSUME NEW g \in Gets, NEW w \in Word, NEW j \in 0 .. ImemWords,
         NEW h, h = [g EXCEPT !.bytes = <<>>, !.sum = w, !.i = j]
  PROVE  h \in Gets /\ h.bytes = <<>> /\ h = Got(g.field, g.size, g.check, w, j)
<1>1. h = Got(g.field, g.size, g.check, w, j)
  BY DEF Gets, Got
<1>2. Got(g.field, g.size, g.check, w, j) \in Gets /\ Got(g.field, g.size, g.check, w, j).bytes = <<>>
  BY SMT DEF Gets, Got
<1> QED  BY <1>1, <1>2, Zenon

LEMMA GetTypeNext == Types /\ [Next]_vars => GetType'
<1> SUFFICES ASSUME Types, [Next]_vars
             PROVE  GetType'
  OBVIOUS
<1>1. get \in Gets /\ Len(get.bytes) <= 4
  BY DEF Types, GetType
<1>2. CASE UNCHANGED get
  BY <1>1, <1>2 DEF GetType
<1>3. CASE Crt0 \/ AutoBoot \/ Verify
  <2>1. get' = NoGet
    BY <1>3 DEF Crt0, AutoBoot, Verify, EnterGetExe
  <2> QED  BY <2>1, Zeros, SMT DEF GetType
<1>4. CASE Console
  <2>1. UNCHANGED get \/ get' = NoGet
    BY <1>4 DEF Console, EnterGetExe
  <2> QED  BY <1>1, <2>1, Zeros, SMT DEF GetType
<1>5. CASE GetByte
  <2>1. /\ Len(get.bytes) < 4 /\ rx # <<>>
        /\ get' = [get EXCEPT !.bytes = Append(@, Head(rx))]
    BY <1>5 DEF GetByte
  <2>2. Head(rx) \in Bytes /\ get.bytes \in Seq(Bytes)
    BY <1>1, <2>1 DEF Types, LineType, Gets
  <2> DEFINE b == Append(get.bytes, Head(rx))
  <2>3. b \in Seq(Bytes) /\ Len(b) <= 4
    BY <2>1, <2>2, SMT
  <2>4. get' = [get EXCEPT !.bytes = b]
    BY <2>1
  <2> HIDE DEF b
  <2> QED  BY <1>1, <2>3, <2>4, SMT DEF GetType, Gets
<1>6. CASE GetWord
  <2> DEFINE d == get_exe_word(12 + 4 * get.i)
             s == (get.sum + d) % WordSize
  <2>1. cmd = "upload" => Len(get.bytes) = 4
    BY <1>6 DEF GetWord
  <2>2. \/ UNCHANGED get
        \/ get' = [get EXCEPT !.bytes = <<>>, !.field = 1]
        \/ get' = [get EXCEPT !.bytes = <<>>, !.field = 2, !.size = get_exe_word(4)]
        \/ get' = [get EXCEPT !.bytes = <<>>, !.field = 3, !.check = get_exe_word(8)]
        \/ /\ get.i < ImemWords
           /\ get' = [get EXCEPT !.bytes = <<>>, !.sum = s, !.i = @ + 1]
    BY <1>6 DEF GetWord, EXE_OFFSET_SIZE, EXE_OFFSET_CHECKSUM
  <2>3. get_exe_word(4) \in Word /\ get_exe_word(8) \in Word
    BY <2>1, ReadWord
  <2>4. get.i < ImemWords => s \in Word
    <3> SUFFICES ASSUME get.i < ImemWords
                 PROVE  s \in Word
      OBVIOUS
    <3>1. get.i \in Nat
      BY SMT DEF Types, GetType, Gets
    <3>2. 12 + 4 * get.i \in Nat /\ (12 + 4 * get.i) + 3 < FlashBytes
      BY <3>1, SMT
    <3>3. d \in Word
      BY <2>1, <3>2, ReadWord
    <3>4. get.sum \in Word
      BY <1>1 DEF Gets
    <3> HIDE DEF d
    <3> QED  BY <3>3, <3>4, SizeOfWord, SMT DEF Word
  <2> HIDE DEF d, s
  <2> DEFINE e4 == get_exe_word(4)  e8 == get_exe_word(8)
  <2> HIDE DEF e4, e8
  <2>5. CASE UNCHANGED get
    BY <1>1, <2>5 DEF GetType
  <2>6. CASE get' = [get EXCEPT !.bytes = <<>>, !.field = 1]
    <3>1. get' \in Gets /\ get'.bytes = <<>>
      BY <1>1, <2>6, Zeros, NextGet, Zenon
    <3> QED  BY <3>1, SMT DEF GetType
  <2>7. CASE get' = [get EXCEPT !.bytes = <<>>, !.field = 2, !.size = e4]
    <3>1. get' \in Gets /\ get'.bytes = <<>>
      BY <1>1, <2>3, <2>7, NextGet, Zenon DEF e4
    <3> QED  BY <3>1, SMT DEF GetType
  <2>8. CASE get' = [get EXCEPT !.bytes = <<>>, !.field = 3, !.check = e8]
    <3>1. get' \in Gets /\ get'.bytes = <<>>
      BY <1>1, <2>3, <2>8, NextGet, Zenon DEF e8
    <3> QED  BY <3>1, SMT DEF GetType
  <2>9. CASE get.i < ImemWords /\ get' = [get EXCEPT !.bytes = <<>>, !.sum = s, !.i = @ + 1]
    <3> DEFINE j == get.i + 1
    <3>1. j \in 0 .. ImemWords /\ get' = [get EXCEPT !.bytes = <<>>, !.sum = s, !.i = j]
      BY <1>1, <2>9, SMT DEF Gets
    <3> HIDE DEF j
    <3>2. get \in Gets /\ s \in Word
      BY <1>1, <2>4, <2>9
    <3>3. get' \in Gets /\ get'.bytes = <<>>
      BY <3>1, <3>2, NextGetData
    <3> QED  BY <3>3, SMT DEF GetType
  <2> QED  BY <2>2, <2>5, <2>6, <2>7, <2>8, <2>9 DEF e4, e8
<1> QED  BY <1>2, <1>3, <1>4, <1>5, <1>6, Frames

LEMMA NextHost ==
  ASSUME NEW g \in Hosts, NEW b \in Seq(Bytes)
  PROVE  \A h : \/ h = [g EXCEPT !.keys = @ + 1]
                \/ h = [g EXCEPT !.todo = b, !.uploads = @ + 1]
                \/ h = [g EXCEPT !.todo = b]
                \/ h = [g EXCEPT !.todo = b, !.lost = @ + 1]
                \/ h = [g EXCEPT !.resets = @ + 1]
                => h \in Hosts
<1>1. ASSUME NEW h, h = [g EXCEPT !.keys = @ + 1]
      PROVE  h \in Hosts
  <2>1. h = [todo |-> g.todo, keys |-> g.keys + 1, uploads |-> g.uploads, lost |-> g.lost, resets |-> g.resets]
    BY <1>1 DEF Hosts
  <2> QED  BY <2>1, SMT DEF Hosts
<1>2. ASSUME NEW h, h = [g EXCEPT !.todo = b, !.uploads = @ + 1]
      PROVE  h \in Hosts
  <2>1. h = [todo |-> b, keys |-> g.keys, uploads |-> g.uploads + 1, lost |-> g.lost, resets |-> g.resets]
    BY <1>2 DEF Hosts
  <2> QED  BY <2>1, SMT DEF Hosts
<1>3. ASSUME NEW h, h = [g EXCEPT !.todo = b]
      PROVE  h \in Hosts
  <2>1. h = [todo |-> b, keys |-> g.keys, uploads |-> g.uploads, lost |-> g.lost, resets |-> g.resets]
    BY <1>3 DEF Hosts
  <2> QED  BY <2>1, SMT DEF Hosts
<1>4. ASSUME NEW h, h = [g EXCEPT !.todo = b, !.lost = @ + 1]
      PROVE  h \in Hosts
  <2>1. h = [todo |-> b, keys |-> g.keys, uploads |-> g.uploads, lost |-> g.lost + 1, resets |-> g.resets]
    BY <1>4 DEF Hosts
  <2> QED  BY <2>1, SMT DEF Hosts
<1>5. ASSUME NEW h, h = [g EXCEPT !.resets = @ + 1]
      PROVE  h \in Hosts
  <2>1. h = [todo |-> g.todo, keys |-> g.keys, uploads |-> g.uploads, lost |-> g.lost, resets |-> g.resets + 1]
    BY <1>5 DEF Hosts
  <2> QED  BY <2>1, SMT DEF Hosts
<1> QED  BY <1>1, <1>2, <1>3, <1>4, <1>5

LEMMA LineTypeNext == Types /\ [Next]_vars => LineType'
<1> SUFFICES ASSUME Types, [Next]_vars
             PROVE  LineType'
  OBVIOUS
<1>1. rx \in Seq(Bytes) /\ Len(rx) <= RxDepth /\ host \in Hosts
  BY DEF Types, LineType
<1>9. <<>> \in Seq(Bytes)
  OBVIOUS
<1>2. CASE UNCHANGED <<rx, host>>
  BY <1>1, <1>2 DEF LineType
<1>3. CASE Main
  BY <1>1, <1>3, SMT DEF Main, LineType
<1>4. CASE AbortAutoBoot \/ Console \/ GetByte \/ Confirm
  <2>1. rx # <<>> /\ rx' = Tail(rx) /\ host' = host
    BY <1>4 DEF AbortAutoBoot, Console, GetByte, Confirm
  <2> QED  BY <1>1, <2>1, SMT DEF LineType
<1>5. CASE HostKey
  <2>1. PICK k \in Range(Keys) : rx' = Append(rx, k)
    BY <1>5 DEF HostKey
  <2>2. Len(rx) < RxDepth /\ host' = [host EXCEPT !.keys = @ + 1]
    BY <1>5 DEF HostKey
  <2>4. host' \in Hosts
    BY <1>1, <2>2, NextHost, <1>9, Zenon
  <2>5. k \in Bytes
    OBVIOUS
  <2> QED  BY <1>1, <2>1, <2>2, <2>4, <2>5, SMT DEF LineType
<1>6. CASE HostUpload
  <2>1. PICK f \in Files : host' = [host EXCEPT !.todo = app_bin(f), !.uploads = @ + 1]
    BY <1>6 DEF HostUpload
  <2>2. app_bin(f) \in Seq(Bytes)
    BY AppBin
  <2>3. rx' = rx
    BY <1>6 DEF HostUpload
  <2>5. host' \in Hosts
    BY <1>1, <2>1, <2>2, NextHost, Zenon
  <2> QED  BY <1>1, <2>3, <2>5 DEF LineType
<1>7. CASE HostByte
  <2>1. /\ host.todo # <<>>
        /\ \/ /\ Len(rx) < RxDepth /\ rx' = Append(rx, Head(host.todo))
              /\ host' = [host EXCEPT !.todo = Tail(@)]
           \/ rx' = rx /\ host' = [host EXCEPT !.todo = Tail(@), !.lost = @ + 1]
    BY <1>7 DEF HostByte
  <2>2. host.todo \in Seq(Bytes)
    BY <1>1 DEF Hosts
  <2>3. Head(host.todo) \in Bytes /\ Tail(host.todo) \in Seq(Bytes)
    BY <2>1, <2>2
  <2> DEFINE b == Tail(host.todo)
  <2>4. b \in Seq(Bytes)
    BY <2>3
  <2> HIDE DEF b
  <2>5. CASE Len(rx) < RxDepth /\ rx' = Append(rx, Head(host.todo)) /\ host' = [host EXCEPT !.todo = b]
    <3>1. host' \in Hosts
      BY <1>1, <2>4, <2>5, NextHost, Zenon
    <3>2. rx' \in Seq(Bytes) /\ Len(rx') <= RxDepth
      BY <1>1, <2>3, <2>5, SMT
    <3> QED  BY <3>1, <3>2 DEF LineType
  <2>6. CASE rx' = rx /\ host' = [host EXCEPT !.todo = b, !.lost = @ + 1]
    <3>2. host' \in Hosts
      BY <1>1, <2>4, <2>6, NextHost, Zenon
    <3> QED  BY <1>1, <2>6, <3>2 DEF LineType
  <2> QED  BY <2>1, <2>5, <2>6 DEF b
<1>8. CASE Reset \/ PowerFail
  <2>1. rx' = <<>> /\ host' = [host EXCEPT !.resets = @ + 1]
    BY <1>8 DEF Reset, PowerFail
  <2>3. host' \in Hosts
    BY <1>1, <2>1, NextHost, <1>9, Zenon
  <2> QED  BY <2>1, <2>3, SMT DEF LineType
<1> QED  BY <1>2, <1>3, <1>4, <1>5, <1>6, <1>7, <1>8, Frames

-----------------------------------------------------------------------------
(* The progress of a save. *)

Fresh    == [NoSave EXCEPT !.sectors = exe_available \div SectorBytes + 1]
EraseEnd == SectorBytes * (exe_available \div SectorBytes) + SectorBytes
Checking == pc \in {"wren", "set?", "wrdi", "clear?"}
Saving   == pc \in {"enable", "command", "poll", "stored"}

(* Nothing is saved before the console is asked to, the sectors are erased  *)
(* first, and the size of what is being saved does not change.              *)
SaveStage ==
  /\ save.word <= SaveWords + 2
  /\ pc \in {"main", "autoboot", "prompt", "confirm", "start", "get"} => save = NoSave
  /\ Checking => save = IF cmd = "store" THEN Fresh ELSE NoSave
  /\ Saving => /\ save.sector + SectorBytes * save.sectors = EraseEnd
               /\ save.sectors > 0 => save.word = 0 /\ save.byte = 0

LEMMA SectorsErased ==
  ASSUME Types
  PROVE  /\ exe_available \div SectorBytes \in Nat
         /\ SectorBytes * (exe_available \div SectorBytes) \in 0 .. exe_available
         /\ exe_available = SectorBytes * (exe_available \div SectorBytes)
                            + (exe_available % SectorBytes)
<1> DEFINE q == exe_available \div SectorBytes
           r == exe_available % SectorBytes
<1>1. exe_available \in Nat
  BY SizeOfWord, SMT DEF Types, MemoryType, Word
<1>2. q \in Nat /\ r \in Nat
  BY <1>1, SMT
<1>3. exe_available = SectorBytes * q + r
  BY <1>1, SMT
<1> HIDE DEF q, r
<1>4. SectorBytes * q \in 0 .. exe_available
  BY <1>1, <1>2, <1>3, SMT
<1> QED  BY <1>2, <1>3, <1>4 DEF q, r

LEMMA NextSave ==
  ASSUME NEW s \in Saves
  PROVE  \A h :
    /\ h = [s EXCEPT !.sectors = @ - 1, !.sector = @ + SectorBytes] /\ s.sectors > 0
       => /\ h \in Saves /\ h.sectors = s.sectors - 1 /\ h.sector = s.sector + SectorBytes
          /\ h.word = s.word /\ h.byte = s.byte
    /\ h = [s EXCEPT !.byte = @ + 1] /\ s.byte < 3
       => /\ h \in Saves /\ h.sectors = s.sectors /\ h.sector = s.sector
          /\ h.word = s.word /\ h.byte = s.byte + 1
    /\ h = [s EXCEPT !.byte = 0, !.word = @ + 1]
       => /\ h \in Saves /\ h.sectors = s.sectors /\ h.sector = s.sector
          /\ h.word = s.word + 1 /\ h.byte = 0
<1>1. ASSUME NEW h, h = [s EXCEPT !.sectors = @ - 1, !.sector = @ + SectorBytes], s.sectors > 0
      PROVE  /\ h \in Saves /\ h.sectors = s.sectors - 1 /\ h.sector = s.sector + SectorBytes
             /\ h.word = s.word /\ h.byte = s.byte
  <2>1. h = [sectors |-> s.sectors - 1, sector |-> s.sector + SectorBytes,
             word |-> s.word, byte |-> s.byte]
    BY <1>1 DEF Saves
  <2> QED  BY <1>1, <2>1, SMT DEF Saves
<1>2. ASSUME NEW h, h = [s EXCEPT !.byte = @ + 1], s.byte < 3
      PROVE  /\ h \in Saves /\ h.sectors = s.sectors /\ h.sector = s.sector
             /\ h.word = s.word /\ h.byte = s.byte + 1
  <2>1. h = [sectors |-> s.sectors, sector |-> s.sector, word |-> s.word, byte |-> s.byte + 1]
    BY <1>2 DEF Saves
  <2> QED  BY <1>2, <2>1, SMT DEF Saves
<1>3. ASSUME NEW h, h = [s EXCEPT !.byte = 0, !.word = @ + 1]
      PROVE  /\ h \in Saves /\ h.sectors = s.sectors /\ h.sector = s.sector
             /\ h.word = s.word + 1 /\ h.byte = 0
  <2>1. h = [sectors |-> s.sectors, sector |-> s.sector, word |-> s.word + 1, byte |-> 0]
    BY <1>3 DEF Saves
  <2> QED  BY <2>1, SMT DEF Saves
<1> QED  BY <1>1, <1>2, <1>3

(* The four ways on, once the flash has ended an operation.                 *)
LEMMA PollStep ==
  ASSUME Types, SaveStage, SavePoll
  PROVE  /\ pc = "poll" /\ flash.op = Idle /\ save' \in Saves
         /\ UNCHANGED <<cmd, exe_available, imem, flash>>
         /\ \/ /\ save.sectors > 0 /\ pc' = "enable"
               /\ save'.sectors = save.sectors - 1 /\ save'.sector = save.sector + SectorBytes
               /\ save'.word = save.word /\ save'.byte = save.byte
            \/ /\ save.sectors = 0 /\ save.byte < 3 /\ pc' = "enable"
               /\ save'.sectors = 0 /\ save'.sector = save.sector
               /\ save'.word = save.word /\ save'.byte = save.byte + 1
            \/ /\ save.sectors = 0 /\ save.byte = 3 /\ save.word = SaveWords + 2 /\ pc' = "stored"
               /\ save' = save
            \/ /\ save.sectors = 0 /\ save.byte = 3 /\ save.word < SaveWords + 2 /\ pc' = "enable"
               /\ save'.sectors = 0 /\ save'.sector = save.sector
               /\ save'.word = save.word + 1 /\ save'.byte = 0
<1>1. /\ pc = "poll" /\ flash.op = Idle
      /\ UNCHANGED <<cmd, exe_available, imem, flash>>
  BY DEF SavePoll
<1>2. /\ save \in Saves /\ SaveWords \in Nat /\ save.word <= SaveWords + 2
      /\ save.sectors \in Nat /\ save.word \in Nat /\ save.byte \in 0 .. 3
  BY WordsSaved DEF Types, SaveStage, Saves
<1>3. CASE save.sectors > 0
  <2>1. pc' = "enable" /\ save' = [save EXCEPT !.sectors = @ - 1, !.sector = @ + SectorBytes]
    BY <1>3 DEF SavePoll, NextWrite, Goto
  <2> QED  BY <1>1, <1>2, <1>3, <2>1, NextSave, Zenon
<1>4. CASE save.sectors = 0 /\ save.byte < 3
  <2>1. pc' = "enable" /\ save' = [save EXCEPT !.byte = @ + 1]
    BY <1>4 DEF SavePoll, NextWrite, Goto, LastByte
  <2>2. /\ save' \in Saves /\ save'.sectors = save.sectors /\ save'.sector = save.sector
        /\ save'.word = save.word /\ save'.byte = save.byte + 1
    BY <1>2, <1>4, <2>1, NextSave, Zenon
  <2> QED  BY <1>1, <1>4, <2>1, <2>2
<1>5. CASE save.sectors = 0 /\ save.byte = 3 /\ save.word = SaveWords + 2
  <2>1. pc' = "stored" /\ save' = save
    BY <1>5 DEF SavePoll, NextWrite, Goto, LastByte
  <2> QED  BY <1>1, <1>2, <1>5, <2>1
<1>6. CASE save.sectors = 0 /\ save.byte = 3 /\ save.word < SaveWords + 2
  <2>1. save.word # SaveWords + 2
    BY <1>2, <1>6, SMT
  <2>2. pc' = "enable" /\ save' = [save EXCEPT !.byte = 0, !.word = @ + 1]
    BY <1>6, <2>1 DEF SavePoll, NextWrite, Goto, LastByte
  <2>3. /\ save' \in Saves /\ save'.sectors = save.sectors /\ save'.sector = save.sector
        /\ save'.word = save.word + 1 /\ save'.byte = 0
    BY <1>2, <2>2, NextSave, Zenon
  <2> QED  BY <1>1, <1>6, <2>2, <2>3
<1>7. \/ save.sectors > 0
      \/ save.sectors = 0 /\ save.byte < 3
      \/ save.sectors = 0 /\ save.byte = 3 /\ save.word = SaveWords + 2
      \/ save.sectors = 0 /\ save.byte = 3 /\ save.word < SaveWords + 2
  BY <1>2, SMT
<1> QED  BY <1>3, <1>4, <1>5, <1>6, <1>7

LEMMA SaveTypeNext == Types /\ SaveStage /\ [Next]_vars => save' \in Saves
<1> SUFFICES ASSUME Types, SaveStage, [Next]_vars
             PROVE  save' \in Saves
  OBVIOUS
<1>1. CASE UNCHANGED save
  BY <1>1 DEF Types
<1>2. CASE Crt0 \/ Stored_OK
  BY <1>2, Zeros DEF Crt0, Stored_OK
<1>3. CASE Confirm
  <2> DEFINE n == exe_available \div SectorBytes + 1
  <2>1. n \in Nat
    BY SectorsErased, SMT
  <2> HIDE DEF n
  <2>2. [NoSave EXCEPT !.sectors = n] \in Saves
    BY <2>1, SMT DEF NoSave, Saves
  <2> QED  BY <1>3, <2>2 DEF Confirm, Types, n
<1>4. CASE SavePoll
  BY <1>4, PollStep
<1> QED  BY <1>1, <1>2, <1>3, <1>4, Frames

LEMMA SaveStageNext == Types /\ SaveStage /\ [Next]_vars => SaveStage'
<1> SUFFICES ASSUME Types, SaveStage, [Next]_vars
             PROVE  SaveStage'
  OBVIOUS
<1> USE DEF Goto
<1>0. SaveWords' \in Nat /\ 0 <= SaveWords' + 2
  BY MemoryTypeNext, SizeOfWord, SMT DEF MemoryType, SaveWords, Word
<1>1. CASE Crt0
  <2>1. save' = NoSave /\ pc' = "main"
    BY <1>1 DEF Crt0
  <2> QED  BY <1>0, <2>1 DEF SaveStage, Checking, Saving, NoSave
<1>2. CASE Main
  <2>1. save' = NoSave /\ pc' = "autoboot"
    BY <1>2 DEF Main, SaveStage
  <2> QED  BY <1>0, <2>1 DEF SaveStage, Checking, Saving, NoSave
<1>3. CASE AbortAutoBoot
  BY <1>3 DEF AbortAutoBoot, SaveStage, Checking, Saving, SaveWords, Fresh, EraseEnd
<1>4. CASE AutoBoot
  BY <1>4 DEF AutoBoot, EnterGetExe, SaveStage, Checking, Saving, SaveWords, Fresh, EraseEnd
<1>5. CASE Console
  BY <1>5 DEF Console, EnterGetExe, SaveStage, Checking, Saving, SaveWords, Fresh, EraseEnd
<1>6. CASE StartApp
  BY <1>6 DEF StartApp, SaveStage, Checking, Saving, SaveWords, Fresh, EraseEnd
<1>7. CASE Jump
  BY <1>7 DEF Jump, SaveStage, Checking, Saving, SaveWords, Fresh, EraseEnd
<1>8. CASE Error
  BY <1>8 DEF Error, SaveStage, Checking, Saving, SaveWords, Fresh, EraseEnd
<1>9. CASE Lit
  BY <1>9 DEF Lit, SaveStage, Checking, Saving, SaveWords, Fresh, EraseEnd
<1>10. CASE GetByte
  BY <1>10 DEF GetByte, SaveStage, Checking, Saving, SaveWords, Fresh, EraseEnd
<1>11. CASE GetWord
  BY <1>11 DEF GetWord, StoreFault, system_error, SaveStage, Checking, Saving, SaveWords, Fresh, EraseEnd
<1>12. CASE Verify
  <2>1. save' = NoSave /\ pc' \in {"error", "start", "prompt"}
    BY <1>12 DEF Verify, SaveStage, system_error
  <2> QED  BY <1>0, <2>1 DEF SaveStage, Checking, Saving, NoSave
<1>13. CASE FlashCheck
  <2>1. /\ UNCHANGED <<save, cmd, exe_available>> /\ pc \in {"wren", "set?", "wrdi", "clear?"}
        /\ \/ pc' \in {"set?", "wrdi", "clear?", "error"}
           \/ pc' = IF cmd = "store" THEN "enable" ELSE "get"
    BY <1>13 DEF FlashCheck, system_error
  <2>2. save' = IF cmd = "store" THEN Fresh ELSE NoSave
    BY <2>1 DEF SaveStage, Checking
  <2>3. save'.word <= SaveWords' + 2
    BY <2>1 DEF SaveStage, SaveWords
  <2>4. Fresh' = Fresh /\ EraseEnd' = EraseEnd
    BY <2>1 DEF Fresh, EraseEnd
  <2>5. CASE pc' \in {"set?", "wrdi", "clear?", "error"}
    BY <2>1, <2>2, <2>3, <2>4, <2>5 DEF SaveStage, Checking, Saving
  <2>6. CASE pc' = "get" /\ cmd # "store"
    BY <2>1, <2>2, <2>3, <2>6 DEF SaveStage, Checking, Saving
  <2>7. CASE pc' = "enable" /\ cmd = "store"
    <3>1. save' = Fresh
      BY <2>2, <2>7
    <3>2. /\ Fresh.sectors = exe_available \div SectorBytes + 1 /\ Fresh.sector = 0
          /\ Fresh.word = 0 /\ Fresh.byte = 0
      BY DEF Fresh, NoSave
    <3>3. Fresh.sector + SectorBytes * Fresh.sectors = EraseEnd
      BY <3>2, SectorsErased, SMT DEF EraseEnd
    <3>4. save'.sector + SectorBytes * save'.sectors = EraseEnd'
      BY <2>4, <3>1, <3>3
    <3> QED  BY <2>3, <2>7, <3>1, <3>2, <3>4 DEF SaveStage, Checking, Saving
  <2> QED  BY <2>1, <2>5, <2>6, <2>7
<1>14. CASE Confirm
  <2>1. /\ UNCHANGED exe_available /\ pc = "confirm"
        /\ \/ /\ save' = [NoSave EXCEPT !.sectors = exe_available \div SectorBytes + 1]
              /\ cmd' = "store" /\ pc' = "wren"
           \/ pc' = "prompt" /\ UNCHANGED save
    BY <1>14 DEF Confirm
  <2>2. CASE pc' = "wren"
    <3>1. save' = Fresh /\ Fresh' = Fresh
      BY <2>1, <2>2 DEF Fresh
    <3>2. Fresh.word = 0
      BY DEF Fresh, NoSave
    <3> QED  BY <1>0, <2>1, <2>2, <3>1, <3>2 DEF SaveStage, Checking, Saving
  <2>3. CASE pc' = "prompt" /\ UNCHANGED save
    BY <2>1, <2>3 DEF SaveStage, Checking, Saving, SaveWords
  <2> QED  BY <2>1, <2>2, <2>3
<1>15. CASE SaveEnable
  BY <1>15 DEF SaveEnable, SaveStage, Checking, Saving, SaveWords, Fresh, EraseEnd
<1>16. CASE SaveCommand
  BY <1>16 DEF SaveCommand, SaveStage, Checking, Saving, SaveWords, Fresh, EraseEnd
<1>17. CASE SavePoll
  <2>1. UNCHANGED exe_available /\ EraseEnd' = EraseEnd /\ SaveWords' = SaveWords
    BY <1>17 DEF SavePoll, EraseEnd, SaveWords
  <2>2. /\ save \in Saves /\ SaveWords \in Nat
        /\ save.sector + SectorBytes * save.sectors = EraseEnd
        /\ save.sectors > 0 => save.word = 0 /\ save.byte = 0
        /\ save.word <= SaveWords + 2
    BY <1>17, WordsSaved DEF SavePoll, SaveStage, Saving, Types
  <2>3. save.sectors \in Nat /\ save.sector \in Nat /\ save.word \in Nat
    BY <2>2 DEF Saves
  <2>4. /\ save'.word <= SaveWords + 2
        /\ save'.sector + SectorBytes * save'.sectors = EraseEnd
        /\ save'.sectors > 0 => save'.word = 0 /\ save'.byte = 0
    <3>1. CASE save.sectors > 0
      <4>1. /\ save'.sectors = save.sectors - 1 /\ save'.sector = save.sector + SectorBytes
            /\ save'.word = 0 /\ save'.byte = 0
        BY <1>17, <2>2, <3>1, PollStep
      <4>2. SectorBytes * (save.sectors - 1) = SectorBytes * save.sectors - SectorBytes
        BY <2>3, SMT
      <4>3. SectorBytes * save.sectors \in Int
        BY <2>3, SMT
      <4> DEFINE m == SectorBytes * save.sectors
      <4> HIDE DEF m
      <4>4. save'.sector + SectorBytes * save'.sectors = (save.sector + SectorBytes) + (m - SectorBytes)
        BY <4>1, <4>2 DEF m
      <4>5. (save.sector + SectorBytes) + (m - SectorBytes) = save.sector + m
        BY <2>3, <4>3, SMT DEF m
      <4> QED  BY <2>2, <4>1, <4>4, <4>5, SMT DEF m
    <3>2. CASE save.sectors = 0
      <4>1. /\ save'.sectors = 0 /\ save'.sector = save.sector
            /\ save'.word <= SaveWords + 2
        BY <1>17, <2>2, <2>3, <3>2, PollStep, SMT
      <4> QED  BY <2>2, <3>2, <4>1, SMT
    <3> QED  BY <2>3, <3>1, <3>2, SMT
  <2>5. pc' \in {"enable", "stored"}
    BY <1>17, PollStep
  <2> QED  BY <2>1, <2>4, <2>5 DEF SaveStage, Checking, Saving
<1>18. CASE Stored_OK
  <2>1. save' = NoSave /\ pc' = "prompt"
    BY <1>18 DEF Stored_OK
  <2> QED  BY <1>0, <2>1 DEF SaveStage, Checking, Saving, NoSave
<1>19. CASE TimerTrap
  BY <1>19 DEF TimerTrap, SaveStage, Checking, Saving, SaveWords, Fresh, EraseEnd
<1>20. CASE FlashDone
  BY <1>20 DEF FlashDone, SaveStage, Checking, Saving, SaveWords, Fresh, EraseEnd
<1>21. CASE HostKey
  BY <1>21 DEF HostKey, SaveStage, Checking, Saving, SaveWords, Fresh, EraseEnd
<1>22. CASE HostUpload
  BY <1>22 DEF HostUpload, SaveStage, Checking, Saving, SaveWords, Fresh, EraseEnd
<1>23. CASE HostByte
  BY <1>23 DEF HostByte, SaveStage, Checking, Saving, SaveWords, Fresh, EraseEnd
<1>24. CASE Reset
  BY <1>24 DEF Reset, SaveStage, Checking, Saving, SaveWords, Fresh, EraseEnd
<1>25. CASE PowerFail
  BY <1>25 DEF PowerFail, SaveStage, Checking, Saving, SaveWords, Fresh, EraseEnd
<1>26. CASE UNCHANGED vars
  BY <1>26 DEF vars, SaveStage, Checking, Saving, SaveWords, Fresh, EraseEnd
<1> QED  BY <1>1, <1>2, <1>3, <1>4, <1>5, <1>6, <1>7, <1>8, <1>9, <1>10, <1>11, <1>12, <1>13, <1>14, <1>15, <1>16, <1>17, <1>18, <1>19, <1>20, <1>21, <1>22, <1>23, <1>24, <1>25, <1>26 DEF Next, Program

-----------------------------------------------------------------------------
(* The flash is idle when it is asked for something. *)

FlashStage ==
  /\ flash.op # Idle => flash.wel
  /\ pc \in {"enable", "command", "stored"} => flash.op = Idle
  /\ pc = "command" => flash.wel
  /\ pc = "get" /\ cmd # "upload" => flash.op = Idle

(* What an action may do to the flash. *)
LEMMA FlashSteps ==
  ASSUME Types, [Next]_vars
  PROVE  \/ UNCHANGED flash
         \/ pc \in {"wren", "enable"} /\ flash.op = Idle /\ flash' = [flash EXCEPT !.wel = TRUE]
         \/ pc = "wrdi" /\ flash.op = Idle /\ flash' = [flash EXCEPT !.wel = FALSE]
         \/ SaveCommand
         \/ FlashDone
         \/ PowerFail
<1>1. CASE UNCHANGED flash
  BY <1>1
<1>2. CASE FlashCheck
  BY <1>2 DEF FlashCheck, WriteEnable, WriteDisable
<1>3. CASE SaveEnable
  BY <1>3 DEF SaveEnable, WriteEnable
<1> QED  BY <1>1, <1>2, <1>3, Frames

LEMMA NextFlash ==
  ASSUME NEW f \in [mem : Cells, wel : BOOLEAN, op : Ops], NEW w \in BOOLEAN, NEW o \in Ops
  PROVE  \A h : /\ h = [f EXCEPT !.wel = w] => /\ h \in [mem : Cells, wel : BOOLEAN, op : Ops]
                                               /\ h.mem = f.mem /\ h.op = f.op /\ h.wel = w
                /\ h = [f EXCEPT !.op = o] => /\ h \in [mem : Cells, wel : BOOLEAN, op : Ops]
                                              /\ h.mem = f.mem /\ h.op = o /\ h.wel = f.wel
<1>1. ASSUME NEW h, h = [f EXCEPT !.wel = w]
      PROVE  /\ h \in [mem : Cells, wel : BOOLEAN, op : Ops]
             /\ h.mem = f.mem /\ h.op = f.op /\ h.wel = w
  BY <1>1
<1>2. ASSUME NEW h, h = [f EXCEPT !.op = o]
      PROVE  /\ h \in [mem : Cells, wel : BOOLEAN, op : Ops]
             /\ h.mem = f.mem /\ h.op = o /\ h.wel = f.wel
  BY <1>2
<1> QED  BY <1>1, <1>2

(* What the command of a save asks for. *)
SaveOp ==
  IF save.sectors > 0
  THEN [op |-> "erase", addr |-> save.sector, data |-> 0]
  ELSE [op |-> "program", addr |-> SaveWord(save.word).addr + (3 - save.byte),
        data |-> uint8(SaveWord(save.word).data, save.byte)]

LEMMA SaveOpType ==
  ASSUME Types, SaveStage, Saving
  PROVE  SaveOp \in Ops /\ SaveOp # Idle
<1>1. /\ save.sector + SectorBytes * save.sectors = EraseEnd
      /\ save.sectors \in Nat /\ save.sector \in Nat /\ save.byte \in 0 .. 3
      /\ save.word \in 0 .. SaveWords + 2
  BY WordsSaved, SMT DEF SaveStage, Types, Saves
<1>2. exe_available < FlashBytes /\ 12 + 4 * SaveWords <= FlashBytes
  <2>1. /\ exe_available \in Nat /\ exe_available \div 4 <= ImemWords
        /\ SaveWords = exe_available \div 4
    BY SizeOfWord, SMT DEF Types, MemoryType, SaveWords, Word
  <2> QED  BY <2>1, SMT
<1>3. CASE save.sectors > 0
  <2> DEFINE q == SectorBytes * (exe_available \div SectorBytes)
             m == SectorBytes * (save.sectors - 1)
  <2>1. q \in 0 .. exe_available /\ q \in Nat
    BY SectorsErased, SMT DEF Types, MemoryType, Word
  <2>2. m \in Nat /\ SectorBytes * save.sectors = m + SectorBytes
    BY <1>1, <1>3, SMT
  <2>3. EraseEnd = q + SectorBytes
    BY DEF EraseEnd
  <2> HIDE DEF q, m
  <2>4. save.sector <= q
    BY <1>1, <2>1, <2>2, <2>3, SMT
  <2>5. save.sector \in 0 .. FlashBytes - 1
    BY <1>1, <1>2, <2>1, <2>4, SMT DEF Types, MemoryType, Word
  <2>6. SaveOp = [op |-> "erase", addr |-> save.sector, data |-> 0]
    BY <1>3 DEF SaveOp
  <2> QED  BY <2>5, <2>6, Zeros DEF Ops, Idle
<1>4. CASE ~(save.sectors > 0)
  <2> DEFINE a == SaveWord(save.word).addr + (3 - save.byte)
             d == uint8(SaveWord(save.word).data, save.byte)
  <2>1. SaveWord(save.word).addr \in 0 .. 8 + 4 * SaveWords
    <3>1. \/ save.word \in {0, 1} \/ save.word \in 2 .. SaveWords + 1 \/ save.word = SaveWords + 2
      BY <1>1, WordsSaved, SMT
    <3>2. SaveWord(0).addr = 0 /\ SaveWord(1).addr = 4 /\ SaveWord(SaveWords + 2).addr = 8
      BY WordsSaved
    <3>3. CASE save.word \in 2 .. SaveWords + 1
      <4>1. SaveWord(save.word).addr = 12 + 4 * (save.word - 2)
        BY <3>3, WordsSaved
      <4> QED  BY <3>3, <4>1, WordsSaved, SMT
    <3>4. {0, 4, 8} \subseteq 0 .. 8 + 4 * SaveWords
      BY WordsSaved, SMT
    <3> QED  BY <3>1, <3>2, <3>3, <3>4
  <2>2. a \in 0 .. FlashBytes - 1
    <3>1. \A x \in 0 .. 8 + 4 * SaveWords : x + (3 - save.byte) \in 0 .. FlashBytes - 1
      <4>1. SaveWords \in Nat
        BY WordsSaved
      <4> QED  BY <1>1, <1>2, <4>1, SMT
    <3> QED  BY <2>1, <3>1
  <2>3. SaveWord(save.word).data \in Int
    BY <1>1, WordsSaved, SizeOfWord, SMT DEF Word
  <2>4. d \in Bytes
    BY <2>3, ByteOfWord
  <2>5. SaveOp = [op |-> "program", addr |-> a, data |-> d]
    BY <1>4 DEF SaveOp
  <2> HIDE DEF a, d
  <2> QED  BY <2>2, <2>4, <2>5 DEF Ops, Idle
<1> QED  BY <1>3, <1>4

LEMMA FlashNext ==
  ASSUME Types, SaveStage, FlashStage, [Next]_vars
  PROVE  FlashType' /\ FlashStage'
<1>1. flash \in [mem : Cells, wel : BOOLEAN, op : Ops]
  BY DEF Types, FlashType
<1>2. /\ flash.op # Idle => flash.wel
      /\ pc \in {"enable", "command", "stored"} => flash.op = Idle
      /\ pc = "command" => flash.wel
      /\ pc = "get" /\ cmd # "upload" => flash.op = Idle
  BY DEF FlashStage
<1>3. CASE FlashDone
  <2>1. flash' = [mem |-> Effect(flash.op), wel |-> FALSE, op |-> Idle] /\ flash.op # Idle
        /\ UNCHANGED <<pc, cmd>>
    BY <1>3 DEF FlashDone
  <2>2. Effect(flash.op) \in Cells
    BY <1>1, EffectCells
  <2> QED  BY <1>2, <2>1, <2>2, Zeros DEF FlashType, FlashStage
<1>4. CASE PowerFail
  <2>1. PICK m \in {flash.mem, Effect(flash.op)} : flash' = [mem |-> m, wel |-> FALSE, op |-> Idle]
    BY <1>4 DEF PowerFail
  <2>2. m \in Cells /\ pc' = "crt0"
    BY <1>1, <1>4, <2>1, EffectCells DEF PowerFail, Goto
  <2> QED  BY <2>1, <2>2, Zeros DEF FlashType, FlashStage
<1>5. CASE SaveCommand
  <2>1. pc = "command" /\ pc' = "poll" /\ flash.op = Idle /\ flash.wel
    BY <1>2, <1>5 DEF SaveCommand, Goto
  <2>2. flash' = [flash EXCEPT !.op = SaveOp]
    BY <1>5, <2>1 DEF SaveCommand, Accept, SaveOp
  <2>3. SaveOp \in Ops
    BY <2>1, SaveOpType DEF Saving
  <2>4. flash' \in [mem : Cells, wel : BOOLEAN, op : Ops] /\ flash'.wel = flash.wel
    BY <1>1, <2>2, <2>3, NextFlash, Zenon
  <2> QED  BY <2>1, <2>4 DEF FlashType, FlashStage
<1>6. CASE pc \in {"wren", "enable"} /\ flash.op = Idle /\ flash' = [flash EXCEPT !.wel = TRUE]
  <2>1. /\ flash' \in [mem : Cells, wel : BOOLEAN, op : Ops]
        /\ flash'.op = Idle /\ flash'.wel = TRUE
    BY <1>1, <1>6, NextFlash, Zenon
  <2> QED  BY <2>1 DEF FlashType, FlashStage
<1>7. CASE pc = "wrdi" /\ flash.op = Idle /\ flash' = [flash EXCEPT !.wel = FALSE]
  <2>1. /\ flash' \in [mem : Cells, wel : BOOLEAN, op : Ops]
        /\ flash'.op = Idle /\ flash'.wel = FALSE
    BY <1>1, <1>7, NextFlash, Zenon
  <2>2. pc' # "command"
    BY <1>7 DEF vars, Next, Program, Goto, Crt0, Main, AbortAutoBoot, AutoBoot, Console, StartApp,
       Jump, Error, Lit, GetByte, GetWord, Verify, FlashCheck, Confirm, SaveEnable, SaveCommand,
       SavePoll, Stored_OK, TimerTrap, FlashDone, HostKey, HostUpload, HostByte, Reset, PowerFail
  <2> QED  BY <2>1, <2>2 DEF FlashType, FlashStage
<1>8. CASE UNCHANGED flash
  <2>1. \/ UNCHANGED <<pc, cmd>>
        \/ pc = "clear?" /\ ~flash.wel /\ pc' \in {"enable", "get"}
        \/ SaveEnable
        \/ SavePoll
        \/ pc' = "get" /\ cmd' = "upload"
        \/ pc' \notin {"enable", "command", "stored", "get"}
    BY DEF EnterGetExe, StoreFault, system_error, NextWrite, vars, Next, Program, Goto, Crt0, Main, AbortAutoBoot, AutoBoot, Console, StartApp,
       Jump, Error, Lit, GetByte, GetWord, Verify, FlashCheck, Confirm, SaveEnable, SaveCommand,
       SavePoll, Stored_OK, TimerTrap, FlashDone, HostKey, HostUpload, HostByte, Reset, PowerFail
  <2>2. CASE SaveEnable
    <3>1. pc = "enable" /\ pc' = "command" /\ flash.op = Idle
      BY <1>2, <2>2 DEF SaveEnable, Goto
    <3>2. flash' = [flash EXCEPT !.wel = TRUE]
      BY <2>2, <3>1 DEF SaveEnable, WriteEnable
    <3>3. flash'.wel = TRUE
      BY <1>1, <3>2, NextFlash, Zeros, Zenon
    <3> QED  BY <1>1, <1>8, <3>1, <3>3 DEF FlashType, FlashStage
  <2>3. CASE SavePoll
    <3>1. flash.op = Idle /\ pc' \in {"enable", "stored"}
      BY <2>3, PollStep
    <3> QED  BY <1>1, <1>2, <1>8, <3>1 DEF FlashType, FlashStage
  <2>4. CASE ~SaveEnable /\ ~SavePoll
    BY <1>1, <1>2, <1>8, <2>1, <2>4 DEF FlashType, FlashStage
  <2> QED  BY <2>2, <2>3, <2>4
<1> QED  BY <1>3, <1>4, <1>5, <1>6, <1>7, <1>8, FlashSteps

LEMMA ControlTypeNext == Types /\ [Next]_vars => ControlType'
<1> SUFFICES ASSUME ControlType, [Next]_vars
             PROVE  ControlType'
  BY DEF Types
<1> USE DEF Goto
<1>1. CASE Crt0
  BY <1>1 DEF Crt0, ControlType, Labels, Commands
<1>2. CASE Main
  BY <1>2 DEF Main, ControlType, Labels, Commands
<1>3. CASE AbortAutoBoot
  BY <1>3 DEF AbortAutoBoot, ControlType, Labels, Commands
<1>4. CASE AutoBoot
  BY <1>4 DEF AutoBoot, EnterGetExe, ControlType, Labels, Commands
<1>5. CASE Console
  BY <1>5 DEF Console, EnterGetExe, ControlType, Labels, Commands
<1>6. CASE StartApp
  BY <1>6 DEF StartApp, ControlType, Labels, Commands
<1>7. CASE Jump
  BY <1>7 DEF Jump, ControlType, Labels, Commands
<1>8. CASE Error
  BY <1>8 DEF Error, ControlType, Labels, Commands
<1>9. CASE Lit
  BY <1>9 DEF Lit, ControlType, Labels, Commands
<1>10. CASE GetByte
  BY <1>10 DEF GetByte, ControlType, Labels, Commands
<1>11. CASE GetWord
  BY <1>11 DEF GetWord, StoreFault, system_error, ControlType, Labels, Commands
<1>12. CASE Verify
  BY <1>12 DEF Verify, system_error, ControlType, Labels, Commands
<1>13. CASE FlashCheck
  BY <1>13 DEF FlashCheck, system_error, ControlType, Labels, Commands
<1>14. CASE Confirm
  BY <1>14 DEF Confirm, ControlType, Labels, Commands
<1>15. CASE SaveEnable
  BY <1>15 DEF SaveEnable, ControlType, Labels, Commands
<1>16. CASE SaveCommand
  BY <1>16 DEF SaveCommand, ControlType, Labels, Commands
<1>17. CASE SavePoll
  BY <1>17 DEF SavePoll, NextWrite, LastByte, ControlType, Labels, Commands
<1>18. CASE Stored_OK
  BY <1>18 DEF Stored_OK, ControlType, Labels, Commands
<1>19. CASE TimerTrap
  BY <1>19 DEF TimerTrap, ControlType, Labels, Commands
<1>20. CASE FlashDone
  BY <1>20 DEF FlashDone, ControlType, Labels, Commands
<1>21. CASE HostKey
  BY <1>21 DEF HostKey, ControlType, Labels, Commands
<1>22. CASE HostUpload
  BY <1>22 DEF HostUpload, ControlType, Labels, Commands
<1>23. CASE HostByte
  BY <1>23 DEF HostByte, ControlType, Labels, Commands
<1>24. CASE Reset
  BY <1>24, Zeros DEF Reset, ControlType, Labels, Commands
<1>25. CASE PowerFail
  BY <1>25, Zeros DEF PowerFail, ControlType, Labels, Commands
<1>26. CASE UNCHANGED vars
  BY <1>26 DEF vars, ControlType, Labels, Commands
<1> QED  BY <1>1, <1>2, <1>3, <1>4, <1>5, <1>6, <1>7, <1>8, <1>9, <1>10, <1>11, <1>12, <1>13, <1>14, <1>15, <1>16, <1>17, <1>18, <1>19, <1>20, <1>21, <1>22, <1>23, <1>24, <1>25, <1>26 DEF Next, Program

-----------------------------------------------------------------------------
(* A bootloader that has stalled. *)

LEMMA QuietNext == StalledQuietly /\ [Next]_vars => StalledQuietly'
<1> SUFFICES ASSUME StalledQuietly, [Next]_vars
             PROVE  StalledQuietly'
  OBVIOUS
<1> USE DEF Goto
<1>1. CASE Crt0
  BY <1>1 DEF Crt0, StalledQuietly
<1>2. CASE Main
  BY <1>2 DEF Main, StalledQuietly
<1>3. CASE AbortAutoBoot
  BY <1>3 DEF AbortAutoBoot, StalledQuietly
<1>4. CASE AutoBoot
  BY <1>4 DEF AutoBoot, EnterGetExe, StalledQuietly
<1>5. CASE Console
  BY <1>5 DEF Console, EnterGetExe, StalledQuietly
<1>6. CASE StartApp
  BY <1>6 DEF StartApp, StalledQuietly
<1>7. CASE Jump
  BY <1>7 DEF Jump, StalledQuietly
<1>8. CASE Error
  BY <1>8 DEF Error, StalledQuietly
<1>9. CASE Lit
  BY <1>9 DEF Lit, StalledQuietly
<1>10. CASE GetByte
  BY <1>10 DEF GetByte, StalledQuietly
<1>11. CASE GetWord
  BY <1>11 DEF GetWord, StoreFault, system_error, StalledQuietly
<1>12. CASE Verify
  BY <1>12 DEF Verify, system_error, StalledQuietly
<1>13. CASE FlashCheck
  BY <1>13 DEF FlashCheck, system_error, StalledQuietly
<1>14. CASE Confirm
  BY <1>14 DEF Confirm, StalledQuietly
<1>15. CASE SaveEnable
  BY <1>15 DEF SaveEnable, StalledQuietly
<1>16. CASE SaveCommand
  BY <1>16 DEF SaveCommand, StalledQuietly
<1>17. CASE SavePoll
  BY <1>17 DEF SavePoll, NextWrite, LastByte, StalledQuietly
<1>18. CASE Stored_OK
  BY <1>18 DEF Stored_OK, StalledQuietly
<1>19. CASE TimerTrap
  BY <1>19 DEF TimerTrap, StalledQuietly
<1>20. CASE FlashDone
  BY <1>20 DEF FlashDone, StalledQuietly
<1>21. CASE HostKey
  BY <1>21 DEF HostKey, StalledQuietly
<1>22. CASE HostUpload
  BY <1>22 DEF HostUpload, StalledQuietly
<1>23. CASE HostByte
  BY <1>23 DEF HostByte, StalledQuietly
<1>24. CASE Reset
  BY <1>24 DEF Reset, StalledQuietly
<1>25. CASE PowerFail
  BY <1>25 DEF PowerFail, StalledQuietly
<1>26. CASE UNCHANGED vars
  BY <1>26 DEF vars, StalledQuietly
<1> QED  BY <1>1, <1>2, <1>3, <1>4, <1>5, <1>6, <1>7, <1>8, <1>9, <1>10, <1>11, <1>12, <1>13, <1>14, <1>15, <1>16, <1>17, <1>18, <1>19, <1>20, <1>21, <1>22, <1>23, <1>24, <1>25, <1>26 DEF Next, Program

-----------------------------------------------------------------------------
(* What a save leaves in the flash. *)

(* The sectors that are erased hold the program and its header.             *)
Room == (exe_available % SectorBytes) + EXE_OFFSET_DATA <= SectorBytes

Cell(n, b) == SaveWord(n).addr + (3 - b)
Byte(n, b) == uint8(SaveWord(n).data, b)

(* The words before n and the bytes before b of n are written, and the rest *)
(* of the image is erased.                                                  *)
WrittenTo(mem, n, b) ==
  \A m \in 0 .. SaveWords + 2, c \in 0 .. 3 :
     mem[Cell(m, c)] = IF m < n \/ (m = n /\ c < b) THEN Byte(m, c) ELSE Erased

ErasedTo(mem, a) == \A x \in 0 .. FlashBytes - 1 : x < a => mem[x] = Erased

Before == IF save.sectors > 0 THEN ErasedTo(flash.mem, save.sector)
          ELSE WrittenTo(flash.mem, save.word, save.byte)
After  == IF save.sectors > 0 THEN ErasedTo(flash.mem, save.sector + SectorBytes)
          ELSE WrittenTo(flash.mem, save.word, save.byte + 1)

Contents ==
  Room => /\ pc \in {"enable", "command"} => Before
          /\ pc = "poll" => \/ flash.op = SaveOp /\ Before
                            \/ flash.op = Idle /\ After
          /\ pc = "stored" => WrittenTo(flash.mem, SaveWords + 2, 4)

(* No two bytes of an image share a place.                                  *)
LEMMA CellsDiffer ==
  ASSUME Types, NEW m \in 0 .. SaveWords + 2, NEW c \in 0 .. 3,
         NEW n \in 0 .. SaveWords + 2, NEW b \in 0 .. 3
  PROVE  /\ Cell(m, c) \in 0 .. 11 + 4 * SaveWords
         /\ Cell(m, c) = Cell(n, b) => m = n /\ c = b
<1> DEFINE slot(k) == IF k = 0 THEN 0 ELSE IF k = 1 THEN 1 ELSE IF k = SaveWords + 2 THEN 2 ELSE k + 1
<1>1. SaveWords \in Nat
  BY WordsSaved
<1>2. \A k \in 0 .. SaveWords + 2 : SaveWord(k).addr = 4 * slot(k)
  <2> SUFFICES ASSUME NEW k \in 0 .. SaveWords + 2
               PROVE  SaveWord(k).addr = 4 * slot(k)
    OBVIOUS
  <2>1. CASE k \in {0, 1}
    BY <2>1, WordsSaved, SMT
  <2>2. CASE k = SaveWords + 2
    BY <1>1, <2>2, WordsSaved, SMT
  <2>3. CASE k \in 2 .. SaveWords + 1
    BY <1>1, <2>3, WordsSaved, SMT
  <2> QED  BY <1>1, <2>1, <2>2, <2>3, SMT
<1>3. \A k \in 0 .. SaveWords + 2 : slot(k) \in 0 .. SaveWords + 2
  BY <1>1, SMT
<1>4. \A k, l \in 0 .. SaveWords + 2 : slot(k) = slot(l) => k = l
  BY <1>1, SMT
<1>5. Cell(m, c) = 4 * slot(m) + (3 - c) /\ Cell(n, b) = 4 * slot(n) + (3 - b)
  BY <1>2 DEF Cell
<1> HIDE DEF slot
<1>6. slot(m) \in 0 .. SaveWords + 2 /\ slot(n) \in 0 .. SaveWords + 2
  BY <1>3
<1>7. Cell(m, c) \in 0 .. 11 + 4 * SaveWords
  BY <1>1, <1>5, <1>6, SMT
<1>8. \A x, y \in Nat : \A d, e \in {0, 1, 2, 3} :
        4 * x + (3 - d) = 4 * y + (3 - e) => x = y /\ d = e
  BY SMT
<1>9. slot(m) \in Nat /\ slot(n) \in Nat /\ c \in {0, 1, 2, 3} /\ b \in {0, 1, 2, 3}
  BY <1>1, <1>6, SMT
<1>10. Cell(m, c) = Cell(n, b) => slot(m) = slot(n) /\ c = b
  BY <1>5, <1>8, <1>9
<1> QED  BY <1>4, <1>7, <1>10

LEMMA ByteSaved ==
  ASSUME Types, NEW n \in 0 .. SaveWords + 2, NEW b \in 0 .. 3
  PROVE  Byte(n, b) \in Bytes
<1>1. SaveWord(n).data \in Int
  BY WordsSaved, SizeOfWord, SMT DEF Word
<1> QED  BY <1>1, ByteOfWord DEF Byte

(* The image lies in the flash, and within the sectors when there is room.  *)
LEMMA ImageFits ==
  ASSUME Types
  PROVE  /\ SaveWords \in Nat /\ 12 + 4 * SaveWords <= FlashBytes
         /\ Room => 12 + 4 * SaveWords <= EraseEnd
<1>1. SaveWords \in Nat /\ 4 * SaveWords <= exe_available /\ SaveWords <= ImemWords
  BY WordsSaved DEF Types, MemoryType
<1>2. 12 + 4 * SaveWords <= FlashBytes
  BY <1>1, SMT
<1> DEFINE q == SectorBytes * (exe_available \div SectorBytes)
           r == exe_available % SectorBytes
<1>3. q \in Int /\ exe_available \in Nat
  BY SectorsErased, SizeOfWord, SMT DEF Types, MemoryType, Word
<1>4. exe_available = q + r
  BY SectorsErased
<1>5. EraseEnd = q + SectorBytes
  BY DEF EraseEnd
<1>6. Room => r + 12 <= SectorBytes
  BY DEF Room
<1>7. r \in Int
  BY <1>3, SMT
<1> HIDE DEF q, r
<1>8. Room => 12 + 4 * SaveWords <= EraseEnd
  BY <1>1, <1>3, <1>4, <1>5, <1>6, <1>7, SMT
<1> QED  BY <1>1, <1>2, <1>8

(* The end of an erase, and of the programming of a byte.                   *)
LEMMA Erasing ==
  ASSUME Types, NEW a, ErasedTo(flash.mem, a), a \in Nat,
         NEW op \in Ops, op.op = "erase", op.addr = a
  PROVE  ErasedTo(Effect(op), a + SectorBytes)
<1> SUFFICES ASSUME NEW x \in 0 .. FlashBytes - 1, x < a + SectorBytes
             PROVE  Effect(op)[x] = Erased
  BY DEF ErasedTo
<1>1. DOMAIN flash.mem = 0 .. FlashBytes - 1
  BY DEF Types, FlashType, Cells
<1>2. CASE x < a
  <2>1. flash.mem[x] = Erased
    BY <1>2 DEF ErasedTo
  <2> QED  BY <1>1, <2>1 DEF Effect
<1>3. CASE ~(x < a)
  <2>1. x \in op.addr .. op.addr + SectorBytes - 1
    BY <1>3, SMT
  <2> QED  BY <1>1, <2>1 DEF Effect
<1> QED  BY <1>2, <1>3

LEMMA Programming ==
  ASSUME Types, NEW n \in 0 .. SaveWords + 2, NEW b \in 0 .. 3, WrittenTo(flash.mem, n, b),
         NEW op \in Ops, op.op = "program", op.addr = Cell(n, b), op.data = Byte(n, b)
  PROVE  WrittenTo(Effect(op), n, b + 1)
<1> SUFFICES ASSUME NEW m \in 0 .. SaveWords + 2, NEW c \in 0 .. 3
             PROVE  Effect(op)[Cell(m, c)] = IF m < n \/ (m = n /\ c < b + 1) THEN Byte(m, c) ELSE Erased
  BY DEF WrittenTo
<1>1. DOMAIN flash.mem = 0 .. FlashBytes - 1
  BY DEF Types, FlashType, Cells
<1>2. Cell(m, c) \in 0 .. FlashBytes - 1
  <2>1. Cell(m, c) \in 0 .. 11 + 4 * SaveWords
    BY CellsDiffer
  <2>2. 0 .. 11 + 4 * SaveWords \subseteq 0 .. FlashBytes - 1
    BY ImageFits, SMT
  <2> QED  BY <2>1, <2>2
<1>3. flash.mem[Cell(m, c)] = IF m < n \/ (m = n /\ c < b) THEN Byte(m, c) ELSE Erased
  BY DEF WrittenTo
<1>4. CASE m = n /\ c = b
  <2>1. flash.mem[Cell(m, c)] = Erased
    <3>1. ~(m < n) /\ ~(c < b)
      BY <1>4, WordsSaved, SMT
    <3> QED  BY <1>3, <3>1
  <2>2. Effect(op)[Cell(m, c)] = And(Erased, Byte(n, b))
    BY <1>1, <1>2, <1>4, <2>1 DEF Effect
  <2>3. And(Erased, Byte(n, b)) = Byte(n, b)
    BY AndByte, ByteSaved, Zeros
  <2>4. c < b + 1
    BY <1>4, SMT
  <2> QED  BY <1>4, <2>2, <2>3, <2>4
<1>5. CASE ~(m = n /\ c = b)
  <2>1. Cell(m, c) # op.addr
    BY <1>5, CellsDiffer
  <2>2. Effect(op)[Cell(m, c)] = flash.mem[Cell(m, c)]
    BY <1>1, <1>2, <2>1 DEF Effect
  <2>3. (m < n \/ (m = n /\ c < b + 1)) <=> (m < n \/ (m = n /\ c < b))
    BY <1>5, SMT
  <2> QED  BY <1>3, <2>2, <2>3
<1> QED  BY <1>4, <1>5

(* The flash ends what a save asked for.                                    *)
LEMMA OperationDone ==
  ASSUME Types, SaveStage, Saving, Before, flash.op = SaveOp
  PROVE  IF save.sectors > 0 THEN ErasedTo(Effect(SaveOp), save.sector + SectorBytes)
         ELSE WrittenTo(Effect(SaveOp), save.word, save.byte + 1)
<1>1. SaveOp \in Ops
  BY SaveOpType
<1>2. save.sector \in Nat /\ save.byte \in 0 .. 3 /\ save.word \in 0 .. SaveWords + 2
  BY WordsSaved, SMT DEF SaveStage, Types, Saves
<1>3. CASE save.sectors > 0
  <2>1. SaveOp.op = "erase" /\ SaveOp.addr = save.sector
    BY <1>3 DEF SaveOp
  <2>2. ErasedTo(flash.mem, save.sector)
    BY <1>3 DEF Before
  <2> QED  BY <1>1, <1>2, <1>3, <2>1, <2>2, Erasing
<1>4. CASE ~(save.sectors > 0)
  <2>1. /\ SaveOp.op = "program" /\ SaveOp.addr = Cell(save.word, save.byte)
        /\ SaveOp.data = Byte(save.word, save.byte)
    BY <1>4 DEF SaveOp, Cell, Byte
  <2>2. WrittenTo(flash.mem, save.word, save.byte)
    BY <1>4 DEF Before
  <2> QED  BY <1>1, <1>2, <1>4, <2>1, <2>2, Programming
<1> QED  BY <1>3, <1>4

LEMMA SavingSteps ==
  ASSUME [Next]_vars, Saving'
  PROVE  /\ UNCHANGED <<exe_available, imem>>
         /\ \/ UNCHANGED <<pc, save, flash>>
            \/ /\ pc = "clear?" /\ cmd = "store" /\ pc' = "enable"
               /\ UNCHANGED <<flash, save>>
            \/ SaveEnable \/ SaveCommand \/ SavePoll \/ FlashDone
  BY DEF Saving, EnterGetExe, StoreFault, system_error, NextWrite, vars, Next, Program, Goto, Crt0,
     Main, AbortAutoBoot, AutoBoot, Console, StartApp, Jump, Error, Lit, GetByte, GetWord, Verify,
     FlashCheck, Confirm, SaveEnable, SaveCommand, SavePoll, Stored_OK, TimerTrap, FlashDone,
     HostKey, HostUpload, HostByte, Reset, PowerFail

(* The image to be written stays what it is.                                *)
LEMMA SameImage ==
  ASSUME UNCHANGED <<exe_available, imem>>
  PROVE  /\ Room' = Room /\ SaveWords' = SaveWords
         /\ Before' = IF save'.sectors > 0 THEN ErasedTo(flash'.mem, save'.sector)
                      ELSE WrittenTo(flash'.mem, save'.word, save'.byte)
         /\ After' = IF save'.sectors > 0 THEN ErasedTo(flash'.mem, save'.sector + SectorBytes)
                     ELSE WrittenTo(flash'.mem, save'.word, save'.byte + 1)
         /\ WrittenTo(flash.mem, SaveWords + 2, 4)' = WrittenTo(flash'.mem, SaveWords + 2, 4)
         /\ save' = save => SaveOp' = SaveOp
<1>1. Room' = Room /\ SaveWords' = SaveWords
  BY DEF Room, SaveWords
<1>2. \A n : SaveWord(n)' = SaveWord(n)
  BY <1>1 DEF SaveWord
<1>3. \A n, b : Cell(n, b)' = Cell(n, b) /\ Byte(n, b)' = Byte(n, b)
  BY <1>2 DEF Cell, Byte
<1>4. Before' = IF save'.sectors > 0 THEN ErasedTo(flash'.mem, save'.sector)
                ELSE WrittenTo(flash'.mem, save'.word, save'.byte)
  BY <1>1, <1>3 DEF Before, ErasedTo, WrittenTo
<1>5. After' = IF save'.sectors > 0 THEN ErasedTo(flash'.mem, save'.sector + SectorBytes)
               ELSE WrittenTo(flash'.mem, save'.word, save'.byte + 1)
  BY <1>1, <1>3 DEF After, ErasedTo, WrittenTo
<1>6. WrittenTo(flash.mem, SaveWords + 2, 4)' = WrittenTo(flash'.mem, SaveWords + 2, 4)
  BY <1>1, <1>3 DEF WrittenTo
<1>7. save' = save => SaveOp' = SaveOp
  BY <1>2 DEF SaveOp
<1> QED  BY <1>1, <1>4, <1>5, <1>6, <1>7

LEMMA ErasedThenWritten ==
  ASSUME Types, Room, ErasedTo(flash.mem, EraseEnd)
  PROVE  WrittenTo(flash.mem, 0, 0)
<1> SUFFICES ASSUME NEW m \in 0 .. SaveWords + 2, NEW c \in 0 .. 3
             PROVE  flash.mem[Cell(m, c)] = IF m < 0 \/ (m = 0 /\ c < 0) THEN Byte(m, c) ELSE Erased
  BY DEF WrittenTo
<1>1. Cell(m, c) \in 0 .. 11 + 4 * SaveWords
  BY CellsDiffer
<1>2. \A x \in 0 .. 11 + 4 * SaveWords : x \in 0 .. FlashBytes - 1 /\ x < EraseEnd
  <2>1. EraseEnd \in Int
    BY SectorsErased, SMT DEF EraseEnd
  <2> QED  BY <2>1, ImageFits, SMT
<1>3. ~(m < 0 \/ (m = 0 /\ c < 0))
  BY WordsSaved, SMT
<1> QED  BY <1>1, <1>2, <1>3 DEF ErasedTo

LEMMA NextWord ==
  ASSUME Types, NEW n \in 0 .. SaveWords + 1, WrittenTo(flash.mem, n, 4)
  PROVE  WrittenTo(flash.mem, n + 1, 0)
<1>1. SaveWords \in Nat
  BY WordsSaved
<1>2. \A m \in 0 .. SaveWords + 2, c \in 0 .. 3 :
        (m < n \/ (m = n /\ c < 4)) <=> (m < n + 1 \/ (m = n + 1 /\ c < 0))
  BY <1>1, SMT
<1> QED  BY <1>2 DEF WrittenTo

LEMMA ContentsNext ==
  ASSUME Types, SaveStage, FlashStage, Contents, [Next]_vars
  PROVE  Contents'
<1> SUFFICES ASSUME Saving', Room'
             PROVE  /\ pc' \in {"enable", "command"} => Before'
                    /\ pc' = "poll" => \/ flash'.op = SaveOp' /\ Before'
                                       \/ flash'.op = Idle /\ After'
                    /\ pc' = "stored" => WrittenTo(flash.mem, SaveWords + 2, 4)'
  BY DEF Contents, Saving
<1>1. UNCHANGED <<exe_available, imem>>
  BY SavingSteps
<1>2. Room
  BY <1>1, SameImage
<1>3. flash \in [mem : Cells, wel : BOOLEAN, op : Ops]
  BY DEF Types, FlashType
<1>4. /\ pc \in {"enable", "command"} => Before
      /\ pc = "poll" => \/ flash.op = SaveOp /\ Before
                        \/ flash.op = Idle /\ After
      /\ pc = "stored" => WrittenTo(flash.mem, SaveWords + 2, 4)
  BY <1>2 DEF Contents
<1>5. pc \in {"enable", "command", "stored"} => flash.op = Idle
  BY DEF FlashStage
<1>6. CASE UNCHANGED <<pc, save, flash>>
  BY <1>1, <1>4, <1>6, SameImage DEF Before, After
<1>7. CASE pc = "clear?" /\ cmd = "store" /\ pc' = "enable" /\ UNCHANGED <<flash, save>>
  <2>1. save = Fresh
    BY <1>7 DEF SaveStage, Checking
  <2>2. save.sectors > 0 /\ save.sector = 0
    <3>1. exe_available \div SectorBytes + 1 > 0
      BY SectorsErased, SMT
    <3> QED  BY <2>1, <3>1 DEF Fresh, NoSave
  <2>3. ErasedTo(flash.mem, 0)
    BY SMT DEF ErasedTo
  <2> QED  BY <1>1, <1>7, <2>2, <2>3, SameImage
<1>8. CASE SaveEnable
  <2>1. pc = "enable" /\ pc' = "command" /\ UNCHANGED save /\ flash.op = Idle
    BY <1>5, <1>8 DEF SaveEnable, Goto
  <2>2. flash' = [flash EXCEPT !.wel = TRUE]
    BY <1>8, <2>1 DEF SaveEnable, WriteEnable
  <2>3. flash'.mem = flash.mem
    BY <1>3, <2>2, NextFlash, Zeros, Zenon
  <2> QED  BY <1>1, <1>4, <2>1, <2>3, SameImage DEF Before
<1>9. CASE SaveCommand
  <2>1. pc = "command" /\ pc' = "poll" /\ UNCHANGED save /\ flash.op = Idle /\ flash.wel
    BY <1>9 DEF SaveCommand, Goto, FlashStage
  <2>2. flash' = [flash EXCEPT !.op = SaveOp]
    BY <1>9, <2>1 DEF SaveCommand, Accept, SaveOp
  <2>3. SaveOp \in Ops
    BY <2>1, SaveOpType DEF Saving
  <2>4. flash'.mem = flash.mem /\ flash'.op = SaveOp
    BY <1>3, <2>2, <2>3, NextFlash, Zenon
  <2> QED  BY <1>1, <1>4, <2>1, <2>4, SameImage DEF Before
<1>10. CASE SavePoll
  <2>1. /\ pc = "poll" /\ flash.op = Idle /\ flash' = flash /\ Saving
    BY <1>10, PollStep DEF Saving
  <2>2. After
    BY <1>4, <2>1, SaveOpType
  <2>3. /\ save.sector \in Nat /\ save.sectors \in Nat /\ save.byte \in 0 .. 3
        /\ save.word \in 0 .. SaveWords + 2 /\ SaveWords \in Nat
        /\ save.sector + SectorBytes * save.sectors = EraseEnd
        /\ save.sectors > 0 => save.word = 0 /\ save.byte = 0
    BY <2>1, WordsSaved, SMT DEF SaveStage, Types, Saves
  <2>4. CASE save.sectors > 0
    <3>1. /\ pc' = "enable" /\ save'.sectors = save.sectors - 1
          /\ save'.sector = save.sector + SectorBytes
          /\ save'.word = 0 /\ save'.byte = 0
      BY <1>10, <2>3, <2>4, PollStep
    <3>2. ErasedTo(flash.mem, save.sector + SectorBytes)
      BY <2>2, <2>4 DEF After
    <3>3. CASE save.sectors = 1
      <4>1. save.sector + SectorBytes = EraseEnd
        BY <2>3, <3>3, SMT
      <4>2. WrittenTo(flash.mem, 0, 0)
        BY <1>2, <3>2, <4>1, ErasedThenWritten
      <4>3. ~(save'.sectors > 0)
        BY <3>1, <3>3, SMT
      <4> QED  BY <1>1, <2>1, <3>1, <4>2, <4>3, SameImage
    <3>4. CASE save.sectors # 1
      <4>1. save'.sectors > 0
        BY <2>3, <2>4, <3>1, <3>4, SMT
      <4> QED  BY <1>1, <2>1, <3>1, <3>2, <4>1, SameImage
    <3> QED  BY <3>3, <3>4
  <2>5. CASE save.sectors = 0
    <3>1. ~(save.sectors > 0)
      BY <2>5, SMT
    <3>2. WrittenTo(flash.mem, save.word, save.byte + 1)
      BY <2>2, <3>1 DEF After
    <3>3. CASE save.byte < 3
      <4>1. /\ pc' = "enable" /\ ~(save'.sectors > 0)
            /\ save'.word = save.word /\ save'.byte = save.byte + 1
        BY <1>10, <2>5, <3>1, <3>3, PollStep, SMT
      <4> QED  BY <1>1, <2>1, <3>2, <4>1, SameImage
    <3>4. CASE save.byte = 3 /\ save.word = SaveWords + 2
      <4>1. pc' = "stored"
        BY <1>10, <2>3, <2>5, <3>4, PollStep, SMT
      <4>2. save.byte + 1 = 4
        BY <3>4
      <4> QED  BY <1>1, <2>1, <3>2, <3>4, <4>1, <4>2, SameImage
    <3>5. CASE save.byte = 3 /\ save.word # SaveWords + 2
      <4>1. save.word \in 0 .. SaveWords + 1 /\ save.byte + 1 = 4
        BY <2>3, <3>5, SMT
      <4>2. /\ pc' = "enable" /\ ~(save'.sectors > 0)
            /\ save'.word = save.word + 1 /\ save'.byte = 0
        BY <1>10, <2>3, <2>5, <3>5, PollStep, SMT
      <4>3. WrittenTo(flash.mem, save.word + 1, 0)
        BY <3>2, <4>1, NextWord
      <4> QED  BY <1>1, <2>1, <4>2, <4>3, SameImage
    <3>6. save.byte < 3 \/ save.byte = 3
      <4>1. save.byte \in {0, 1, 2, 3}
        BY <2>3
      <4> QED  BY <4>1
    <3> QED  BY <3>3, <3>4, <3>5, <3>6
  <2> QED  BY <2>3, <2>4, <2>5, SMT
<1>11. CASE FlashDone
  <2>1. /\ flash.op # Idle /\ UNCHANGED <<pc, save>>
        /\ flash'.mem = Effect(flash.op) /\ flash'.op = Idle
    BY <1>11 DEF FlashDone
  <2>2. pc = "poll" /\ Saving
    BY <1>5, <2>1 DEF Saving
  <2>3. flash.op = SaveOp /\ Before
    BY <1>4, <2>1, <2>2
  <2> QED  BY <1>1, <2>1, <2>2, <2>3, OperationDone, SameImage
<1> QED  BY <1>6, <1>7, <1>8, <1>9, <1>10, <1>11, SavingSteps

-----------------------------------------------------------------------------
(* The invariant and what follows from it. *)

IInv == Types /\ SaveStage /\ FlashStage /\ Contents

LEMMA IInvInit == Init => IInv
<1> SUFFICES ASSUME Init
             PROVE  IInv
  OBVIOUS
<1>1. Types
  BY TypesInit
<1>2. pc = "crt0" /\ save = NoSave /\ flash.op = Idle
  BY DEF Init
<1>3. save.word <= SaveWords + 2
  <2>1. save.word = 0
    BY <1>2 DEF NoSave
  <2> QED  BY <1>1, <2>1, WordsSaved, SMT
<1>4. SaveStage /\ FlashStage /\ Contents
  BY <1>2, <1>3 DEF SaveStage, Checking, Saving, FlashStage, Contents
<1> QED  BY <1>1, <1>4 DEF IInv

LEMMA IInvNext == IInv /\ [Next]_vars => IInv'
<1> SUFFICES ASSUME IInv, [Next]_vars
             PROVE  IInv'
  OBVIOUS
<1>1. Types /\ SaveStage /\ FlashStage /\ Contents
  BY DEF IInv
<1>2. ControlType' /\ MemoryType' /\ GetType' /\ LineType' /\ save' \in Saves
  BY <1>1, ControlTypeNext, MemoryTypeNext, GetTypeNext, LineTypeNext, SaveTypeNext
<1>3. FlashType' /\ FlashStage'
  BY <1>1, FlashNext
<1>4. SaveStage'
  BY <1>1, SaveStageNext
<1>5. Contents'
  BY <1>1, ContentsNext
<1> QED  BY <1>2, <1>3, <1>4, <1>5 DEF IInv, Types

LEMMA IInvAlways == Spec => []IInv
  BY IInvInit, IInvNext, PTL DEF Spec

LEMMA IInvTypeOK == IInv => TypeOK
<1> SUFFICES ASSUME IInv
             PROVE  TypeOK
  OBVIOUS
<1>1. Types /\ save.word <= SaveWords + 2
  BY DEF IInv, SaveStage
<1>2. get.field \in 0 .. 3 /\ get.i \in 0 .. ImemWords /\ get.bytes \in Seq(Bytes) /\ Len(get.bytes) <= 4
  BY <1>1 DEF Types, GetType, Gets
<1>3. get.bytes \in UNION {[1 .. n -> Bytes] : n \in 0 .. 4}
  <2>1. get.bytes \in [1 .. Len(get.bytes) -> Bytes] /\ Len(get.bytes) \in 0 .. 4
    <3>1. Len(get.bytes) \in Nat /\ get.bytes \in [1 .. Len(get.bytes) -> Bytes]
      BY <1>2, LenProperties
    <3>2. \A n \in Nat : n <= 4 => n \in 0 .. 4
      OBVIOUS
    <3> QED  BY <1>2, <3>1, <3>2, Zenon
  <2> QED  BY <2>1, Zenon
<1>4. flash.mem \in [0 .. FlashBytes - 1 -> Bytes] /\ flash.op.addr \in 0 .. FlashBytes - 1
  BY <1>1 DEF Types, FlashType, Cells, Ops
<1>5. save.byte \in 0 .. 3
  BY <1>1 DEF Types, Saves
<1>6. /\ pc \in Labels /\ cmd \in Commands
      /\ getting_exe \in BOOLEAN /\ irqs \in BOOLEAN /\ led \in BOOLEAN
      /\ Len(started) \in {0, ImemWords}
  BY <1>1 DEF Types, ControlType
<1>7. exe_available \in Word /\ imem \in [0 .. ImemWords - 1 -> Word] /\ Len(rx) <= RxDepth
  BY <1>1 DEF Types, MemoryType, LineType
<1> QED  BY <1>1, <1>2, <1>3, <1>4, <1>5, <1>6, <1>7 DEF TypeOK, Commands, Word

(* The bootloader's variables and those of the flash, the host and the line *)
(* have their types, and the flash is never given an address that it does   *)
(* not have.                                                                *)
THEOREM TypeCorrect == Spec => []TypeOK
  BY IInvAlways, IInvTypeOK, PTL

(* The flash is idle, and its write access allowed where that is needed,    *)
(* whenever get_exe reads it or save_exe gives it a command, whatever it    *)
(* was doing at a reset: a WEL flag that can be cleared (spi_flash_check)   *)
(* tells that nothing is going on.                                          *)
THEOREM FlashReadyCorrect == Spec => []FlashReady
<1>1. IInv => FlashReady
  BY DEF IInv, FlashStage, FlashReady
<1> QED  BY <1>1, IInvAlways, PTL

(* A bootloader that has stalled (system_error) keeps its LED on, and an    *)
(* application is entered with interrupts off (start_app).                  *)
THEOREM QuietCorrect == Spec => []StalledQuietly
<1>1. Init => StalledQuietly
  BY DEF Init, StalledQuietly
<1> QED  BY <1>1, QuietNext, PTL DEF Spec

(* Every word of a save reads back as it was meant to be.                   *)
ReadsBack ==
  pc = "stored" => \A n \in 0 .. SaveWords + 2 : FlashWord(flash.mem, SaveWord(n).addr) = SaveWord(n).data

LEMMA WordReadBack ==
  ASSUME Types, WrittenTo(flash.mem, SaveWords + 2, 4), NEW n \in 0 .. SaveWords + 2
  PROVE  FlashWord(flash.mem, SaveWord(n).addr) = SaveWord(n).data
<1> DEFINE a == SaveWord(n).addr
           d == SaveWord(n).data
           b == [i \in 1 .. 4 |-> flash.mem[a + (3 - (i - 1))]]
<1>1. SaveWords \in Nat
  BY WordsSaved
<1>2. \A c \in 0 .. 3 : flash.mem[a + (3 - c)] = uint8(d, c)
  <2> SUFFICES ASSUME NEW c \in 0 .. 3
               PROVE  flash.mem[a + (3 - c)] = uint8(d, c)
    OBVIOUS
  <2>1. n < SaveWords + 2 \/ (n = SaveWords + 2 /\ c < 4)
    BY <1>1, SMT
  <2> QED  BY <2>1 DEF WrittenTo, Cell, Byte
<1>3. d \in Word
  BY WordsSaved
<1>4. FlashWord(flash.mem, a) = uint32(b)
  BY DEF FlashWord
<1> HIDE DEF a, d
<1>5. b[1] = uint8(d, 0) /\ b[2] = uint8(d, 1) /\ b[3] = uint8(d, 2) /\ b[4] = uint8(d, 3)
  <2>1. 1 - 1 = 0 /\ 2 - 1 = 1 /\ 3 - 1 = 2 /\ 4 - 1 = 3
    OBVIOUS
  <2>2. /\ b[1] = flash.mem[a + (3 - (1 - 1))] /\ b[2] = flash.mem[a + (3 - (2 - 1))]
        /\ b[3] = flash.mem[a + (3 - (3 - 1))] /\ b[4] = flash.mem[a + (3 - (4 - 1))]
    OBVIOUS
  <2> QED  BY <1>2, <2>1, <2>2
<1> HIDE DEF b
<1>6. uint32(b) = d
  BY <1>3, <1>5, RoundTrip DEF uint32
<1> QED  BY <1>4, <1>6 DEF a, d

(* When the console says that the executable is stored, the flash holds     *)
(* every word of it and of its header, whatever was in the flash before,    *)
(* provided that the header does not push its end over the last sector that *)
(* save_exe erases.                                                         *)
THEOREM SavedReadsBack == Spec => [](Room => ReadsBack)
<1>1. IInv => (Room => ReadsBack)
  BY WordReadBack DEF IInv, Contents, ReadsBack
<1> QED  BY <1>1, IInvAlways, PTL

(* With a size in whole words, as the image generator writes it, this is    *)
(* the image that the loader accepts.                                       *)
THEOREM SavedCorrect == Spec => [](Room /\ exe_available % 4 = 0 => SavedIsBootable)
<1>1. IInv => (Room /\ exe_available % 4 = 0 => SavedIsBootable)
  <2> SUFFICES ASSUME IInv, Room, exe_available % 4 = 0, pc = "stored"
               PROVE  HoldsImage(flash.mem, [k \in 1 .. SaveWords |-> imem[k - 1]])
    BY DEF SavedIsBootable
  <2> DEFINE words == [k \in 1 .. SaveWords |-> imem[k - 1]]
  <2>1. Types /\ WrittenTo(flash.mem, SaveWords + 2, 4)
    BY DEF IInv, Contents
  <2>2. SaveWords \in Nat /\ 4 * SaveWords = exe_available
    BY <2>1, SizeOfWord, SMT DEF Types, MemoryType, SaveWords, Word
  <2>3. \A n \in 0 .. SaveWords + 2 : FlashWord(flash.mem, SaveWord(n).addr) = SaveWord(n).data
    BY <2>1, WordReadBack
  <2>4. FlashWord(flash.mem, EXE_OFFSET_SIGNATURE) = EXE_SIGNATURE
    <3>1. SaveWord(0) = [addr |-> EXE_OFFSET_SIGNATURE, data |-> EXE_SIGNATURE] /\ 0 \in 0 .. SaveWords + 2
      BY <2>2 DEF SaveWord
    <3> QED  BY <2>3, <3>1
  <2>5. FlashWord(flash.mem, EXE_OFFSET_SIZE) = exe_available
    <3>1. SaveWord(1) = [addr |-> EXE_OFFSET_SIZE, data |-> exe_available] /\ 1 \in 0 .. SaveWords + 2
      BY <2>2 DEF SaveWord
    <3> QED  BY <2>3, <3>1
  <2>6. FlashWord(flash.mem, EXE_OFFSET_CHECKSUM) = Neg(SumOf(words))
    <3>1. /\ SaveWords + 2 # 0 /\ SaveWords + 2 # 1 /\ SaveWords + 2 \notin 2 .. SaveWords + 1
          /\ SaveWords + 2 \in 0 .. SaveWords + 2
      BY <2>2, SMT
    <3> DEFINE n == SaveWords + 2
               c == Neg(SumOf(words))
    <3>2. SaveWord(n) = [addr |-> EXE_OFFSET_CHECKSUM, data |-> c]
      BY <3>1 DEF SaveWord
    <3> HIDE DEF n, c
    <3>3. SaveWord(n).addr = EXE_OFFSET_CHECKSUM /\ SaveWord(n).data = c
      BY <3>2
    <3>4. FlashWord(flash.mem, SaveWord(n).addr) = SaveWord(n).data
      BY <2>3, <3>1 DEF n
    <3> QED  BY <3>3, <3>4 DEF c
  <2>7. \A k \in 1 .. SaveWords : FlashWord(flash.mem, EXE_OFFSET_DATA + 4 * (k - 1)) = imem[k - 1]
    <3> SUFFICES ASSUME NEW k \in 1 .. SaveWords
                 PROVE  FlashWord(flash.mem, EXE_OFFSET_DATA + 4 * (k - 1)) = imem[k - 1]
      OBVIOUS
    <3> DEFINE n == k + 1
    <3>1. n # 0 /\ n # 1 /\ n \in 2 .. SaveWords + 1 /\ n \in 0 .. SaveWords + 2 /\ n - 2 = k - 1
      BY <2>2, SMT
    <3> HIDE DEF n
    <3>2. SaveWord(n) = [addr |-> EXE_OFFSET_DATA + 4 * (n - 2), data |-> imem[n - 2]]
      BY <3>1 DEF SaveWord
    <3>3. SaveWord(n).addr = EXE_OFFSET_DATA + 4 * (k - 1) /\ SaveWord(n).data = imem[k - 1]
      BY <3>1, <3>2
    <3> QED  BY <2>3, <3>1, <3>3
  <2>8. DOMAIN words = 1 .. SaveWords /\ Len(words) = SaveWords
    BY <2>2
  <2>9. \A k \in 1 .. SaveWords : words[k] = imem[k - 1]
    OBVIOUS
  <2> HIDE DEF words
  <2>10. HoldsImage(flash.mem, words)
    BY <2>2, <2>4, <2>5, <2>6, <2>7, <2>8, <2>9 DEF HoldsImage
  <2> QED  BY <2>10 DEF words
<1> QED  BY <1>1, IInvAlways, PTL

-----------------------------------------------------------------------------
(* What get_exe accepts. *)

FirstWords(m, n) == [k \in 1 .. n |-> m[k - 1]]

(* While an executable is fetched the checksum is that of what is in the    *)
(* memory, and what came from the flash is what the flash holds.            *)
Fetched ==
  /\ Checking /\ cmd # "store" => get = NoGet
  /\ pc = "get" =>
       /\ get.field < 3 => get.i = 0
       /\ get.field = 3 => get.i <= DataWords
       /\ get.sum = SumOf(FirstWords(imem, get.i))
       /\ cmd # "upload" =>
            /\ get.field > 0 => FlashWord(flash.mem, EXE_OFFSET_SIGNATURE) = EXE_SIGNATURE
            /\ get.field > 1 => get.size = FlashWord(flash.mem, EXE_OFFSET_SIZE)
            /\ get.field > 2 => get.check = FlashWord(flash.mem, EXE_OFFSET_CHECKSUM)
            /\ \A k \in 0 .. get.i - 1 : imem[k] = FlashWord(flash.mem, EXE_OFFSET_DATA + 4 * k)

LEMMA GetSteps ==
  ASSUME [Next]_vars, FlashStage
  PROVE  /\ Checking' /\ cmd' # "store" =>
              \/ Checking /\ UNCHANGED <<cmd, get>>
              \/ get' = NoGet
         /\ pc' = "get" =>
              \/ /\ pc = "get" /\ UNCHANGED <<cmd, get, imem>>
                 /\ cmd # "upload" => UNCHANGED flash
              \/ Checking /\ cmd # "store" /\ UNCHANGED <<cmd, get, imem>>
              \/ get' = NoGet
              \/ pc = "get" /\ GetByte
              \/ pc = "get" /\ GetWord
  BY DEF FlashStage, Checking, EnterGetExe, StoreFault, system_error, NextWrite, vars, Next, Program,
     Goto, Crt0, Main, AbortAutoBoot, AutoBoot, Console, StartApp, Jump, Error, Lit, GetByte, GetWord,
     Verify, FlashCheck, Confirm, SaveEnable, SaveCommand, SavePoll, Stored_OK, TimerTrap, FlashDone,
     HostKey, HostUpload, HostByte, Reset, PowerFail

(* One word of the stream, in the four roles that it has.                   *)
LEMMA WordStep ==
  ASSUME Types, FlashStage, pc = "get", pc' = "get", GetWord
  PROVE  LET read(a) == IF cmd = "upload" THEN get_exe_word(a) ELSE FlashWord(flash.mem, a)
         IN  /\ UNCHANGED <<cmd, flash>>
             /\ \/ UNCHANGED <<get, imem>>
                \/ /\ get.field = 0 /\ read(0) = EXE_SIGNATURE /\ UNCHANGED imem
                   /\ get' = Got(1, get.size, get.check, get.sum, get.i)
                \/ /\ get.field = 1 /\ UNCHANGED imem
                   /\ get' = Got(2, read(4), get.check, get.sum, get.i)
                \/ /\ get.field = 2 /\ UNCHANGED imem
                   /\ get' = Got(3, get.size, read(8), get.sum, get.i)
                \/ /\ get.field = 3 /\ get.i < ImemWords /\ get.i < DataWords
                   /\ read(12 + 4 * get.i) \in Word
                   /\ imem' = [imem EXCEPT ![get.i] = read(12 + 4 * get.i)]
                   /\ get' = Got(3, get.size, get.check, (get.sum + read(12 + 4 * get.i)) % WordSize,
                                 get.i + 1)
<1> DEFINE read(a) == IF cmd = "upload" THEN get_exe_word(a) ELSE FlashWord(flash.mem, a)
<1>1. cmd # "upload" => flash.op = Idle
  BY DEF FlashStage
<1>2. \A a : read(a) = get_exe_word(a)
  BY <1>1 DEF get_exe_word
<1>3. UNCHANGED <<cmd, flash>> /\ ~Complete /\ (cmd = "upload" => Len(get.bytes) = 4)
  BY DEF GetWord
<1>4. get \in Gets /\ get.i \in Nat /\ get.sum \in Word
  BY SMT DEF Types, GetType, Gets
<1>6. get_exe_word(4) \in Word /\ get_exe_word(8) \in Word
  BY <1>3, ReadWord
<1> DEFINE e4 == get_exe_word(4)
           e8 == get_exe_word(8)
           d  == get_exe_word(12 + 4 * get.i)
           t  == (get.sum + d) % WordSize
<1>7. \/ UNCHANGED <<get, imem>>
      \/ /\ get.field = 0 /\ get_exe_word(0) = EXE_SIGNATURE /\ UNCHANGED imem
         /\ get' = [get EXCEPT !.bytes = <<>>, !.field = 1]
      \/ /\ get.field = 1 /\ UNCHANGED imem
         /\ get' = [get EXCEPT !.bytes = <<>>, !.field = 2, !.size = e4]
      \/ /\ get.field = 2 /\ UNCHANGED imem
         /\ get' = [get EXCEPT !.bytes = <<>>, !.field = 3, !.check = e8]
      \/ /\ get.field = 3 /\ get.i < ImemWords
         /\ imem' = [imem EXCEPT ![get.i] = d]
         /\ get' = [get EXCEPT !.bytes = <<>>, !.sum = t, !.i = @ + 1]
  BY DEF GetWord, StoreFault, system_error, Goto, EXE_OFFSET_SIGNATURE, EXE_OFFSET_SIZE, EXE_OFFSET_CHECKSUM
<1>8. get.i < ImemWords => d \in Word /\ t \in Word /\ get.i + 1 \in 0 .. ImemWords
  <2> SUFFICES ASSUME get.i < ImemWords
               PROVE  d \in Word /\ t \in Word /\ get.i + 1 \in 0 .. ImemWords
    OBVIOUS
  <2>1. 12 + 4 * get.i \in Nat /\ (12 + 4 * get.i) + 3 < FlashBytes
    BY <1>4, SMT
  <2>2. d \in Word
    BY <1>3, <2>1, ReadWord
  <2> HIDE DEF d
  <2>3. t \in Word
    BY <1>4, <2>2, SizeOfWord, SMT DEF Word
  <2> QED  BY <1>4, <2>2, <2>3, SMT
<1>9. get.field = 3 => get.i < DataWords
  BY <1>3, <1>4, SizeOfWord, SMT DEF Complete, DataWords, Gets, Word
<1>10. /\ read(0) = get_exe_word(0) /\ read(4) = e4 /\ read(8) = e8 /\ read(12 + 4 * get.i) = d
  BY <1>2
<1>11. t = (get.sum + read(12 + 4 * get.i)) % WordSize
  BY <1>10
<1> HIDE DEF read, e4, e8, d, t
<1>12. /\ get' = [get EXCEPT !.bytes = <<>>, !.field = 1]
          => get' = Got(1, get.size, get.check, get.sum, get.i)
       /\ get' = [get EXCEPT !.bytes = <<>>, !.field = 2, !.size = e4]
          => get' = Got(2, e4, get.check, get.sum, get.i)
       /\ get' = [get EXCEPT !.bytes = <<>>, !.field = 3, !.check = e8]
          => get' = Got(3, get.size, e8, get.sum, get.i)
  BY <1>4, <1>6, Zeros, NextGet, Zenon DEF e4, e8
<1>13. get.field = 3 /\ get.i < ImemWords /\ get' = [get EXCEPT !.bytes = <<>>, !.sum = t, !.i = @ + 1]
       => get' = Got(3, get.size, get.check, t, get.i + 1)
  <2> SUFFICES ASSUME get.field = 3, get.i < ImemWords,
                      get' = [get EXCEPT !.bytes = <<>>, !.sum = t, !.i = @ + 1]
               PROVE  get' = Got(3, get.size, get.check, t, get.i + 1)
    OBVIOUS
  <2> DEFINE j == get.i + 1
  <2>1. get' = [get EXCEPT !.bytes = <<>>, !.sum = t, !.i = j] /\ j \in 0 .. ImemWords
    BY <1>8
  <2> HIDE DEF j
  <2>2. get' = Got(get.field, get.size, get.check, t, j)
    BY <1>4, <1>8, <2>1, NextGetData
  <2> QED  BY <2>2 DEF j
<1>14. /\ UNCHANGED <<cmd, flash>>
       /\ \/ UNCHANGED <<get, imem>>
          \/ /\ get.field = 0 /\ read(0) = EXE_SIGNATURE /\ UNCHANGED imem
             /\ get' = Got(1, get.size, get.check, get.sum, get.i)
          \/ /\ get.field = 1 /\ UNCHANGED imem
             /\ get' = Got(2, read(4), get.check, get.sum, get.i)
          \/ /\ get.field = 2 /\ UNCHANGED imem
             /\ get' = Got(3, get.size, read(8), get.sum, get.i)
          \/ /\ get.field = 3 /\ get.i < ImemWords /\ get.i < DataWords
             /\ read(12 + 4 * get.i) \in Word
             /\ imem' = [imem EXCEPT ![get.i] = read(12 + 4 * get.i)]
             /\ get' = Got(3, get.size, get.check, (get.sum + read(12 + 4 * get.i)) % WordSize,
                           get.i + 1)
  BY <1>3, <1>7, <1>8, <1>9, <1>10, <1>11, <1>12, <1>13
<1> QED  BY <1>14 DEF read

LEMMA NothingFetched ==
  ASSUME NEW m
  PROVE  SumOf(FirstWords(m, 0)) = 0
<1>1. FirstWords(m, 0) = <<>>
  BY DEF FirstWords
<1> QED  BY <1>1, SumOfNone

(* One more word: what was there before is still what the sum is of.        *)
LEMMA OneMore ==
  ASSUME NEW n \in Nat, n < ImemWords, NEW m \in [0 .. ImemWords - 1 -> Word], NEW d \in Word,
         NEW r, r = [m EXCEPT ![n] = d]
  PROVE  SumOf(FirstWords(r, n + 1)) = (SumOf(FirstWords(m, n)) + d) % WordSize
<1> USE ImemAssumption DEF ImemAssumption
<1> DEFINE words == [k \in 1 .. n |-> m[k - 1]]
           more  == [k \in 1 .. n + 1 |-> r[k - 1]]
<1>1. words \in Seq(Word) /\ Len(words) = n
  <2>1. \A k \in 1 .. n : m[k - 1] \in Word
    BY SMT
  <2> QED  BY <2>1
<1>2. more \in Seq(Word) /\ Len(more) = n + 1
  <2>1. \A k \in 1 .. n + 1 : r[k - 1] \in Word
    BY SMT
  <2> QED  BY <2>1
<1>3. \A k \in 1 .. n : more[k] = words[k]
  BY SMT
<1>4. more[n + 1] = d
  BY SMT
<1> HIDE DEF words, more
<1>5. SumOf(more) = (d + SumOf(words)) % WordSize
  BY <1>1, <1>2, <1>3, <1>4, SumOfNext
<1>6. SumOf(words) \in Word
  BY <1>1, SumWord
<1>7. d + SumOf(words) = SumOf(words) + d
  BY <1>6, SMT DEF Word
<1>8. SumOf(more) = (SumOf(words) + d) % WordSize
  BY <1>5, <1>7
<1> QED  BY <1>8 DEF words, more, FirstWords

LEMMA FetchedNext == Types /\ FlashStage /\ Fetched /\ [Next]_vars => Fetched'
<1> SUFFICES ASSUME Types, FlashStage, Fetched, [Next]_vars
             PROVE  Fetched'
  OBVIOUS
<1>1. Checking' /\ cmd' # "store" => get' = NoGet
  BY GetSteps DEF Fetched
<1>2. ASSUME pc' = "get", get' = NoGet
      PROVE  Fetched'
  <2>1. get'.field = 0 /\ get'.i = 0 /\ get'.sum = 0
    BY <1>2 DEF NoGet
  <2>2. SumOf(FirstWords(imem', 0)) = 0
    BY NothingFetched
  <2>3. \A k : k \in 0 .. get'.i - 1 => FALSE
    BY <2>1, SMT
  <2>4. get'.sum = SumOf(FirstWords(imem', get'.i))
    BY <2>1, <2>2
  <2> QED  BY <1>1, <2>1, <2>3, <2>4, SMT DEF Fetched
<1>3. ASSUME pc = "get", pc' = "get", UNCHANGED <<cmd, get, imem>>, cmd # "upload" => UNCHANGED flash
      PROVE  Fetched'
  BY <1>1, <1>3 DEF Fetched, DataWords
<1>4. ASSUME pc = "get", pc' = "get", GetByte
      PROVE  Fetched'
  <2>1. /\ cmd' = "upload" /\ imem' = imem
        /\ get'.field = get.field /\ get'.i = get.i /\ get'.sum = get.sum /\ get'.size = get.size
    BY <1>4 DEF GetByte, Types, GetType, Gets
  <2> QED  BY <1>1, <1>4, <2>1 DEF Fetched, DataWords
<1>5. ASSUME pc = "get", pc' = "get", GetWord
      PROVE  Fetched'
  <2> DEFINE read(a) == IF cmd = "upload" THEN get_exe_word(a) ELSE FlashWord(flash.mem, a)
  <2>1. /\ UNCHANGED <<cmd, flash>>
        /\ \/ UNCHANGED <<get, imem>>
           \/ /\ get.field = 0 /\ read(0) = EXE_SIGNATURE /\ UNCHANGED imem
              /\ get' = Got(1, get.size, get.check, get.sum, get.i)
           \/ /\ get.field = 1 /\ UNCHANGED imem
              /\ get' = Got(2, read(4), get.check, get.sum, get.i)
           \/ /\ get.field = 2 /\ UNCHANGED imem
              /\ get' = Got(3, get.size, read(8), get.sum, get.i)
           \/ /\ get.field = 3 /\ get.i < ImemWords /\ get.i < DataWords
              /\ read(12 + 4 * get.i) \in Word
              /\ imem' = [imem EXCEPT ![get.i] = read(12 + 4 * get.i)]
              /\ get' = Got(3, get.size, get.check, (get.sum + read(12 + 4 * get.i)) % WordSize,
                            get.i + 1)
    BY <1>5, WordStep
  <2>2. get \in Gets /\ get.i \in Nat /\ get.field \in 0 .. 3 /\ imem \in [0 .. ImemWords - 1 -> Word]
        /\ DataWords \in Int
    BY SMT DEF Types, GetType, Gets, MemoryType, DataWords, Word
  <2>3. cmd # "upload" => \A a : read(a) = FlashWord(flash.mem, a)
    OBVIOUS
  <2> HIDE DEF read
  <2>4. CASE UNCHANGED <<get, imem>>
    BY <1>3, <1>5, <2>1, <2>4
  <2>5. CASE /\ get.field = 0 /\ read(0) = EXE_SIGNATURE /\ UNCHANGED imem
             /\ get' = Got(1, get.size, get.check, get.sum, get.i)
    <3>1. get'.field = 1 /\ get'.i = get.i /\ get'.sum = get.sum
      BY <2>5 DEF Got
    <3> QED  BY <1>1, <1>5, <2>1, <2>3, <2>5, <3>1, SMT
             DEF Fetched, EXE_OFFSET_SIGNATURE
  <2>6. CASE /\ get.field = 1 /\ UNCHANGED imem
             /\ get' = Got(2, read(4), get.check, get.sum, get.i)
    <3>1. get'.field = 2 /\ get'.i = get.i /\ get'.sum = get.sum /\ get'.size = read(4)
      BY <2>6 DEF Got
    <3> QED  BY <1>1, <1>5, <2>1, <2>3, <2>6, <3>1, SMT
             DEF Fetched, EXE_OFFSET_SIZE
  <2>7. CASE /\ get.field = 2 /\ UNCHANGED imem
             /\ get' = Got(3, get.size, read(8), get.sum, get.i)
    <3>1. get'.field = 3 /\ get'.i = get.i /\ get'.sum = get.sum /\ get'.size = get.size
          /\ get'.check = read(8)
      BY <2>7 DEF Got
    <3>2. get.i = 0
      BY <1>5, <2>7 DEF Fetched
    <3>3. (get.i <= DataWords)'
      <4>1. get.size \in Word
        BY <2>2 DEF Gets
      <4>2. 0 <= get.size \div 4
        BY <4>1, SizeOfWord, SMT DEF Word
      <4> QED  BY <3>1, <3>2, <4>2 DEF DataWords
    <3> QED  BY <1>1, <1>5, <2>1, <2>3, <2>7, <3>1, <3>3, SMT
             DEF Fetched, EXE_OFFSET_CHECKSUM
  <2>8. CASE /\ get.field = 3 /\ get.i < ImemWords /\ get.i < DataWords
             /\ read(12 + 4 * get.i) \in Word
             /\ imem' = [imem EXCEPT ![get.i] = read(12 + 4 * get.i)]
             /\ get' = Got(3, get.size, get.check, (get.sum + read(12 + 4 * get.i)) % WordSize,
                           get.i + 1)
    <3> DEFINE d == read(12 + 4 * get.i)
               t == (get.sum + d) % WordSize
               j == get.i + 1
    <3>1. d \in Word /\ imem' = [imem EXCEPT ![get.i] = d] /\ get' = Got(3, get.size, get.check, t, j)
      BY <2>8
    <3>2. cmd # "upload" => d = FlashWord(flash.mem, 12 + 4 * get.i)
      BY <2>3
    <3>3. j \in Nat /\ j - 1 = get.i
      BY <2>2, SMT
    <3> HIDE DEF d
    <3>4. t = SumOf(FirstWords(imem', j))
      <4>1. get.sum = SumOf(FirstWords(imem, get.i))
        BY <1>5 DEF Fetched
      <4>2. SumOf(FirstWords(imem', get.i + 1)) = (SumOf(FirstWords(imem, get.i)) + d) % WordSize
        BY <2>2, <2>8, <3>1, OneMore
      <4> QED  BY <4>1, <4>2
    <3>5. j <= DataWords
      BY <2>2, <2>8, SMT
    <3> HIDE DEF t, j
    <3>6. /\ get'.field = 3 /\ get'.i = j /\ get'.sum = t
          /\ get'.size = get.size /\ get'.check = get.check
      BY <3>1 DEF Got
    <3>7. (get.sum = SumOf(FirstWords(imem, get.i)))'
      BY <3>4, <3>6
    <3>8. (get.i <= DataWords)'
      BY <3>5, <3>6 DEF DataWords
    <3>9. cmd # "upload" => \A k \in 0 .. j - 1 : imem'[k] = FlashWord(flash.mem, EXE_OFFSET_DATA + 4 * k)
      <4> SUFFICES ASSUME cmd # "upload", NEW k \in 0 .. j - 1
                   PROVE  imem'[k] = FlashWord(flash.mem, 12 + 4 * k)
        BY DEF EXE_OFFSET_DATA
      <4>1. CASE k = get.i
        <5>1. get.i \in 0 .. ImemWords - 1
          BY <2>2, <2>8, ImemAssumption, SMT DEF ImemAssumption
        <5> QED  BY <2>2, <3>1, <3>2, <4>1, <5>1
      <4>2. CASE k # get.i
        <5>1. k \in 0 .. get.i - 1
          BY <2>2, <3>3, <4>2, SMT
        <5>2. imem[k] = FlashWord(flash.mem, 12 + 4 * k)
          BY <1>5, <5>1 DEF Fetched, EXE_OFFSET_DATA
        <5>3. k \in 0 .. ImemWords - 1
          BY <2>2, <2>8, <5>1, ImemAssumption, SMT DEF ImemAssumption
        <5> QED  BY <2>2, <3>1, <4>2, <5>2, <5>3
      <4> QED  BY <4>1, <4>2
    <3>10. cmd # "upload" =>
             /\ FlashWord(flash.mem, EXE_OFFSET_SIGNATURE) = EXE_SIGNATURE
             /\ get.size = FlashWord(flash.mem, EXE_OFFSET_SIZE)
             /\ get.check = FlashWord(flash.mem, EXE_OFFSET_CHECKSUM)
      BY <1>5, <2>8, SMT DEF Fetched
    <3>11. cmd' = cmd /\ flash' = flash
      BY <2>1
    <3> QED  BY <1>1, <3>6, <3>7, <3>8, <3>9, <3>10, <3>11, SMT DEF Fetched
  <2> QED  BY <2>1, <2>4, <2>5, <2>6, <2>7, <2>8
<1>6. ASSUME pc' = "get"
      PROVE  Fetched'
  <2>1. Checking /\ cmd # "store" /\ UNCHANGED <<cmd, get, imem>> => get' = NoGet
    BY DEF Fetched
  <2> QED  BY <1>2, <1>3, <1>4, <1>5, <1>6, <2>1, GetSteps
<1> QED  BY <1>1, <1>6 DEF Fetched

(* What get_exe reports with "OK", when it takes the program.               *)
Verified == Verify /\ pc' # "error"
Loaded   == FirstWords(imem, DataWords)

LEMMA VerifiedSum ==
  ASSUME IInv, Fetched, Verified
  PROVE  /\ exe_available' = get.size /\ UNCHANGED <<imem, flash>>
         /\ DataWords \in Nat /\ DataWords <= ImemWords
         /\ get.field = 3 /\ get.i = DataWords /\ pc = "get"
         /\ Loaded \in Seq(Word)
         /\ get.check = Neg(SumOf(Loaded))
<1>1. /\ pc = "get" /\ Complete /\ exe_available' = get.size /\ UNCHANGED <<imem, flash>>
      /\ (get.sum + get.check) % WordSize = 0
  BY DEF Verified, Verify, system_error, Goto
<1>2. /\ get.i \in 0 .. ImemWords /\ get.sum \in Word /\ get.check \in Word /\ get.size \in Word
      /\ imem \in [0 .. ImemWords - 1 -> Word]
  BY DEF IInv, Types, GetType, Gets, MemoryType
<1>3. DataWords \in Int
  BY <1>2, SMT DEF DataWords, Word
<1>4. get.field = 3 /\ get.i = DataWords
  BY <1>1, <1>2, <1>3, SMT DEF Complete, Fetched
<1>5. DataWords \in Nat /\ DataWords <= ImemWords
  BY <1>2, <1>4, ImemAssumption, SMT DEF ImemAssumption
<1>6. Loaded \in Seq(Word)
  <2>1. \A k \in 1 .. DataWords : imem[k - 1] \in Word
    BY <1>2, <1>5, ImemAssumption, SMT DEF ImemAssumption
  <2> HIDE DEF DataWords
  <2> QED  BY <1>5, <2>1 DEF Loaded, FirstWords
<1>7. get.sum = SumOf(Loaded)
  BY <1>1, <1>4 DEF Fetched, Loaded
<1>8. get.check = Neg(get.sum)
  <2> SUFFICES ASSUME NEW s \in Word, NEW c \in Word, (s + c) % WordSize = 0
               PROVE  c = (WordSize - s) % WordSize
    BY <1>1, <1>2 DEF Neg
  <2>1. WordSize = 65536 \/ WordSize = 4294967296
    BY RadixAssumption, SMT DEF RadixAssumption, WordSize
  <2> HIDE DEF WordSize
  <2>2. CASE s = 0
    <3>1. c % WordSize = c /\ (WordSize - s) % WordSize = 0
      BY <2>1, <2>2, SMT DEF Word
    <3>2. s + c = c
      BY <2>2, SMT DEF Word
    <3> QED  BY <2>2, <3>1, <3>2
  <2>3. CASE s # 0
    <3>1. (WordSize - s) % WordSize = WordSize - s
      BY <2>1, <2>3, SMT DEF Word
    <3>2. s + c = WordSize
      BY <2>1, <2>3, SMT DEF Word
    <3>3. c = WordSize - s
      BY <2>1, <3>2, SMT DEF Word
    <3> QED  BY <3>1, <3>3
  <2> QED  BY <2>2, <2>3
<1> QED  BY <1>1, <1>4, <1>5, <1>6, <1>7, <1>8

LEMMA FetchedAlways == Spec => []Fetched
<1>1. Init => Fetched
  BY DEF Init, Fetched, Checking
<1>2. IInv /\ Fetched /\ [Next]_vars => Fetched'
  BY FetchedNext DEF IInv
<1> QED  BY <1>1, <1>2, IInvAlways, PTL DEF Spec

(* get_exe takes no program, from the line or from the flash, unless the    *)
(* sum complement that came with it is that of what now is in the           *)
(* instruction memory: nothing lost on the way, stored past the end of the  *)
(* memory or left over from an attempt that failed goes unnoticed by the    *)
(* sum that the loader keeps.                                               *)
THEOREM AcceptedSum ==
  Spec => [][Verified => /\ exe_available' = get.size /\ DataWords <= ImemWords
                         /\ get.check = Neg(SumOf(Loaded))]_vars
<1>1. IInv /\ Fetched /\ Verified
      => /\ exe_available' = get.size /\ DataWords <= ImemWords
         /\ get.check = Neg(SumOf(Loaded))
  BY VerifiedSum
<1>2. Spec => [](IInv /\ Fetched)
  BY IInvAlways, FetchedAlways, PTL
<1> QED  BY <1>1, <1>2, PTL

(* A program that was taken from the flash is the one that the flash holds, *)
(* word for word, with its signature, its size and its sum complement, even *)
(* if a reset or a power failure had left the flash busy.                   *)
THEOREM LoadedCorrect ==
  Spec => [][Verified /\ cmd # "upload" /\ get.size % 4 = 0
             => exe_available' = get.size /\ HoldsImage(flash.mem, Loaded)]_vars
<1>1. ASSUME IInv, Fetched, Verified, cmd # "upload", get.size % 4 = 0
      PROVE  exe_available' = get.size /\ HoldsImage(flash.mem, Loaded)
  <2>1. /\ exe_available' = get.size /\ DataWords \in Nat /\ get.field = 3 /\ get.i = DataWords
        /\ pc = "get" /\ Loaded \in Seq(Word) /\ get.check = Neg(SumOf(Loaded))
    BY <1>1, VerifiedSum
  <2>2. Len(Loaded) = DataWords /\ DOMAIN Loaded = 1 .. DataWords
        /\ \A k \in 1 .. DataWords : Loaded[k] = imem[k - 1]
    <3> HIDE DEF DataWords
    <3> QED  BY <2>1 DEF Loaded, FirstWords
  <2>3. /\ FlashWord(flash.mem, EXE_OFFSET_SIGNATURE) = EXE_SIGNATURE
        /\ get.size = FlashWord(flash.mem, EXE_OFFSET_SIZE)
        /\ get.check = FlashWord(flash.mem, EXE_OFFSET_CHECKSUM)
        /\ \A k \in 0 .. get.i - 1 : imem[k] = FlashWord(flash.mem, EXE_OFFSET_DATA + 4 * k)
    BY <1>1, <2>1, SMT DEF Fetched
  <2>4. get.size = 4 * DataWords
    BY <1>1, SMT DEF DataWords, IInv, Types, GetType, Gets, Word
  <2>5. \A k \in DOMAIN Loaded : FlashWord(flash.mem, EXE_OFFSET_DATA + 4 * (k - 1)) = Loaded[k]
    <3> SUFFICES ASSUME NEW k \in 1 .. DataWords
                 PROVE  FlashWord(flash.mem, EXE_OFFSET_DATA + 4 * (k - 1)) = imem[k - 1]
      BY <2>2
    <3>1. k - 1 \in 0 .. get.i - 1
      BY <2>1, SMT
    <3> QED  BY <2>3, <3>1
  <2> QED  BY <2>1, <2>2, <2>3, <2>4, <2>5 DEF HoldsImage
<1>2. Spec => [](IInv /\ Fetched)
  BY IInvAlways, FetchedAlways, PTL
<1> QED  BY <1>1, <1>2, PTL
=============================================================================
