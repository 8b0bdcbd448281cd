---------------------------- MODULE FramesProofs ----------------------------
(***************************************************************************)
(* Theorems about the bytes of a packet, for every number of frames.       *)
(***************************************************************************)
EXTENDS Frames, WellFoundedInduction, TLAPS

(* Induction, with sets for the predicates, and functions defined by it *)

LEMMA Smallest ==
    ASSUME NEW S, S \subseteq Nat, S # {}
    PROVE  \E n \in S : \A k \in S : n <= k
<1>1. PICK n \in S : \A k \in S : <<k, n>> \notin OpToRel(<, Nat)
  BY WFMin, NatLessThanWellFounded, Zenon
<1>2. ASSUME NEW k \in S PROVE n <= k
  <2>1. ~ (k < n) /\ k \in Nat /\ n \in Nat
    BY <1>1, Zenon DEF OpToRel
  <2> QED
    BY <2>1
<1> QED
  BY <1>2

LEMMA Induction ==
    ASSUME NEW S, 0 \in S, \A n \in Nat : n \in S => n + 1 \in S
    PROVE  \A n \in Nat : n \in S
<1> SUFFICES ASSUME Nat \ S # {} PROVE FALSE
  OBVIOUS
<1>1. PICK n \in Nat \ S : \A k \in Nat \ S : n <= k
  <2>1. Nat \ S \subseteq Nat
    OBVIOUS
  <2> QED
    BY <2>1, Smallest, Zenon
<1>2. n - 1 \in Nat
  BY <1>1
<1>3. n - 1 \in S /\ (n - 1) + 1 = n
  BY <1>1, <1>2
<1> QED
  BY <1>1, <1>2, <1>3

LEMMA FiniteInduction ==
    ASSUME NEW n \in Nat, NEW S, 0 \in S, \A i \in 1 .. n : i - 1 \in S => i \in S
    PROVE  \A i \in 0 .. n : i \in S
<1> DEFINE T == {i \in Nat : i <= n => i \in S}
<1>1. 0 \in T
  OBVIOUS
<1>2. ASSUME NEW i \in Nat, i \in T PROVE i + 1 \in T
  <2> SUFFICES ASSUME i + 1 <= n PROVE i + 1 \in S
    OBVIOUS
  <2>1. i + 1 \in 1 .. n /\ (i + 1) - 1 = i /\ i \in S
    BY <1>2
  <2> QED
    BY <2>1
<1>3. \A i \in Nat : i \in T
  <2> HIDE DEF T
  <2> QED
    BY <1>1, <1>2, Induction
<1> QED
  BY <1>3

\* What step makes of first again and again, each time in a set of its own.
Steps(T, first, step, n) ==
    /\ n \in Nat /\ first \in T[0]
    /\ \A i \in 1 .. n : \A x \in T[i - 1] : step[i][x] \in T[i]

Follows(f, T, first, step, n) ==
    /\ f[0] = first /\ \A i \in 1 .. n : f[i] = step[i][f[i - 1]]
    /\ \A i \in 0 .. n : f[i] \in T[i]

LEMMA Recursion ==
    ASSUME NEW T, NEW first, NEW step, NEW n, Steps(T, first, step, n)
    PROVE  \E f : Follows(f, T, first, step, n)
<1> USE DEF Steps
<1> DEFINE Is(m, f) == Follows(f, T, first, step, m)
           S == {m \in Nat : m <= n => \E f : Is(m, f)}
<1>1. 0 \in S
  <2> DEFINE f == [i \in 0 .. 0 |-> first]
  <2>1. Is(0, f)
    BY DEF Follows
  <2> QED
    BY <2>1
<1>2. ASSUME NEW m \in Nat, m \in S PROVE m + 1 \in S
  <2> SUFFICES ASSUME m + 1 <= n PROVE \E g : Is(m + 1, g)
    OBVIOUS
  <2>1. PICK f : Is(m, f)
    BY <1>2
  <2> USE DEF Follows
  <2> DEFINE g == [i \in 0 .. m + 1 |-> IF i = m + 1 THEN step[m + 1][f[m]] ELSE f[i]]
  <2>2. g[0] = first
    BY <2>1
  <2>3. ASSUME NEW i \in 0 .. m + 1
        PROVE  (i # 0 => g[i] = step[i][g[i - 1]]) /\ g[i] \in T[i]
    <3>1. CASE i = m + 1
      <4>1. g[i] = step[m + 1][f[m]] /\ g[i - 1] = f[m] /\ i # 0
        BY <3>1
      <4>2. f[m] \in T[(m + 1) - 1] /\ m + 1 \in 1 .. n
        BY <2>1
      <4> QED
        BY <4>1, <4>2, <3>1
    <3>2. CASE i \in 0 .. m
      <4>1. g[i] = f[i] /\ (i # 0 => i - 1 \in 0 .. m /\ g[i - 1] = f[i - 1])
        BY <3>2
      <4>2. (i # 0 => i \in 1 .. m /\ f[i] = step[i][f[i - 1]]) /\ f[i] \in T[i]
        BY <2>1, <3>2
      <4> QED
        BY <4>1, <4>2
    <3> QED
      BY <3>1, <3>2
  <2> HIDE DEF g
  <2>4. \A i \in 1 .. m + 1 : i \in 0 .. m + 1 /\ i # 0
    OBVIOUS
  <2>5. Is(m + 1, g)
    BY <2>2, <2>3, <2>4
  <2> QED
    BY <2>5
<1> HIDE DEF Is
<1>3. n \in S
  <2> HIDE DEF S
  <2> QED
    BY <1>1, <1>2, Induction
<1> QED
  BY <1>3 DEF Is

-----------------------------------------------------------------------------
(* The bits of a byte *)

BitOf(a, weight) == (a \div weight) % 2

Sum(b1, b2, b4, b8, b16, b32, b64, b128) ==
    b1 + 2 * b2 + 4 * b4 + 8 * b8 + 16 * b16 + 32 * b32 + 64 * b64 + 128 * b128

LEMMA BitsOfByte ==
    ASSUME NEW a \in Byte
    PROVE  /\ \A weight \in {1, 2, 4, 8, 16, 32, 64, 128} : BitOf(a, weight) \in {0, 1}
           /\ a = Sum(BitOf(a, 1), BitOf(a, 2), BitOf(a, 4), BitOf(a, 8),
                      BitOf(a, 16), BitOf(a, 32), BitOf(a, 64), BitOf(a, 128))
BY DEF Byte, BitOf, Sum

LEMMA ByteOfBits ==
    ASSUME NEW b1 \in {0, 1}, NEW b2 \in {0, 1}, NEW b4 \in {0, 1}, NEW b8 \in {0, 1},
           NEW b16 \in {0, 1}, NEW b32 \in {0, 1}, NEW b64 \in {0, 1}, NEW b128 \in {0, 1}
    PROVE  LET a == Sum(b1, b2, b4, b8, b16, b32, b64, b128)
           IN  /\ a \in Byte
               /\ BitOf(a, 1) = b1 /\ BitOf(a, 2) = b2 /\ BitOf(a, 4) = b4
               /\ BitOf(a, 8) = b8 /\ BitOf(a, 16) = b16 /\ BitOf(a, 32) = b32
               /\ BitOf(a, 64) = b64 /\ BitOf(a, 128) = b128
BY DEF Byte, BitOf, Sum

LEMMA XorBits ==
    ASSUME NEW a \in Byte, NEW b \in Byte
    PROVE  /\ Xor[a][b] \in Byte
           /\ \A weight \in {1, 2, 4, 8, 16, 32, 64, 128} :
                BitOf(Xor[a][b], weight) = (BitOf(a, weight) + BitOf(b, weight)) % 2
<1> DEFINE bit(weight) == (BitOf(a, weight) + BitOf(b, weight)) % 2
<1>1. ASSUME NEW weight \in {1, 2, 4, 8, 16, 32, 64, 128}
      PROVE  /\ (a \div weight + b \div weight) % 2 = bit(weight)
             /\ bit(weight) \in {0, 1}
  BY DEF Byte, BitOf
<1>2. Xor[a][b] = Sum(bit(1), bit(2), bit(4), bit(8), bit(16), bit(32), bit(64), bit(128))
  <2>1. Xor[a][b] = Sum((a \div 1 + b \div 1) % 2, (a \div 2 + b \div 2) % 2,
                        (a \div 4 + b \div 4) % 2, (a \div 8 + b \div 8) % 2,
                        (a \div 16 + b \div 16) % 2, (a \div 32 + b \div 32) % 2,
                        (a \div 64 + b \div 64) % 2, (a \div 128 + b \div 128) % 2)
    <3> DEFINE part(weight) == (a \div weight + b \div weight) % 2
    <3>1. Xor[a][b] = 1 * part(1) + 2 * part(2) + 4 * part(4) + 8 * part(8) + 16 * part(16)
                      + 32 * part(32) + 64 * part(64) + 128 * part(128)
      BY Zenon DEF Xor
    <3>2. part(1) \in Int
      BY DEF Byte
    <3> HIDE DEF part
    <3>3. 1 * part(1) = part(1)
      BY <3>2
    <3>4. Xor[a][b] = Sum(part(1), part(2), part(4), part(8), part(16), part(32), part(64),
                          part(128))
      BY <3>1, <3>3 DEF Sum
    <3> QED
      BY <3>4 DEF part
  <2> QED
    BY <1>1, <2>1
<1> HIDE DEF bit
<1>3. /\ Xor[a][b] \in Byte
      /\ BitOf(Xor[a][b], 1) = bit(1) /\ BitOf(Xor[a][b], 2) = bit(2)
      /\ BitOf(Xor[a][b], 4) = bit(4) /\ BitOf(Xor[a][b], 8) = bit(8)
      /\ BitOf(Xor[a][b], 16) = bit(16) /\ BitOf(Xor[a][b], 32) = bit(32)
      /\ BitOf(Xor[a][b], 64) = bit(64) /\ BitOf(Xor[a][b], 128) = bit(128)
  BY <1>1, <1>2, ByteOfBits
<1> QED
  BY <1>3 DEF bit

LEMMA SameBits ==
    ASSUME NEW a \in Byte, NEW b \in Byte,
           \A weight \in {1, 2, 4, 8, 16, 32, 64, 128} : BitOf(a, weight) = BitOf(b, weight)
    PROVE  a = b
<1>1. /\ BitOf(a, 1) = BitOf(b, 1) /\ BitOf(a, 2) = BitOf(b, 2)
      /\ BitOf(a, 4) = BitOf(b, 4) /\ BitOf(a, 8) = BitOf(b, 8)
      /\ BitOf(a, 16) = BitOf(b, 16) /\ BitOf(a, 32) = BitOf(b, 32)
      /\ BitOf(a, 64) = BitOf(b, 64) /\ BitOf(a, 128) = BitOf(b, 128)
  OBVIOUS
<1> QED
  BY <1>1, BitsOfByte

LEMMA XorType ==
    ASSUME NEW a \in Byte, NEW b \in Byte
    PROVE  Xor[a][b] \in Byte
BY XorBits

\* Whitening twice is not whitening.
LEMMA XorTwice ==
    ASSUME NEW a \in Byte, NEW b \in Byte
    PROVE  Xor[Xor[a][b]][b] = a
<1>1. Xor[a][b] \in Byte /\ Xor[Xor[a][b]][b] \in Byte
  BY XorType
<1>2. ASSUME NEW weight \in {1, 2, 4, 8, 16, 32, 64, 128}
      PROVE  BitOf(Xor[Xor[a][b]][b], weight) = BitOf(a, weight)
  <2>1. BitOf(Xor[a][b], weight) = (BitOf(a, weight) + BitOf(b, weight)) % 2
    BY XorBits
  <2>2. BitOf(Xor[Xor[a][b]][b], weight) = (BitOf(Xor[a][b], weight) + BitOf(b, weight)) % 2
    BY <1>1, XorBits
  <2>3. BitOf(a, weight) \in {0, 1} /\ BitOf(b, weight) \in {0, 1}
    BY BitsOfByte
  <2> QED
    BY <2>1, <2>2, <2>3
<1> QED
  BY <1>1, <1>2, SameBits

LEMMA XorCommutes ==
    ASSUME NEW a \in Byte, NEW b \in Byte
    PROVE  Xor[a][b] = Xor[b][a]
<1>1. ASSUME NEW weight \in {1, 2, 4, 8, 16, 32, 64, 128}
      PROVE  BitOf(Xor[a][b], weight) = BitOf(Xor[b][a], weight)
  <2>1. /\ BitOf(Xor[a][b], weight) = (BitOf(a, weight) + BitOf(b, weight)) % 2
        /\ BitOf(Xor[b][a], weight) = (BitOf(b, weight) + BitOf(a, weight)) % 2
    BY XorBits
  <2>2. BitOf(a, weight) \in {0, 1} /\ BitOf(b, weight) \in {0, 1}
    BY BitsOfByte
  <2> QED
    BY <2>1, <2>2
<1> QED
  BY <1>1, XorType, SameBits

LEMMA XorInjective ==
    ASSUME NEW a \in Byte, NEW b \in Byte, NEW c \in Byte, Xor[a][b] = Xor[c][b]
    PROVE  a = c
<1>1. Xor[Xor[a][b]][b] = a /\ Xor[Xor[c][b]][b] = c
  BY XorTwice
<1> QED
  BY <1>1

-----------------------------------------------------------------------------
(* CRC-16 and PN9 *)

LEMMA WordRange ==
    \A x : x \in Word <=> x \in Int /\ 0 <= x /\ x <= 65535
<1>1. WORD_MAX \in Int
  BY DEF WORD_MAX
<1>2. \A x : x \in Word <=> x \in Int /\ 0 <= x /\ x <= WORD_MAX
  BY <1>1 DEF Word
<1> QED
  BY <1>2 DEF WORD_MAX

LEMMA Halves ==
    ASSUME NEW w \in Word
    PROVE  w \div 256 \in Byte /\ w % 256 \in Byte /\ w = 256 * (w \div 256) + (w % 256)
<1>1. w \in Int /\ 0 <= w /\ w <= 65535
  BY WordRange
<1> QED
  BY <1>1 DEF Byte

LEMMA Joined ==
    ASSUME NEW a \in Byte, NEW b \in Byte
    PROVE  256 * a + b \in Word /\ (256 * a + b) \div 256 = a /\ (256 * a + b) % 256 = b
<1>1. a \in 0 .. 255 /\ b \in 0 .. 255
  BY DEF Byte
<1>2. (256 * a + b) \div 256 = a
  BY <1>1
<1>3. (256 * a + b) % 256 = b
  BY <1>1
<1>4. 256 * a + b \in Int /\ 0 <= 256 * a + b /\ 256 * a + b <= 65535
  BY <1>1
<1> QED
  BY <1>2, <1>3, <1>4, WordRange

LEMMA CalcType ==
    ASSUME NEW w \in Word, NEW b \in Byte
    PROVE  crc16_calc(w, b) \in Word
<1> DEFINE y == Xor[w \div 256][b]
           x == Xor[y][y \div 16]
           high == Xor[Xor[w % 256][(16 * x) % 256]][x \div 8]
           low == Xor[(32 * x) % 256][x]
<1>1. y \in Byte
  BY Halves, XorType
<1> HIDE DEF y
<1>2. y \div 16 \in Byte
  BY <1>1 DEF Byte
<1>3. x \in Byte
  BY <1>1, <1>2, XorType
<1> HIDE DEF x
<1>4. (16 * x) % 256 \in Byte /\ x \div 8 \in Byte /\ (32 * x) % 256 \in Byte
  BY <1>3 DEF Byte
<1>5. high \in Byte
  <2>1. Xor[w % 256][(16 * x) % 256] \in Byte
    BY <1>4, Halves, XorType
  <2> QED
    BY <1>4, <2>1, XorType
<1>6. low \in Byte
  BY <1>3, <1>4, XorType
<1> HIDE DEF high, low
<1>7. crc16_calc(w, b) = 256 * high + low
  BY DEF crc16_calc, high, low, x, y
<1> QED
  BY <1>5, <1>6, <1>7, Joined

LEMMA SameParity ==
    ASSUME NEW a \in {0, 1}, NEW b \in {0, 1}, NEW c \in {0, 1}, (a + c) % 2 = (b + c) % 2
    PROVE  a = b
OBVIOUS

LEMMA HighBits ==
    ASSUME NEW x \in Byte
    PROVE  /\ x \div 16 \in Byte
           /\ BitOf(x \div 16, 1) = BitOf(x, 16) /\ BitOf(x \div 16, 2) = BitOf(x, 32)
           /\ BitOf(x \div 16, 4) = BitOf(x, 64) /\ BitOf(x \div 16, 8) = BitOf(x, 128)
           /\ BitOf(x \div 16, 16) = 0 /\ BitOf(x \div 16, 32) = 0
           /\ BitOf(x \div 16, 64) = 0 /\ BitOf(x \div 16, 128) = 0
BY DEF Byte, BitOf

LEMMA LowBits ==
    ASSUME NEW x \in Byte
    PROVE  LET y == (32 * x) % 256
           IN  /\ y \in Byte
               /\ BitOf(y, 1) = 0 /\ BitOf(y, 2) = 0 /\ BitOf(y, 4) = 0 /\ BitOf(y, 8) = 0
               /\ BitOf(y, 16) = 0 /\ BitOf(y, 32) = BitOf(x, 1)
               /\ BitOf(y, 64) = BitOf(x, 2) /\ BitOf(y, 128) = BitOf(x, 4)
BY DEF Byte, BitOf

\* A byte and itself shifted give back the byte: from the bits that nothing is
\* added to, the others follow.
LEMMA HighXorInjective ==
    ASSUME NEW x \in Byte, NEW z \in Byte, Xor[x][x \div 16] = Xor[z][z \div 16]
    PROVE  x = z
<1>1. ASSUME NEW w \in {1, 2, 4, 8, 16, 32, 64, 128}
      PROVE  /\ (BitOf(x, w) + BitOf(x \div 16, w)) % 2 = (BitOf(z, w) + BitOf(z \div 16, w)) % 2
             /\ BitOf(x, w) \in {0, 1} /\ BitOf(z, w) \in {0, 1}
             /\ BitOf(x \div 16, w) \in {0, 1} /\ BitOf(z \div 16, w) \in {0, 1}
  <2>1. x \div 16 \in Byte /\ z \div 16 \in Byte
    BY HighBits
  <2> QED
    BY <2>1, XorBits, BitsOfByte
<1>2. ASSUME NEW w \in {1, 2, 4, 8, 16, 32, 64, 128}, BitOf(x \div 16, w) = BitOf(z \div 16, w)
      PROVE  BitOf(x, w) = BitOf(z, w)
  BY <1>1, <1>2, SameParity
<1>3. /\ BitOf(x, 16) = BitOf(z, 16) /\ BitOf(x, 32) = BitOf(z, 32)
      /\ BitOf(x, 64) = BitOf(z, 64) /\ BitOf(x, 128) = BitOf(z, 128)
  BY <1>2, HighBits
<1>4. /\ BitOf(x, 1) = BitOf(z, 1) /\ BitOf(x, 2) = BitOf(z, 2)
      /\ BitOf(x, 4) = BitOf(z, 4) /\ BitOf(x, 8) = BitOf(z, 8)
  BY <1>2, <1>3, HighBits
<1>5. \A w \in {1, 2, 4, 8, 16, 32, 64, 128} : BitOf(x, w) = BitOf(z, w)
  BY <1>3, <1>4
<1> QED
  BY <1>5, SameBits

LEMMA LowXorInjective ==
    ASSUME NEW x \in Byte, NEW z \in Byte, Xor[(32 * x) % 256][x] = Xor[(32 * z) % 256][z]
    PROVE  x = z
<1> DEFINE low(y) == (32 * y) % 256
<1>1. ASSUME NEW w \in {1, 2, 4, 8, 16, 32, 64, 128}
      PROVE  /\ (BitOf(low(x), w) + BitOf(x, w)) % 2 = (BitOf(low(z), w) + BitOf(z, w)) % 2
             /\ BitOf(x, w) \in {0, 1} /\ BitOf(z, w) \in {0, 1}
             /\ BitOf(low(x), w) \in {0, 1} /\ BitOf(low(z), w) \in {0, 1}
  <2>1. low(x) \in Byte /\ low(z) \in Byte
    BY LowBits
  <2>2. Xor[low(x)][x] = Xor[low(z)][z]
    OBVIOUS
  <2> HIDE DEF low
  <2> QED
    BY <2>1, <2>2, XorBits, BitsOfByte
<1>2. ASSUME NEW w \in {1, 2, 4, 8, 16, 32, 64, 128}, BitOf(low(x), w) = BitOf(low(z), w)
      PROVE  BitOf(x, w) = BitOf(z, w)
  <2> HIDE DEF low
  <2>1. \A a, b, c \in {0, 1} : (a + b) % 2 = (a + c) % 2 => b = c
    OBVIOUS
  <2> QED
    BY <1>1, <1>2, <2>1
<1>3. /\ BitOf(low(x), 1) = 0 /\ BitOf(low(x), 2) = 0 /\ BitOf(low(x), 4) = 0
      /\ BitOf(low(x), 8) = 0 /\ BitOf(low(x), 16) = 0 /\ BitOf(low(x), 32) = BitOf(x, 1)
      /\ BitOf(low(x), 64) = BitOf(x, 2) /\ BitOf(low(x), 128) = BitOf(x, 4)
  BY LowBits
<1>4. /\ BitOf(low(z), 1) = 0 /\ BitOf(low(z), 2) = 0 /\ BitOf(low(z), 4) = 0
      /\ BitOf(low(z), 8) = 0 /\ BitOf(low(z), 16) = 0 /\ BitOf(low(z), 32) = BitOf(z, 1)
      /\ BitOf(low(z), 64) = BitOf(z, 2) /\ BitOf(low(z), 128) = BitOf(z, 4)
  BY LowBits
<1> HIDE DEF low
<1>5. /\ BitOf(x, 1) = BitOf(z, 1) /\ BitOf(x, 2) = BitOf(z, 2) /\ BitOf(x, 4) = BitOf(z, 4)
      /\ BitOf(x, 8) = BitOf(z, 8) /\ BitOf(x, 16) = BitOf(z, 16)
  BY <1>2, <1>3, <1>4
<1>6. /\ BitOf(x, 32) = BitOf(z, 32) /\ BitOf(x, 64) = BitOf(z, 64)
      /\ BitOf(x, 128) = BitOf(z, 128)
  BY <1>2, <1>3, <1>4, <1>5
<1>7. \A w \in {1, 2, 4, 8, 16, 32, 64, 128} : BitOf(x, w) = BitOf(z, w)
  BY <1>5, <1>6
<1> QED
  BY <1>7, SameBits

\* Two words, or two bytes, never lead to the same word.
LEMMA CalcInjective ==
    ASSUME NEW w \in Word, NEW v \in Word, NEW b \in Byte, NEW c \in Byte,
           crc16_calc(w, b) = crc16_calc(v, c)
    PROVE  (b = c => w = v) /\ (w = v => b = c)
<1> DEFINE y(word, byte) == Xor[word \div 256][byte]
           x(word, byte) == Xor[y(word, byte)][y(word, byte) \div 16]
           shifted(word, byte) == Xor[word % 256][(16 * x(word, byte)) % 256]
           high(word, byte) == Xor[shifted(word, byte)][x(word, byte) \div 8]
           low(word, byte) == Xor[(32 * x(word, byte)) % 256][x(word, byte)]
<1>1. ASSUME NEW word \in Word, NEW byte \in Byte
      PROVE  /\ word \div 256 \in Byte /\ word % 256 \in Byte
             /\ word = 256 * (word \div 256) + (word % 256)
             /\ y(word, byte) \in Byte /\ x(word, byte) \in Byte
             /\ (16 * x(word, byte)) % 256 \in Byte /\ x(word, byte) \div 8 \in Byte
             /\ shifted(word, byte) \in Byte
             /\ high(word, byte) \in Byte /\ low(word, byte) \in Byte
             /\ crc16_calc(word, byte) = 256 * high(word, byte) + low(word, byte)
  <2>1. word \div 256 \in Byte /\ word % 256 \in Byte /\ word = 256 * (word \div 256) + (word % 256)
    BY Halves
  <2>2. y(word, byte) \in Byte
    BY <2>1, XorType
  <2>3. crc16_calc(word, byte) = 256 * high(word, byte) + low(word, byte)
    BY ZenonT(40) DEF crc16_calc
  <2> HIDE DEF y
  <2>4. y(word, byte) \div 16 \in Byte
    BY <2>2 DEF Byte
  <2>5. x(word, byte) \in Byte
    BY <2>2, <2>4, XorType
  <2> HIDE DEF x
  <2>6. /\ (16 * x(word, byte)) % 256 \in Byte /\ x(word, byte) \div 8 \in Byte
        /\ (32 * x(word, byte)) % 256 \in Byte
    BY <2>5 DEF Byte
  <2>7. shifted(word, byte) \in Byte
    BY <2>1, <2>6, XorType
  <2> HIDE DEF shifted
  <2>8. high(word, byte) \in Byte /\ low(word, byte) \in Byte
    BY <2>5, <2>6, <2>7, XorType
  <2> QED
    BY <2>1, <2>2, <2>3, <2>5, <2>6, <2>7, <2>8
<1>2. crc16_calc(w, b) = crc16_calc(v, c)
  OBVIOUS
<1> HIDE DEF y, x, shifted, high, low
<1>3. high(w, b) = high(v, c) /\ low(w, b) = low(v, c)
  <2>1. /\ high(w, b) \in Byte /\ low(w, b) \in Byte /\ high(v, c) \in Byte /\ low(v, c) \in Byte
        /\ 256 * high(w, b) + low(w, b) = 256 * high(v, c) + low(v, c)
    BY <1>1, <1>2
  <2> QED
    BY <2>1, Joined
<1>4. x(w, b) = x(v, c)
  <2>1. x(w, b) \in Byte /\ x(v, c) \in Byte
    BY <1>1
  <2>2. Xor[(32 * x(w, b)) % 256][x(w, b)] = Xor[(32 * x(v, c)) % 256][x(v, c)]
    BY <1>3 DEF low
  <2> QED
    BY <2>1, <2>2, LowXorInjective
<1>5. y(w, b) = y(v, c)
  <2>1. y(w, b) \in Byte /\ y(v, c) \in Byte
    BY <1>1
  <2>2. Xor[y(w, b)][y(w, b) \div 16] = Xor[y(v, c)][y(v, c) \div 16]
    BY <1>4 DEF x
  <2> QED
    BY <2>1, <2>2, HighXorInjective
<1>6. w % 256 = v % 256
  <2>1. shifted(w, b) = shifted(v, c)
    <3>1. /\ shifted(w, b) \in Byte /\ shifted(v, c) \in Byte /\ x(w, b) \div 8 \in Byte
      BY <1>1
    <3>2. Xor[shifted(w, b)][x(w, b) \div 8] = Xor[shifted(v, c)][x(w, b) \div 8]
      BY <1>3, <1>4 DEF high
    <3> QED
      BY <3>1, <3>2, XorInjective
  <2>2. w % 256 \in Byte /\ v % 256 \in Byte /\ (16 * x(w, b)) % 256 \in Byte
    BY <1>1
  <2>3. Xor[w % 256][(16 * x(w, b)) % 256] = Xor[v % 256][(16 * x(w, b)) % 256]
    BY <1>4, <2>1 DEF shifted
  <2> QED
    BY <2>2, <2>3, XorInjective
<1>7. ASSUME b = c PROVE w = v
  <2>1. w \div 256 = v \div 256
    <3>1. w \div 256 \in Byte /\ v \div 256 \in Byte
      BY <1>1
    <3>2. Xor[w \div 256][b] = Xor[v \div 256][b]
      BY <1>5, <1>7 DEF y
    <3> QED
      BY <3>1, <3>2, XorInjective
  <2>2. w = 256 * (w \div 256) + (w % 256) /\ v = 256 * (v \div 256) + (v % 256)
    BY <1>1
  <2> QED
    BY <1>6, <2>1, <2>2
<1>8. ASSUME w = v PROVE b = c
  <2>1. w \div 256 \in Byte
    BY <1>1
  <2>2. Xor[w \div 256][b] = Xor[w \div 256][c]
    BY <1>5, <1>8 DEF y
  <2>3. Xor[b][w \div 256] = Xor[c][w \div 256]
    BY <2>1, <2>2, XorCommutes
  <2> QED
    BY <2>1, <2>3, XorInjective
<1> QED
  BY <1>7, <1>8

CrcByte(bytes) ==
    [at \in Nat |-> [crc \in Word |->
        IF at \in DOMAIN bytes THEN crc16_calc(crc, bytes[at]) ELSE crc]]

CrcBoth(r, d) == [at \in Nat |-> [crc \in Word |-> r[at + Weights[d]][r[at][crc]]]]

CrcRun(bytes, run) ==
    run = [d \in 0 .. 8 |-> IF d = 0 THEN CrcByte(bytes) ELSE CrcBoth(run[d - 1], d)]

CrcRuns == [Nat -> [Word -> Word]]

LEMMA CrcByteType ==
    ASSUME NEW bytes \in Seq(Byte)
    PROVE  CrcByte(bytes) \in CrcRuns
BY CalcType DEF CrcByte, CrcRuns

LEMMA CrcBothType ==
    ASSUME NEW r \in CrcRuns, NEW d \in 1 .. 8
    PROVE  CrcBoth(r, d) \in CrcRuns
<1>1. Weights[d] \in Nat
  BY DEF Weights
<1> QED
  BY <1>1 DEF CrcBoth, CrcRuns

LEMMA CrcRunType ==
    ASSUME NEW bytes \in Seq(Byte), NEW run, CrcRun(bytes, run)
    PROVE  \A d \in 0 .. 8 : run[d] \in CrcRuns
<1> DEFINE S == {d \in 0 .. 8 : run[d] \in CrcRuns}
<1>1. 0 \in S
  BY CrcByteType DEF CrcRun
<1>2. ASSUME NEW d \in 1 .. 8, d - 1 \in S PROVE d \in S
  <2>1. run[d] = CrcBoth(run[d - 1], d)
    BY DEF CrcRun
  <2> QED
    BY <1>2, <2>1, CrcBothType
<1> HIDE DEF S
<1>3. \A d \in 0 .. 8 : d \in S
  BY <1>1, <1>2, FiniteInduction
<1> QED
  BY <1>3 DEF S

LEMMA CrcRunExists ==
    ASSUME NEW bytes \in Seq(Byte)
    PROVE  \E run : CrcRun(bytes, run)
<1> DEFINE T == [d \in 0 .. 8 |-> CrcRuns]
           step == [d \in 1 .. 8 |-> [r \in CrcRuns |-> CrcBoth(r, d)]]
           first == CrcByte(bytes)
<1>1. first \in T[0]
  BY CrcByteType
<1>2. \A d \in 1 .. 8 : \A r \in T[d - 1] : step[d][r] \in T[d]
  BY CrcBothType
<1>3. \A d \in 1 .. 8 : \A r \in T[d - 1] : step[d][r] = CrcBoth(r, d)
  OBVIOUS
<1> HIDE DEF T, step, first
<1>4. PICK f : Follows(f, T, first, step, 8)
  <2>1. Steps(T, first, step, 8)
    BY <1>1, <1>2 DEF Steps
  <2> QED
    BY <2>1, Recursion
<1> DEFINE run == [d \in 0 .. 8 |-> f[d]]
<1>5. ASSUME NEW d \in 0 .. 8
      PROVE  f[d] = (IF d = 0 THEN CrcByte(bytes) ELSE CrcBoth(run[d - 1], d))
  <2>1. CASE d = 0
    BY <1>4, <2>1 DEF first, Follows
  <2>2. CASE d # 0
    <3>1. d \in 1 .. 8 /\ d - 1 \in 0 .. 8
      BY <2>2
    <3>2. f[d] = step[d][f[d - 1]] /\ f[d - 1] \in T[d - 1] /\ run[d - 1] = f[d - 1]
      BY <1>4, <3>1 DEF Follows
    <3> QED
      BY <1>3, <2>2, <3>1, <3>2
  <2> QED
    BY <2>1, <2>2
<1>6. CrcRun(bytes, run)
  BY <1>5 DEF CrcRun
<1> QED
  BY <1>6

LEMMA CrcIsRun ==
    ASSUME NEW bytes \in Seq(Byte)
    PROVE  \E run : CrcRun(bytes, run) /\ Crc(bytes) = run[8][1][WORD_MAX]
<1> DEFINE run == CHOOSE r : CrcRun(bytes, r)
<1>1. CrcRun(bytes, run)
  BY CrcRunExists, Zenon
<1>2. Crc(bytes) = run[8][1][WORD_MAX]
  BY DEF Crc, CrcRun, CrcByte, CrcBoth
<1> HIDE DEF run
<1> QED
  BY <1>1, <1>2

LEMMA CrcType ==
    ASSUME NEW bytes \in Seq(Byte)
    PROVE  Crc(bytes) \in Word
<1>1. PICK run : CrcRun(bytes, run) /\ Crc(bytes) = run[8][1][WORD_MAX]
  BY CrcIsRun
<1>2. run[8] \in CrcRuns
  BY <1>1, CrcRunType
<1> QED
  <2>1. WORD_MAX \in Word /\ 1 \in Nat
    BY WordRange DEF WORD_MAX
  <2> QED
    BY <1>1, <1>2, <2>1 DEF CrcRuns

\* The bytes that run[d] is over.
Span(d) == IF d = 0 THEN 1 ELSE 2 * Weights[d]

LEMMA SpanDoubles ==
    ASSUME NEW d \in 1 .. 8
    PROVE  Weights[d] \in Nat /\ Span(d - 1) = Weights[d] /\ Span(d) = Weights[d] + Weights[d]
<1>1. d = 1 \/ d = 2 \/ d = 3 \/ d = 4 \/ d = 5 \/ d = 6 \/ d = 7 \/ d = 8
  OBVIOUS
<1>2. /\ Weights[1] = 1 /\ Weights[2] = 2 /\ Weights[3] = 4 /\ Weights[4] = 8
      /\ Weights[5] = 16 /\ Weights[6] = 32 /\ Weights[7] = 64 /\ Weights[8] = 128
  BY DEF Weights
<1> QED
  BY <1>1, <1>2 DEF Span

CrcStep(r, d, at, crc) == r[at + Weights[d]][r[at][crc]]

CrcSteps(run) ==
    \A d \in 1 .. 8 : \A at \in Nat : \A crc \in Word :
        run[d][at][crc] = CrcStep(run[d - 1], d, at, crc) /\ run[d - 1][at][crc] \in Word

LEMMA CrcRunStep ==
    ASSUME NEW bytes \in Seq(Byte), NEW run, CrcRun(bytes, run)
    PROVE  /\ \A at \in Nat : \A crc \in Word :
                run[0][at][crc] = IF at \in DOMAIN bytes THEN crc16_calc(crc, bytes[at]) ELSE crc
           /\ CrcSteps(run)
<1>1. run[0] = CrcByte(bytes)
  BY DEF CrcRun
<1>2. ASSUME NEW d \in 1 .. 8, NEW at \in Nat, NEW crc \in Word
      PROVE  /\ run[d][at][crc] = CrcStep(run[d - 1], d, at, crc)
             /\ run[d - 1][at][crc] \in Word
  <2>1. run[d] = CrcBoth(run[d - 1], d)
    BY DEF CrcRun
  <2>2. run[d - 1] \in CrcRuns
    BY CrcRunType
  <2>3. Weights[d] \in Nat
    BY SpanDoubles
  <2> QED
    BY <2>1, <2>2, <2>3 DEF CrcBoth, CrcStep, CrcRuns
<1> QED
  BY <1>1, <1>2 DEF CrcByte, CrcSteps

OneToOne(g) == \A v, w \in Word : g[v] = g[w] => v = w

\* What follows in a frame loses nothing of what came before.
LEMMA CrcRunOneToOne ==
    ASSUME NEW bytes \in Seq(Byte), NEW run, CrcRun(bytes, run)
    PROVE  \A d \in 0 .. 8 : \A at \in Nat : OneToOne(run[d][at])
<1> DEFINE S == {d \in 0 .. 8 : \A at \in Nat : OneToOne(run[d][at])}
<1>1. 0 \in S
  <2> SUFFICES ASSUME NEW at \in Nat, NEW v \in Word, NEW w \in Word, run[0][at][v] = run[0][at][w]
               PROVE  v = w
    BY DEF OneToOne
  <2>1. CASE at \in DOMAIN bytes
    <3>1. bytes[at] \in Byte /\ crc16_calc(v, bytes[at]) = crc16_calc(w, bytes[at])
      BY <2>1, CrcRunStep
    <3> QED
      BY <3>1, CalcInjective
  <2>2. CASE at \notin DOMAIN bytes
    BY <2>2, CrcRunStep
  <2> QED
    BY <2>1, <2>2
<1>2. ASSUME NEW d \in 1 .. 8, d - 1 \in S PROVE d \in S
  <2> SUFFICES ASSUME NEW at \in Nat, NEW v \in Word, NEW w \in Word, run[d][at][v] = run[d][at][w]
               PROVE  v = w
    BY DEF OneToOne
  <2> DEFINE before == run[d - 1][at]
             after == run[d - 1][at + Weights[d]]
  <2>1. /\ before[v] \in Word /\ before[w] \in Word /\ at + Weights[d] \in Nat
        /\ after[before[v]] = after[before[w]]
    <3>1. CrcSteps(run)
      BY CrcRunStep
    <3>2. \A x \in Word :
            run[d][at][x] = CrcStep(run[d - 1], d, at, x) /\ run[d - 1][at][x] \in Word
      BY <3>1 DEF CrcSteps
    <3>3. Weights[d] \in Nat
      BY SpanDoubles
    <3>4. at + Weights[d] \in Nat
      BY <3>3
    <3> QED
      BY <3>2, <3>4 DEF CrcStep
  <2>2. OneToOne(before) /\ OneToOne(after)
    BY <1>2, <2>1
  <2> HIDE DEF before, after
  <2> QED
    BY <2>1, <2>2 DEF OneToOne
<1> HIDE DEF S
<1>3. \A d \in 0 .. 8 : d \in S
  BY <1>1, <1>2, FiniteInduction
<1> QED
  BY <1>3 DEF S

AgreeBut(a, b, p) == Len(a) = Len(b) /\ \A i \in 1 .. Len(a) : i # p => a[i] = b[i]

Covers(d, at, p) == at <= p /\ p < at + Span(d)

Differ(g, h) == \A w \in Word : g[w] # h[w]

Same(g, h) == \A w \in Word : g[w] = h[w]

\* A byte that differs makes the words differ from there on.
LEMMA CrcRunsDiffer ==
    ASSUME NEW a \in Seq(Byte), NEW b \in Seq(Byte), NEW p \in 1 .. Len(a), AgreeBut(a, b, p),
           a[p] # b[p], NEW run, CrcRun(a, run), NEW other, CrcRun(b, other)
    PROVE  \A d \in 0 .. 8 : \A at \in Nat :
              /\ Covers(d, at, p) => Differ(run[d][at], other[d][at])
              /\ ~Covers(d, at, p) => Same(run[d][at], other[d][at])
<1> DEFINE Holds(d, at) == /\ Covers(d, at, p) => Differ(run[d][at], other[d][at])
                           /\ ~Covers(d, at, p) => Same(run[d][at], other[d][at])
           S == {d \in 0 .. 8 : \A at \in Nat : Holds(d, at)}
<1>1. 0 \in S
  <2> SUFFICES ASSUME NEW at \in Nat PROVE Holds(0, at)
    OBVIOUS
  <2>1. Covers(0, at, p) <=> at = p
    BY DEF Covers, Span
  <2>2. DOMAIN a = 1 .. Len(a) /\ DOMAIN b = 1 .. Len(a)
    BY DEF AgreeBut
  <2>3. ASSUME NEW w \in Word
        PROVE  (at = p => run[0][at][w] # other[0][at][w]) /\ (at # p => run[0][at][w] = other[0][at][w])
    <3>1. /\ run[0][at][w] = IF at \in DOMAIN a THEN crc16_calc(w, a[at]) ELSE w
          /\ other[0][at][w] = IF at \in DOMAIN b THEN crc16_calc(w, b[at]) ELSE w
      BY CrcRunStep
    <3>2. CASE at = p
      <4>1. run[0][at][w] = crc16_calc(w, a[p]) /\ other[0][at][w] = crc16_calc(w, b[p])
        BY <2>2, <3>1, <3>2
      <4>2. a[p] \in Byte /\ b[p] \in Byte
        BY <2>2
      <4>3. crc16_calc(w, a[p]) # crc16_calc(w, b[p])
        BY <4>2, CalcInjective
      <4> QED
        BY <3>2, <4>1, <4>3
    <3>3. CASE at # p
      <4>1. at \in DOMAIN a => a[at] = b[at]
        BY <2>2, <3>3 DEF AgreeBut
      <4> QED
        BY <2>2, <3>1, <3>3, <4>1
    <3> QED
      BY <3>2, <3>3
  <2> QED
    BY <2>1, <2>3 DEF Differ, Same
<1>2. ASSUME NEW d \in 1 .. 8, d - 1 \in S PROVE d \in S
  <2> SUFFICES ASSUME NEW at \in Nat PROVE Holds(d, at)
    OBVIOUS
  <2> DEFINE next == at + Weights[d]
  <2>1. next \in Nat /\ Weights[d] \in Nat
    <3>1. Weights[d] \in Nat
      BY SpanDoubles
    <3> QED
      BY <3>1
  <2>2. /\ Holds(d - 1, at) /\ Holds(d - 1, next)
    BY <1>2, <2>1
  <2>3. /\ Covers(d, at, p) <=> Covers(d - 1, at, p) \/ Covers(d - 1, next, p)
        /\ Covers(d - 1, at, p) => ~Covers(d - 1, next, p)
    <3>1. Span(d - 1) = Weights[d] /\ Span(d) = Weights[d] + Weights[d]
      BY SpanDoubles
    <3>2. p \in Nat
      OBVIOUS
    <3> QED
      BY <2>1, <3>1, <3>2 DEF Covers
  <2>4. OneToOne(run[d - 1][next])
    <3>1. d - 1 \in 0 .. 8
      OBVIOUS
    <3> HIDE DEF next
    <3> QED
      BY <2>1, <3>1, CrcRunOneToOne
  <2>5. ASSUME NEW w \in Word
        PROVE  /\ run[d][at][w] = run[d - 1][next][run[d - 1][at][w]]
               /\ other[d][at][w] = other[d - 1][next][other[d - 1][at][w]]
               /\ run[d - 1][at][w] \in Word /\ other[d - 1][at][w] \in Word
    <3>1. run[d][at][w] = CrcStep(run[d - 1], d, at, w) /\ run[d - 1][at][w] \in Word
      <4>1. CrcSteps(run)
        BY CrcRunStep
      <4> QED
        BY <4>1 DEF CrcSteps
    <3>2. other[d][at][w] = CrcStep(other[d - 1], d, at, w) /\ other[d - 1][at][w] \in Word
      <4>1. CrcSteps(other)
        BY CrcRunStep
      <4> QED
        BY <4>1 DEF CrcSteps
    <3> QED
      BY <3>1, <3>2 DEF CrcStep
  <2> HIDE DEF next
  <2>6. CASE Covers(d - 1, at, p)
    <3>1. Differ(run[d - 1][at], other[d - 1][at]) /\ Same(run[d - 1][next], other[d - 1][next])
      BY <2>2, <2>3, <2>6
    <3>2. Differ(run[d][at], other[d][at])
      BY <2>4, <2>5, <3>1 DEF Differ, Same, OneToOne
    <3> QED
      BY <2>3, <2>6, <3>2
  <2>7. CASE Covers(d - 1, next, p)
    <3>1. Same(run[d - 1][at], other[d - 1][at]) /\ Differ(run[d - 1][next], other[d - 1][next])
      BY <2>2, <2>3, <2>7
    <3>2. Differ(run[d][at], other[d][at])
      BY <2>5, <3>1 DEF Differ, Same
    <3> QED
      BY <2>3, <2>7, <3>2
  <2>8. CASE ~Covers(d - 1, at, p) /\ ~Covers(d - 1, next, p)
    <3>1. Same(run[d - 1][at], other[d - 1][at]) /\ Same(run[d - 1][next], other[d - 1][next])
      BY <2>2, <2>8
    <3>2. Same(run[d][at], other[d][at])
      BY <2>5, <3>1 DEF Same
    <3> QED
      BY <2>3, <2>8, <3>2
  <2> QED
    BY <2>6, <2>7, <2>8
<1> HIDE DEF S
<1>3. \A d \in 0 .. 8 : d \in S
  BY <1>1, <1>2, FiniteInduction
<1> QED
  BY <1>3 DEF S

\* The CRC tells apart any two frames that differ in one byte (crc16.c:3-14,
\* phy.c:351-354).
THEOREM CrcDetects ==
    ASSUME NEW a \in Seq(Byte), NEW b \in Seq(Byte), Len(a) <= 255, NEW p \in 1 .. Len(a),
           AgreeBut(a, b, p), a[p] # b[p]
    PROVE  Crc(a) # Crc(b)
<1>1. PICK run : CrcRun(a, run) /\ Crc(a) = run[8][1][WORD_MAX]
  BY CrcIsRun
<1>2. PICK other : CrcRun(b, other) /\ Crc(b) = other[8][1][WORD_MAX]
  BY CrcIsRun
<1>3. Covers(8, 1, p)
  <2>1. Span(8) = 256
    BY DEF Span, Weights
  <2> QED
    BY <2>1 DEF Covers
<1>4. 8 \in 0 .. 8 /\ 1 \in Nat /\ WORD_MAX \in Word
  BY WordRange DEF WORD_MAX
<1>5. Differ(run[8][1], other[8][1])
  BY <1>1, <1>2, <1>3, <1>4, CrcRunsDiffer
<1> QED
  BY <1>1, <1>2, <1>4, <1>5 DEF Differ

LEMMA LsfrRange ==
    \A x : x \in Lsfr <=> x \in Int /\ 0 <= x /\ x <= 511
<1>1. LSFR_START \in Int
  BY DEF LSFR_START
<1>2. \A x : x \in Lsfr <=> x \in Int /\ 0 <= x /\ x <= LSFR_START
  BY <1>1 DEF Lsfr
<1> QED
  BY <1>2 DEF LSFR_START

LEMMA ShiftType ==
    ASSUME NEW lsfr \in Lsfr
    PROVE  Shift[lsfr] \in Lsfr
<1>1. lsfr \in Int /\ 0 <= lsfr /\ lsfr <= 511
  BY LsfrRange
<1>2. Shift[lsfr] = lsfr \div 2 + 256 * ((lsfr + lsfr \div 32) % 2)
  BY DEF Shift
<1>3. /\ lsfr \div 2 + 256 * ((lsfr + lsfr \div 32) % 2) \in Int
      /\ 0 <= lsfr \div 2 + 256 * ((lsfr + lsfr \div 32) % 2)
      /\ lsfr \div 2 + 256 * ((lsfr + lsfr \div 32) % 2) <= 511
  BY <1>1
<1> QED
  BY <1>2, <1>3, LsfrRange

ShiftRun(lsfr, after) == after = [i \in 0 .. 8 |-> IF i = 0 THEN lsfr ELSE Shift[after[i - 1]]]

LEMMA ShiftedType ==
    ASSUME NEW lsfr \in Lsfr
    PROVE  Shifted(lsfr) \in Lsfr
<1> DEFINE T == [i \in 0 .. 8 |-> Lsfr]
           step == [i \in 1 .. 8 |-> Shift]
<1>1. PICK f : Follows(f, T, lsfr, step, 8)
  <2>1. Steps(T, lsfr, step, 8)
    BY ShiftType DEF Steps
  <2> HIDE DEF T, step
  <2> QED
    BY <2>1, Recursion
<1> DEFINE g == [i \in 0 .. 8 |-> f[i]]
<1>2. ASSUME NEW i \in 0 .. 8
      PROVE  f[i] = IF i = 0 THEN lsfr ELSE Shift[g[i - 1]]
  BY <1>1 DEF Follows
<1>3. ShiftRun(lsfr, g)
  BY <1>2 DEF ShiftRun
<1> HIDE DEF g
<1> DEFINE after == CHOOSE x : ShiftRun(lsfr, x)
<1>4. ShiftRun(lsfr, after)
  BY <1>3, Zenon
<1>5. Shifted(lsfr) = after[8]
  BY DEF Shifted, ShiftRun
<1> HIDE DEF after
<1> DEFINE S == {i \in 0 .. 8 : after[i] \in Lsfr}
<1>6. 0 \in S
  BY <1>4 DEF ShiftRun
<1>7. ASSUME NEW i \in 1 .. 8, i - 1 \in S PROVE i \in S
  BY <1>4, <1>7, ShiftType DEF ShiftRun
<1> HIDE DEF S
<1>8. \A i \in 0 .. 8 : i \in S
  BY <1>6, <1>7, FiniteInduction
<1> QED
  BY <1>5, <1>8 DEF S

Least(d) == IF d <= 8 THEN <<1, 2, 4, 8, 16, 32, 64, 128, 256>>[d + 1] ELSE 255 * (d - 8) + 256

StreamRuns(d) == [Lsfr -> {s \in Seq(Lsfr) : Least(d) <= Len(s)}]

StreamBoth(r) == [lsfr \in Lsfr |-> r[lsfr] \o r[Shifted(r[lsfr][Len(r[lsfr])])]]

StreamRun(run) ==
    run = [d \in 0 .. N_FRAMES + 8 |->
              IF d = 0 THEN [lsfr \in Lsfr |-> <<lsfr>>] ELSE StreamBoth(run[d - 1])]

LEMMA FirstRunType == [lsfr \in Lsfr |-> <<lsfr>>] \in StreamRuns(0)
BY DEF StreamRuns, Least

LEMMA LeastDoubles ==
    ASSUME NEW d \in 1 .. N_FRAMES + 8
    PROVE  /\ Least(d - 1) \in Nat \ {0} /\ Least(d) \in Nat
           /\ Least(d) <= 2 * Least(d - 1)
<1>1. N_FRAMES \in Nat
  BY FramesAssumption
<1>2. CASE d \in 1 .. 8
  BY <1>2 DEF Least
<1>3. CASE d = 9
  BY <1>3 DEF Least
<1>4. CASE 9 < d
  BY <1>1, <1>4 DEF Least
<1> QED
  BY <1>1, <1>2, <1>3, <1>4

LEMMA StreamBothType ==
    ASSUME NEW d \in 1 .. N_FRAMES + 8, NEW r \in StreamRuns(d - 1)
    PROVE  StreamBoth(r) \in StreamRuns(d)
<1>1. ASSUME NEW lsfr \in Lsfr
      PROVE  /\ r[lsfr] \o r[Shifted(r[lsfr][Len(r[lsfr])])] \in Seq(Lsfr)
             /\ Least(d) <= Len(r[lsfr] \o r[Shifted(r[lsfr][Len(r[lsfr])])])
  <2>1. r[lsfr] \in Seq(Lsfr) /\ Least(d - 1) <= Len(r[lsfr])
    BY DEF StreamRuns
  <2>2. Len(r[lsfr]) \in DOMAIN r[lsfr]
    BY <2>1, LeastDoubles
  <2> DEFINE next == Shifted(r[lsfr][Len(r[lsfr])])
  <2>3. next \in Lsfr
    BY <2>1, <2>2, ShiftedType
  <2> HIDE DEF next
  <2>4. r[next] \in Seq(Lsfr) /\ Least(d - 1) <= Len(r[next])
    BY <2>3 DEF StreamRuns
  <2>5. /\ r[lsfr] \o r[next] \in Seq(Lsfr)
        /\ Len(r[lsfr] \o r[next]) = Len(r[lsfr]) + Len(r[next])
    BY <2>1, <2>4
  <2>6. Least(d) <= Len(r[lsfr] \o r[next])
    <3>1. Len(r[lsfr]) \in Nat /\ Len(r[next]) \in Nat
      BY <2>1, <2>4
    <3>2. Least(d - 1) \in Nat /\ Least(d) \in Nat /\ Least(d) <= 2 * Least(d - 1)
      BY LeastDoubles
    <3>3. Least(d - 1) <= Len(r[lsfr]) /\ Least(d - 1) <= Len(r[next])
      BY <2>1, <2>4
    <3>4. Least(d) <= Len(r[lsfr]) + Len(r[next])
      <4>1. \A a, b, c, e \in Nat : c <= a /\ c <= b /\ e <= 2 * c => e <= a + b
        OBVIOUS
      <4> QED
        BY <3>1, <3>2, <3>3, <4>1
    <3> QED
      BY <2>5, <3>4
  <2> QED
    BY <2>5, <2>6 DEF next
<1> QED
  BY <1>1 DEF StreamBoth, StreamRuns

LEMMA StreamRunExists ==
    \E run : StreamRun(run)
<1> DEFINE n == N_FRAMES + 8
           T == [d \in 0 .. n |-> StreamRuns(d)]
           first == [lsfr \in Lsfr |-> <<lsfr>>]
           step == [d \in 1 .. n |-> [r \in StreamRuns(d - 1) |-> StreamBoth(r)]]
<1>1. n \in Nat
  BY FramesAssumption
<1>2. first \in T[0]
  BY <1>1, FirstRunType
<1>3. \A d \in 1 .. n : d - 1 \in 0 .. n /\ d \in 0 .. n
  BY <1>1
<1>4. \A d \in 1 .. n : \A r \in T[d - 1] :
        step[d][r] = StreamBoth(r) /\ step[d][r] \in T[d]
  BY <1>3, StreamBothType
<1> HIDE DEF n, T, first, step
<1>5. PICK f : Follows(f, T, first, step, n)
  <2>1. Steps(T, first, step, n)
    BY <1>1, <1>2, <1>4 DEF Steps
  <2> QED
    BY <2>1, Recursion
<1> DEFINE run == [d \in 0 .. n |-> f[d]]
<1>6. ASSUME NEW d \in 0 .. n
      PROVE  f[d] = IF d = 0 THEN [lsfr \in Lsfr |-> <<lsfr>>] ELSE StreamBoth(run[d - 1])
  <2>1. CASE d = 0
    BY <1>5, <2>1 DEF Follows, first
  <2>2. CASE d # 0
    <3>1. d \in 1 .. n /\ d - 1 \in 0 .. n
      BY <1>1, <2>2
    <3>2. f[d] = step[d][f[d - 1]] /\ f[d - 1] \in T[d - 1] /\ run[d - 1] = f[d - 1]
      BY <1>5, <3>1 DEF Follows
    <3> QED
      BY <1>4, <2>2, <3>1, <3>2
  <2> QED
    BY <2>1, <2>2
<1>7. StreamRun(run)
  BY <1>6 DEF StreamRun, n
<1> QED
  BY <1>7

\* There is a byte for each byte of a packet.
LEMMA KeystreamType ==
    Keystream \in Seq(Lsfr) /\ N_FRAMES * FRAME_SIZE <= Len(Keystream)
<1> DEFINE n == N_FRAMES + 8
           run == CHOOSE r : StreamRun(r)
<1>1. StreamRun(run)
  BY StreamRunExists, Zenon
<1>2. Keystream = run[N_FRAMES + 8][LSFR_START]
  BY DEF Keystream, StreamRun, StreamBoth
<1> HIDE DEF run
<1> DEFINE S == {d \in 0 .. n : run[d] \in StreamRuns(d)}
<1>3. N_FRAMES \in Nat /\ N_FRAMES # 0 /\ n \in Nat
  BY FramesAssumption
<1>4. 0 \in S
  BY <1>1, <1>3, FirstRunType DEF StreamRun
<1>5. ASSUME NEW d \in 1 .. n, d - 1 \in S PROVE d \in S
  <2>1. d \in 0 .. n /\ d # 0
    BY <1>3
  <2>2. run[d] = StreamBoth(run[d - 1])
    BY <1>1, <2>1 DEF StreamRun
  <2> QED
    BY <1>5, <2>1, <2>2, StreamBothType
<1>6. \A d \in 0 .. n : d \in S
  <2> HIDE DEF S, n
  <2> QED
    BY <1>3, <1>4, <1>5, FiniteInduction
<1>7. run[n] \in StreamRuns(n)
  BY <1>3, <1>6
<1>8. LSFR_START \in Lsfr
  BY LsfrRange DEF LSFR_START
<1>9. Keystream \in Seq(Lsfr) /\ Least(n) <= Len(Keystream)
  BY <1>2, <1>7, <1>8 DEF StreamRuns
<1>10. N_FRAMES * FRAME_SIZE <= Least(n)
  BY <1>3 DEF Least, FRAME_SIZE
<1>11. Least(n) \in Int /\ N_FRAMES * FRAME_SIZE \in Int /\ Len(Keystream) \in Int
  BY <1>3, <1>9 DEF Least, FRAME_SIZE
<1> QED
  BY <1>9, <1>10, <1>11

-----------------------------------------------------------------------------
(* Arrays of bytes *)

Array(n) == [0 .. n -> Byte]

LEMMA ByteRange ==
    \A x : x \in Byte <=> x \in Int /\ 0 <= x /\ x <= 255
BY DEF Byte

LEMMA FramesType == N_FRAMES \in Nat /\ 1 <= N_FRAMES /\ N_FRAMES <= 255
BY FramesAssumption

LEMMA ModByte ==
    ASSUME NEW x \in Int
    PROVE  x % 256 \in Byte
BY ByteRange

LEMMA PutType ==
    ASSUME NEW n \in Nat, NEW array \in Array(n), NEW at \in Int, NEW bytes \in Seq(Byte)
    PROVE  /\ Put(array, at, bytes) \in Array(n)
           /\ \A i \in 0 .. n :
                Put(array, at, bytes)[i] =
                    IF at <= i /\ i < at + Len(bytes) THEN bytes[(i - at) + 1] ELSE array[i]
<1>1. DOMAIN array = 0 .. n
  BY DEF Array
<1>2. ASSUME NEW i \in 0 .. n
      PROVE  /\ (i - at) + 1 \in DOMAIN bytes <=> at <= i /\ i < at + Len(bytes)
             /\ (i - at) + 1 \in DOMAIN bytes => bytes[(i - at) + 1] \in Byte
             /\ array[i] \in Byte
  <2>1. DOMAIN bytes = 1 .. Len(bytes) /\ Len(bytes) \in Nat
    OBVIOUS
  <2> QED
    BY <2>1 DEF Array
<1>3. Put(array, at, bytes) =
        [i \in 0 .. n |-> IF (i - at) + 1 \in DOMAIN bytes THEN bytes[(i - at) + 1] ELSE array[i]]
  BY <1>1 DEF Put
<1> QED
  BY <1>2, <1>3 DEF Array

LEMMA SliceType ==
    ASSUME NEW n \in Nat, NEW array \in Array(n), NEW at \in Nat, NEW size \in Int,
           at + size <= n + 1
    PROVE  /\ Slice(array, at, size) \in Seq(Byte)
           /\ size \in Nat => Len(Slice(array, at, size)) = size
           /\ size < 0 => Len(Slice(array, at, size)) = 0
           /\ \A i \in 1 .. size : Slice(array, at, size)[i] = array[(at + i) - 1]
<1>1. ASSUME NEW i \in 1 .. size PROVE array[(at + i) - 1] \in Byte
  <2>1. (at + i) - 1 \in 0 .. n
    OBVIOUS
  <2> QED
    BY <2>1 DEF Array
<1>2. Slice(array, at, size) = [i \in 1 .. size |-> array[(at + i) - 1]]
  BY DEF Slice
<1>3. CASE size \in Nat
  BY <1>1, <1>2, <1>3
<1>4. CASE size < 0
  <2>1. 1 .. size = 1 .. 0
    BY <1>4
  <2>2. Slice(array, at, size) = [i \in 1 .. 0 |-> array[(at + i) - 1]]
    BY <1>2, <2>1
  <2>3. [i \in 1 .. 0 |-> array[(at + i) - 1]] \in Seq(Byte)
    OBVIOUS
  <2>4. Len([i \in 1 .. 0 |-> array[(at + i) - 1]]) = 0
    OBVIOUS
  <2>5. Slice(array, at, size) \in Seq(Byte) /\ Len(Slice(array, at, size)) = 0
    BY <2>2, <2>3, <2>4
  <2>6. size \notin Nat /\ 1 .. size = {}
    BY <1>4
  <2> QED
    BY <2>5, <2>6
<1> QED
  BY <1>3, <1>4

LEMMA DataType ==
    ASSUME NEW n \in Nat, NEW k \in Int
    PROVE  Data(n, k) \in Seq(Byte) /\ Len(Data(n, k)) = n
<1>1. \A i \in 1 .. n : (7 * i + 31 * k) % 256 \in Byte
  BY ModByte
<1> QED
  BY <1>1 DEF Data

\* The byte of PN9 at a place of the packet.
Noise(i) == Keystream[i] % 256

LEMMA NoiseType ==
    ASSUME NEW i \in 1 .. N_FRAMES * FRAME_SIZE
    PROVE  Noise(i) \in Byte
<1>1. N_FRAMES * FRAME_SIZE \in Nat
  BY FramesType DEF FRAME_SIZE
<1>2. i \in 1 .. Len(Keystream)
  BY <1>1, KeystreamType
<1>3. Keystream[i] \in Int
  BY <1>2, KeystreamType, LsfrRange
<1> QED
  BY <1>3, ModByte DEF Noise

LEMMA WhitenedType ==
    ASSUME NEW bytes \in Seq(Byte), NEW before \in Nat,
           before + Len(bytes) <= N_FRAMES * FRAME_SIZE
    PROVE  /\ Whitened(bytes, before) \in Seq(Byte)
           /\ Len(Whitened(bytes, before)) = Len(bytes)
           /\ \A i \in 1 .. Len(bytes) :
                Whitened(bytes, before)[i] = Xor[bytes[i]][Noise(before + i)]
<1>1. N_FRAMES * FRAME_SIZE \in Nat /\ DOMAIN bytes = 1 .. Len(bytes) /\ Len(bytes) \in Nat
  BY FramesType DEF FRAME_SIZE
<1>2. ASSUME NEW i \in 1 .. Len(bytes)
      PROVE  Xor[bytes[i]][Noise(before + i)] \in Byte
  <2>1. before + i \in 1 .. N_FRAMES * FRAME_SIZE
    BY <1>1
  <2> QED
    BY <1>1, <2>1, NoiseType, XorType
<1>3. Whitened(bytes, before) = [i \in 1 .. Len(bytes) |-> Xor[bytes[i]][Noise(before + i)]]
  BY <1>1 DEF Whitened, Noise
<1> QED
  BY <1>1, <1>2, <1>3

LEMMA Concatenated ==
    ASSUME NEW s \in Seq(Byte), NEW t \in Seq(Byte)
    PROVE  /\ s \o t \in Seq(Byte) /\ Len(s \o t) = Len(s) + Len(t)
           /\ \A i \in 1 .. Len(s) : (s \o t)[i] = s[i]
           /\ \A i \in 1 .. Len(t) : (s \o t)[Len(s) + i] = t[i]
<1>1. Len(s) \in Nat /\ Len(t) \in Nat
  OBVIOUS
<1>2. s \o t \in Seq(Byte) /\ Len(s \o t) = Len(s) + Len(t)
  OBVIOUS
<1>3. ASSUME NEW i \in 1 .. Len(s)
      PROVE  (s \o t)[i] = s[i]
  BY <1>1
<1>4. ASSUME NEW i \in 1 .. Len(t)
      PROVE  (s \o t)[Len(s) + i] = t[i]
  BY <1>1
<1> QED
  BY <1>2, <1>3, <1>4

\* A frame as its row holds it, for a class of packets.
CopyAs(class, whole) ==
    IF class = "FOREGROUND" THEN [whole EXCEPT ![1] = (@ + 2) % 256] ELSE whole

CodedAs(class, whole) ==
    CopyAs(class, whole) \o <<Crc(CopyAs(class, whole)) \div 256, Crc(CopyAs(class, whole)) % 256>>

LEMMA CopyAsType ==
    ASSUME NEW whole \in Seq(Byte), NEW class
    PROVE  /\ CopyAs(class, whole) \in Seq(Byte) /\ Len(CopyAs(class, whole)) = Len(whole)
           /\ \A i \in 1 .. Len(whole) :
                CopyAs(class, whole)[i] = IF i = 1 /\ class = "FOREGROUND" THEN (whole[1] + 2) % 256
                                          ELSE whole[i]
<1>1. DOMAIN whole = 1 .. Len(whole) /\ Len(whole) \in Nat
  OBVIOUS
<1>2. CASE class # "FOREGROUND"
  BY <1>1, <1>2 DEF CopyAs
<1>3. CASE class = "FOREGROUND"
  <2>1. CopyAs(class, whole) =
          [i \in 1 .. Len(whole) |-> IF i = 1 THEN (whole[1] + 2) % 256 ELSE whole[i]]
    BY <1>1, <1>3 DEF CopyAs
  <2>2. ASSUME NEW i \in 1 .. Len(whole)
        PROVE  (IF i = 1 THEN (whole[1] + 2) % 256 ELSE whole[i]) \in Byte
    <3>1. whole[i] \in Byte
      BY <1>1
    <3>2. i = 1 => whole[1] \in Int
      BY <3>1, ByteRange
    <3> QED
      BY <3>1, <3>2, ModByte
  <2>3. CopyAs(class, whole) \in [1 .. Len(whole) -> Byte]
    BY <2>1, <2>2
  <2> QED
    BY <1>1, <1>3, <2>1, <2>3
<1> QED
  BY <1>2, <1>3

LEMMA CodedAsType ==
    ASSUME NEW whole \in Seq(Byte), NEW class
    PROVE  /\ CodedAs(class, whole) \in Seq(Byte)
           /\ Len(CodedAs(class, whole)) = Len(whole) + 2
           /\ \A i \in 1 .. Len(whole) : CodedAs(class, whole)[i] = CopyAs(class, whole)[i]
           /\ CodedAs(class, whole)[Len(whole) + 1] = Crc(CopyAs(class, whole)) \div 256
           /\ CodedAs(class, whole)[Len(whole) + 2] = Crc(CopyAs(class, whole)) % 256
<1> DEFINE copy == CopyAs(class, whole)
           crc == Crc(copy)
<1>1. copy \in Seq(Byte) /\ Len(copy) = Len(whole)
  BY CopyAsType
<1> HIDE DEF copy
<1>2. crc \div 256 \in Byte /\ crc % 256 \in Byte
  BY <1>1, CrcType, Halves
<1>3. CodedAs(class, whole) = copy \o <<crc \div 256, crc % 256>>
  BY DEF CodedAs, copy
<1> HIDE DEF crc
<1> DEFINE tail == <<crc \div 256, crc % 256>>
<1>4. /\ tail \in Seq(Byte) /\ Len(tail) = 2 /\ tail[1] = crc \div 256 /\ tail[2] = crc % 256
  BY <1>2
<1> HIDE DEF tail
<1>5. /\ copy \o tail \in Seq(Byte) /\ Len(copy \o tail) = Len(whole) + 2
      /\ \A i \in 1 .. Len(whole) : (copy \o tail)[i] = copy[i]
      /\ (copy \o tail)[Len(whole) + 1] = tail[1] /\ (copy \o tail)[Len(whole) + 2] = tail[2]
  <2>1. /\ copy \o tail \in Seq(Byte) /\ Len(copy \o tail) = Len(copy) + Len(tail)
        /\ \A i \in 1 .. Len(copy) : (copy \o tail)[i] = copy[i]
        /\ \A i \in 1 .. Len(tail) : (copy \o tail)[Len(copy) + i] = tail[i]
    BY <1>1, <1>4, Concatenated, ZenonT(40)
  <2> QED
    BY <1>1, <1>4, <2>1
<1> QED
  BY <1>3, <1>4, <1>5 DEF tail, crc, copy

LEMMA CodedIs ==
    \A whole : Coded(whole) = CodedAs(pack_class, whole)
BY DEF Coded, CodedAs, CopyAs, Foreground

LEMMA CodedType ==
    ASSUME NEW whole \in Seq(Byte)
    PROVE  Coded(whole) \in Seq(Byte) /\ Len(Coded(whole)) = Len(whole) + 2
BY CodedIs, CodedAsType

-----------------------------------------------------------------------------
(* The packet *)

Buffer == Array(N_FRAMES * FRAME_SIZE + 1)

LEMMA BufferSize == N_FRAMES * FRAME_SIZE \in Nat /\ N_FRAMES * FRAME_SIZE + 1 \in Nat
BY FramesType DEF FRAME_SIZE

LEMMA RowPlace ==
    ASSUME NEW i \in 0 .. N_FRAMES - 1
    PROVE  Row(i) \in Nat /\ Row(i) = 255 * i /\ Row(i) + 255 <= N_FRAMES * FRAME_SIZE
BY FramesType DEF Row, FRAME_SIZE

RowBytes(i) == Slice(buf, Row(i), RowLength(i))

LEMMA RowType ==
    ASSUME buf \in Buffer, NEW i \in 0 .. N_FRAMES - 1
    PROVE  /\ RowLength(i) \in Nat /\ RowLength(i) <= 255
           /\ RowBytes(i) \in Seq(Byte) /\ Len(RowBytes(i)) = RowLength(i)
           /\ \A k \in 1 .. RowLength(i) : RowBytes(i)[k] = buf[(Row(i) + k) - 1]
<1> DEFINE n == N_FRAMES * FRAME_SIZE + 1
           size == RowLength(i)
<1>1. Row(i) \in Nat /\ Row(i) + 255 <= n /\ n \in Nat
  BY RowPlace, BufferSize
<1>2. size \in Nat /\ size <= 255
  <2>1. Row(i) \in 0 .. n
    BY <1>1
  <2>2. buf[Row(i)] \in Byte
    BY <2>1 DEF Buffer, Array
  <2> QED
    BY <2>2, ByteRange DEF RowLength, BG_CRC_SIZE
<1>3. buf \in Array(n)
  BY DEF Buffer
<1> HIDE DEF n, size
<1>4. Row(i) + size <= n + 1 /\ size \in Int
  BY <1>1, <1>2
<1>5. /\ Slice(buf, Row(i), size) \in Seq(Byte)
      /\ size \in Nat => Len(Slice(buf, Row(i), size)) = size
      /\ \A k \in 1 .. size : Slice(buf, Row(i), size)[k] = buf[(Row(i) + k) - 1]
  BY <1>1, <1>2, <1>3, <1>4, SliceType, ZenonT(40)
<1> QED
  BY <1>2, <1>5 DEF RowBytes, size

AtMost(n) == {s \in Seq(Byte) : Len(s) <= n}

SentNext(i, s) == s \o Whitened(RowBytes(i - 1), Len(s))

SentIs(sent) ==
    sent = [i \in 0 .. pos |-> IF i = 0 THEN <<>> ELSE SentNext(i, sent[i - 1])]

LEMMA SentNextType ==
    ASSUME buf \in Buffer, NEW i \in 1 .. N_FRAMES, NEW s \in AtMost(255 * (i - 1))
    PROVE  /\ SentNext(i, s) \in AtMost(255 * i)
           /\ Len(SentNext(i, s)) = Len(s) + RowLength(i - 1)
           /\ \A k \in 1 .. Len(s) : SentNext(i, s)[k] = s[k]
           /\ \A k \in 1 .. RowLength(i - 1) :
                SentNext(i, s)[Len(s) + k] = Xor[RowBytes(i - 1)[k]][Noise(Len(s) + k)]
<1> DEFINE bytes == RowBytes(i - 1)
<1>1. i - 1 \in 0 .. N_FRAMES - 1
  BY FramesType
<1>2. /\ bytes \in Seq(Byte) /\ Len(bytes) = RowLength(i - 1)
      /\ RowLength(i - 1) \in Nat /\ RowLength(i - 1) <= 255
  BY <1>1, RowType
<1>3. s \in Seq(Byte) /\ Len(s) \in Nat /\ Len(s) <= 255 * (i - 1)
  BY DEF AtMost
<1> HIDE DEF bytes
<1>4. Len(s) + Len(bytes) <= N_FRAMES * FRAME_SIZE
  BY <1>2, <1>3, FramesType DEF FRAME_SIZE
<1>5. /\ Whitened(bytes, Len(s)) \in Seq(Byte) /\ Len(Whitened(bytes, Len(s))) = Len(bytes)
      /\ \A k \in 1 .. Len(bytes) :
            Whitened(bytes, Len(s))[k] = Xor[bytes[k]][Noise(Len(s) + k)]
  BY <1>2, <1>3, <1>4, WhitenedType
<1> DEFINE white == Whitened(bytes, Len(s))
<1>6. SentNext(i, s) = s \o white
  BY DEF SentNext, bytes
<1> HIDE DEF white
<1>7. /\ s \o white \in Seq(Byte) /\ Len(s \o white) = Len(s) + Len(bytes)
      /\ \A k \in 1 .. Len(s) : (s \o white)[k] = s[k]
      /\ \A k \in 1 .. Len(bytes) : (s \o white)[Len(s) + k] = white[k]
  <2>1. white \in Seq(Byte) /\ Len(white) = Len(bytes)
    BY <1>5 DEF white
  <2> QED
    BY <1>2, <1>3, <2>1
<1>8. Len(s) + Len(bytes) <= 255 * i
  BY <1>2, <1>3
<1> QED
  BY <1>2, <1>5, <1>6, <1>7, <1>8 DEF AtMost, bytes, white

\* The packet holds the rows end to end.
LEMMA SentType ==
    ASSUME buf \in Buffer, pos \in 0 .. N_FRAMES
    PROVE  /\ \A i \in 0 .. pos : Sent[i] \in AtMost(255 * i)
           /\ Sent[0] = <<>>
           /\ \A i \in 1 .. pos : Sent[i] = SentNext(i, Sent[i - 1])
<1> DEFINE T == [i \in 0 .. pos |-> AtMost(255 * i)]
           step == [i \in 1 .. pos |-> [s \in AtMost(255 * (i - 1)) |-> SentNext(i, s)]]
           first == <<>>
<1>1. pos \in Nat
  BY FramesType
<1>2. first \in T[0]
  BY <1>1 DEF AtMost
<1>3. \A i \in 1 .. pos : i - 1 \in 0 .. pos /\ i \in 0 .. pos /\ i \in 1 .. N_FRAMES
  BY <1>1, FramesType
<1>4. \A i \in 1 .. pos : \A s \in T[i - 1] :
        step[i][s] = SentNext(i, s) /\ step[i][s] \in T[i]
  BY <1>3, SentNextType
<1> HIDE DEF T, step, first
<1>5. PICK f : Follows(f, T, first, step, pos)
  <2>1. Steps(T, first, step, pos)
    BY <1>1, <1>2, <1>4 DEF Steps
  <2> QED
    BY <2>1, Recursion
<1> DEFINE sent == [i \in 0 .. pos |-> f[i]]
<1>6. ASSUME NEW i \in 0 .. pos
      PROVE  f[i] = IF i = 0 THEN <<>> ELSE SentNext(i, sent[i - 1])
  <2>1. CASE i = 0
    BY <1>5, <2>1 DEF Follows, first
  <2>2. CASE i # 0
    <3>1. i \in 1 .. pos /\ i - 1 \in 0 .. pos
      BY <1>1, <2>2
    <3>2. f[i] = step[i][f[i - 1]] /\ f[i - 1] \in T[i - 1] /\ sent[i - 1] = f[i - 1]
      BY <1>5, <3>1 DEF Follows
    <3> QED
      BY <1>4, <2>2, <3>1, <3>2
  <2> QED
    BY <2>1, <2>2
<1>7. SentIs(sent)
  BY <1>6 DEF SentIs
<1> HIDE DEF sent
<1>8. Sent = CHOOSE x : SentIs(x)
  BY DEF Sent, SentIs, SentNext, RowBytes
<1>9. SentIs(Sent)
  BY <1>7, <1>8, Zenon
<1> DEFINE S == {i \in 0 .. pos : Sent[i] \in AtMost(255 * i)}
<1>10. 0 \in S
  BY <1>1, <1>9 DEF SentIs, AtMost
<1>11. ASSUME NEW i \in 1 .. pos, i - 1 \in S PROVE i \in S
  <2>1. Sent[i] = SentNext(i, Sent[i - 1]) /\ i \in 0 .. pos
    BY <1>3, <1>9 DEF SentIs
  <2> QED
    BY <1>3, <1>11, <2>1, SentNextType
<1> HIDE DEF S
<1>12. \A i \in 0 .. pos : i \in S
  BY <1>1, <1>10, <1>11, FiniteInduction
<1>13. Sent[0] = <<>> /\ \A i \in 1 .. pos : Sent[i] = SentNext(i, Sent[i - 1])
  BY <1>1, <1>3, <1>9 DEF SentIs
<1> QED
  BY <1>12, <1>13 DEF S

LEMMA PacketType ==
    ASSUME buf \in Buffer, pos \in 0 .. N_FRAMES
    PROVE  Packet \in Seq(Byte) /\ Len(Packet) <= N_FRAMES * FRAME_SIZE
<1>1. pos \in 0 .. pos /\ 255 * pos <= N_FRAMES * FRAME_SIZE
  BY FramesType DEF FRAME_SIZE
<1>2. Packet \in Seq(Byte) /\ Len(Packet) <= 255 * pos /\ Len(Packet) \in Nat
  BY <1>1, SentType DEF Packet, AtMost
<1> QED
  BY <1>1, <1>2, BufferSize

-----------------------------------------------------------------------------
(* Types *)

\* What is in the variables, whatever wraps; a packet fills the sender's buffer
\* at most, and as long as it is taken the receiver has a row for the next
\* frame.
TypeInv ==
    /\ pc \in {"build", "addr_ctl", "payload", "ready", "added", "stuck", "air", "listened", "error"}
    /\ pack_class \in {"BACKGROUND", "FOREGROUND"} /\ home \in Byte /\ device \in Byte
    /\ frame \in Array(299) /\ buf \in Buffer /\ rbuf \in Buffer
    /\ pos \in 0 .. N_FRAMES /\ added \in Seq(Seq(Byte)) /\ Len(added) = pos
    /\ air \in Seq(Byte) /\ Len(air) <= N_FRAMES * FRAME_SIZE
    /\ filled \in 0 .. N_FRAMES + 1 /\ (pc = "air" => filled <= N_FRAMES - 1 /\ rpos = 0)
    /\ rpos \in 0 .. filled /\ read \in 0 .. Len(air) /\ damaged \in BOOLEAN
    /\ pc \notin {"air", "listened", "error"} => filled = 0 /\ read = 0

LEMMA ArrayIn ==
    ASSUME NEW n \in Nat, NEW array \in Array(n), NEW i \in 0 .. n
    PROVE  array[i] \in Byte
BY DEF Array

LEMMA FrameByte ==
    ASSUME frame \in Array(299), NEW i \in 0 .. 299
    PROVE  frame[i] \in Byte /\ frame[i] \in Int /\ 0 <= frame[i] /\ frame[i] <= 255
<1>1. frame[i] \in Byte
  BY DEF Array
<1> QED
  BY <1>1, ByteRange

LEMMA FramePut ==
    ASSUME frame \in Array(299), NEW at \in Int, NEW bytes \in Seq(Byte)
    PROVE  Put(frame, at, bytes) \in Array(299)
<1>1. 299 \in Nat
  OBVIOUS
<1> QED
  BY <1>1, PutType

LEMMA ConstantsType ==
    /\ Senders \subseteq Byte /\ Receivers \subseteq Byte /\ Controls \subseteq Byte
    /\ Flags \subseteq Byte /\ Extras \subseteq Nat /\ Lengths \subseteq 4 .. 255
    /\ Times \subseteq Word /\ Masks \subseteq Byte
BY FramesAssumption, Zenon

LEMMA PayloadPosType == PayloadPos \in {4, 9, 23}
BY DEF PayloadPos

LEMMA InitType ==
    ASSUME Init
    PROVE  TypeInv
<1>1. frame \in Array(299) /\ buf \in Buffer /\ rbuf \in Buffer
  <2>1. 0 \in Byte
    BY ByteRange
  <2> QED
    BY <2>1 DEF Init, Array, Buffer
<1>2. home \in Byte /\ device \in Byte
  BY ConstantsType DEF Init
<1>3. /\ pos \in 0 .. N_FRAMES /\ filled \in 0 .. N_FRAMES + 1 /\ rpos \in 0 .. filled
      /\ read \in 0 .. 0
  BY FramesType DEF Init
<1>4. air \in Seq(Byte) /\ Len(air) = 0 /\ added \in Seq(Seq(Byte)) /\ Len(added) = pos
  BY DEF Init
<1>5. Len(air) <= N_FRAMES * FRAME_SIZE /\ read \in 0 .. Len(air)
  BY <1>3, <1>4, BufferSize
<1>6. pc = "build" /\ damaged \in BOOLEAN /\ pack_class \in {"BACKGROUND", "FOREGROUND"}
  BY DEF Init
<1>7. filled = 0 /\ read = 0
  BY DEF Init
<1> QED
  BY <1>1, <1>2, <1>3, <1>4, <1>5, <1>6, <1>7 DEF TypeInv

BgHeader(protocol, time) == <<home, protocol, 18, time \div 256, time % 256>>

LEMMA BgSetPut ==
    ASSUME BgSet
    PROVE  \E protocol \in {240, 241}, time \in Times :
              /\ frame' = Put(frame, 0, BgHeader(protocol, time))
              /\ fields' = [protocol |-> <<protocol>>, channel |-> <<18>>, time |-> <<time>>]
<1>1. \E protocol \in {240, 241}, time \in Times :
        /\ frame' = Put(frame, 0, <<home, protocol, 18, time \div 256, time % 256>>)
        /\ fields' = [protocol |-> <<protocol>>, channel |-> <<18>>, time |-> <<time>>]
  BY DEF BgSet
<1> QED
  BY <1>1 DEF BgHeader

\* The steps of the caller change its buffer only.
LEMMA CallerType ==
    ASSUME TypeInv,
           FrameStart \/ AddrCtlSet \/ SetPayload \/ Write \/ BgSet
             \/ \E type \in {"source", "target"} : SetAddr(type)
    PROVE  TypeInv'
<1> USE DEF TypeInv
<1>1. SUFFICES frame' \in Array(299)
  <2>1. pc \in {"build", "addr_ctl", "payload"} /\ pc' \in {"addr_ctl", "payload", "ready"}
    BY DEF FrameStart, AddrCtlSet, SetPayload, Write, BgSet, SetAddr
  <2>2. UNCHANGED <<configured, sender, air, damaged, receiver>>
    BY DEF FrameStart, AddrCtlSet, SetPayload, Write, BgSet, SetAddr
  <2>3. /\ UNCHANGED <<pack_class, home, device, air, damaged, buf, pos, added>>
        /\ UNCHANGED <<rbuf, rpos, filled, read>>
    BY <2>2 DEF configured, sender, receiver
  <2> QED
    BY <2>1, <2>3 DEF Buffer
<1>2. CASE FrameStart
  <2>1. PICK frame_ctl \in Controls :
            frame' = Put(frame, 1, <<(13 - 24) % 256, home, frame_ctl>>)
    BY <1>2 DEF FrameStart
  <2> DEFINE header == <<(13 - 24) % 256, home, frame_ctl>>
  <2>2. frame_ctl \in Byte /\ (13 - 24) % 256 \in Byte
    <3>1. 13 - 24 \in Int
      OBVIOUS
    <3>2. (13 - 24) % 256 \in Byte
      BY <3>1, ModByte
    <3> QED
      BY <3>2, ConstantsType
  <2>3. header \in Seq(Byte) /\ 1 \in Int
    BY <2>2
  <2> HIDE DEF header
  <2>4. Put(frame, 1, header) \in Array(299)
    BY <2>3, FramePut
  <2> QED
    BY <2>1, <2>4 DEF header
<1>3. CASE AddrCtlSet
  <2>1. PICK f \in Flags : frame' = Put(frame, 4, <<Len(added), f>>)
    BY <1>3 DEF AddrCtlSet
  <2> DEFINE addr_ctl == <<Len(added), f>>
  <2>2. f \in Byte /\ Len(added) \in Byte
    BY ConstantsType, FramesType DEF Byte
  <2>3. addr_ctl \in Seq(Byte) /\ 4 \in Int
    BY <2>2
  <2> HIDE DEF addr_ctl
  <2>4. Put(frame, 4, addr_ctl) \in Array(299)
    BY <2>3, FramePut
  <2> QED
    BY <2>1, <2>4 DEF addr_ctl
<1>4. CASE SetPayload
  <2>1. PICK extra \in Extras :
            LET size == FRAME_SIZE - 2 - PayloadPos + extra
            IN  frame' = Put(Put(frame, PayloadPos, Data(size, 3)), 0, <<(PayloadPos + size) % 256>>)
    BY <1>4 DEF SetPayload
  <2> DEFINE size == FRAME_SIZE - 2 - PayloadPos + extra
  <2>2. PayloadPos \in Int /\ size \in Nat /\ PayloadPos + size \in Int
    BY PayloadPosType, ConstantsType DEF FRAME_SIZE
  <2> HIDE DEF size
  <2>3. Data(size, 3) \in Seq(Byte) /\ <<(PayloadPos + size) % 256>> \in Seq(Byte)
    <3>1. (PayloadPos + size) % 256 \in Byte
      BY <2>2, ModByte
    <3> QED
      BY <2>2, <3>1, DataType
  <2>4. Put(frame, PayloadPos, Data(size, 3)) \in Array(299)
    BY <2>2, <2>3, FramePut
  <2>5. Put(Put(frame, PayloadPos, Data(size, 3)), 0, <<(PayloadPos + size) % 256>>) \in Array(299)
    <3> DEFINE array == Put(frame, PayloadPos, Data(size, 3))
               length == <<(PayloadPos + size) % 256>>
    <3>1. array \in Array(299) /\ length \in Seq(Byte) /\ 299 \in Nat /\ 0 \in Int
      BY <2>3, <2>4
    <3> HIDE DEF array, length
    <3>2. Put(array, 0, length) \in Array(299)
      BY <3>1, PutType
    <3> QED
      BY <3>2 DEF array, length
  <2> QED
    BY <2>1, <2>5 DEF size
<1>5. CASE Write
  <2>1. PICK length \in Lengths, frame_ctl \in {0, Fctl_CONT} :
          frame' = Put(frame, 0, <<length, 1, home, frame_ctl>> \o Data(length - 4, length))
    BY <1>5 DEF Write
  <2>2. length \in 4 .. 255 /\ frame_ctl \in Byte /\ length \in Byte /\ 1 \in Byte
    BY ConstantsType DEF Fctl_CONT, Byte
  <2>3. Data(length - 4, length) \in Seq(Byte)
    <3>1. length - 4 \in Nat /\ length \in Int
      BY <2>2
    <3> QED
      BY <3>1, DataType
  <2>4. <<length, 1, home, frame_ctl>> \in Seq(Byte)
    BY <2>2
  <2> DEFINE bytes == <<length, 1, home, frame_ctl>> \o Data(length - 4, length)
  <2>5. bytes \in Seq(Byte) /\ 0 \in Int
    BY <2>3, <2>4
  <2> HIDE DEF bytes
  <2>6. Put(frame, 0, bytes) \in Array(299)
    BY <2>5, FramePut
  <2> QED
    BY <2>1, <2>6 DEF bytes
<1>6. CASE BgSet
  <2>1. PICK protocol \in {240, 241}, time \in Times :
            frame' = Put(frame, 0, BgHeader(protocol, time))
    BY <1>6, BgSetPut
  <2>2. time \div 256 \in Byte /\ time % 256 \in Byte
    BY ConstantsType, Halves
  <2>3. protocol \in Byte /\ 18 \in Byte
    BY DEF Byte
  <2>4. BgHeader(protocol, time) \in Seq(Byte) /\ 0 \in Int
    BY <2>2, <2>3 DEF BgHeader
  <2> QED
    BY <2>1, <2>4, FramePut
<1>7. CASE \E type \in {"source", "target"} : SetAddr(type)
  <2>1. PICK type \in {"source", "target"} :
            frame' = Put(frame, IF type = "source" THEN SourcePos ELSE TargetPos,
                         Data(Width, IF type = "source" THEN 1 ELSE 2))
    BY <1>7 DEF SetAddr
  <2>2. Data(Width, IF type = "source" THEN 1 ELSE 2) \in Seq(Byte)
    <3>1. Width \in Nat /\ (IF type = "source" THEN 1 ELSE 2) \in Int
      BY DEF Width
    <3> QED
      BY <3>1, DataType
  <2>3. (IF type = "source" THEN SourcePos ELSE TargetPos) \in Int
    BY DEF SourcePos, TargetPos
  <2> QED
    BY <2>1, <2>2, <2>3, FramePut
<1> QED
  BY <1>1, <1>2, <1>3, <1>4, <1>5, <1>6, <1>7

\* The frame that is added.
Whole == Slice(frame, 0, IF Foreground THEN frame[0] ELSE BG_FRAME_SIZE)

LEMMA WholeType ==
    ASSUME frame \in Array(299)
    PROVE  /\ Whole \in Seq(Byte) /\ Len(Whole) <= 255
           /\ Len(Whole) = IF Foreground THEN frame[0] ELSE BG_FRAME_SIZE
           /\ \A i \in 1 .. Len(Whole) : Whole[i] = frame[i - 1]
<1> DEFINE size == IF Foreground THEN frame[0] ELSE BG_FRAME_SIZE
           n == 299
           at == 0
<1>1. size \in Nat /\ size \in Int /\ size <= 255
  BY FrameByte DEF BG_FRAME_SIZE
<1> HIDE DEF size
<1>2. /\ n \in Nat /\ frame \in Array(n) /\ at \in Nat /\ at + size <= n + 1
      /\ \A i \in 1 .. size : (at + i) - 1 = i - 1
  BY <1>1
<1> HIDE DEF n, at
<1>3. /\ Slice(frame, at, size) \in Seq(Byte)
      /\ size \in Nat => Len(Slice(frame, at, size)) = size
      /\ size < 0 => Len(Slice(frame, at, size)) = 0
      /\ \A i \in 1 .. size : Slice(frame, at, size)[i] = frame[(at + i) - 1]
  BY <1>1, <1>2, SliceType
<1>4. Whole = Slice(frame, at, size)
  BY DEF Whole, size, at
<1>5. \A i \in 1 .. size : Whole[i] = frame[i - 1]
  BY <1>2, <1>3, <1>4
<1>6. Whole \in Seq(Byte) /\ Len(Whole) = size
  BY <1>1, <1>3, <1>4
<1> QED
  BY <1>1, <1>5, <1>6 DEF size

LEMMA AddFrameType ==
    ASSUME TypeInv, AddFrame
    PROVE  TypeInv'
<1> USE DEF TypeInv
<1>1. /\ pc' = "added" /\ pos' = pos + 1 /\ pos # N_FRAMES
      /\ buf' = Put(buf, Row(pos), Coded(Whole)) /\ added' = Append(added, Whole)
      /\ UNCHANGED <<configured, caller, air, damaged, receiver>>
  BY DEF AddFrame, Whole, Full
<1>2. Whole \in Seq(Byte)
  BY WholeType
<1>3. Coded(Whole) \in Seq(Byte)
  BY <1>2, CodedType
<1>4. buf' \in Buffer
  <2>1. Row(pos) \in Int
    BY FramesType DEF Row, FRAME_SIZE
  <2> QED
    BY <1>1, <1>3, <2>1, PutType, BufferSize DEF Buffer
<1>5. pos' \in 0 .. N_FRAMES
  BY <1>1, FramesType
<1>6. added' \in Seq(Seq(Byte)) /\ Len(added') = pos'
  BY <1>1, <1>2
<1>7. UNCHANGED <<pack_class, home, device, frame, air, damaged, rbuf, rpos, filled, read>>
  BY <1>1 DEF configured, caller, receiver
<1>8. pc = "ready"
  BY DEF AddFrame
<1> QED
  BY <1>1, <1>4, <1>5, <1>6, <1>7, <1>8 DEF Buffer

LEMMA SendPacketType ==
    ASSUME TypeInv, SendPacket
    PROVE  TypeInv'
<1> USE DEF TypeInv
<1>1. /\ air' = Packet /\ pc = "added" /\ pc' \in {"stuck", "air"}
      /\ UNCHANGED <<configured, caller, sender, damaged, receiver>>
  BY DEF SendPacket
<1>2. UNCHANGED <<pack_class, home, device, frame, buf, pos, added, damaged, rbuf, rpos, filled, read>>
  BY <1>1 DEF configured, caller, sender, receiver
<1>3. air' \in Seq(Byte) /\ Len(air') <= N_FRAMES * FRAME_SIZE
  BY <1>1, PacketType
<1>4. read = 0 /\ filled = 0 /\ 0 <= N_FRAMES - 1 /\ Len(air') \in Nat
  BY <1>1, <1>3, FramesType
<1>5. read' \in 0 .. Len(air') /\ filled' <= N_FRAMES - 1 /\ read' = 0 /\ filled' = 0
  BY <1>2, <1>4
<1> QED
  BY <1>1, <1>2, <1>3, <1>5 DEF Buffer

\* What the receiver sees of the packet, and takes off it in a turn.
Rest == Whitened(SubSeq(air, read + 1, Len(air)), read)
Size == IF Foreground /\ Rest # <<>> THEN Rest[1] ELSE BG_CRC_SIZE
BadSize == Foreground /\ Size < 8
Broken == BadSize \/ Len(Rest) < Size
Wanted == IF BadSize THEN 1 ELSE Size
Taken == IF Len(Rest) < Wanted THEN Rest ELSE SubSeq(Rest, 1, Wanted)
Cont == Foreground /\ Bit(Rest[4], Fctl_CONT)
Over == ~Broken /\ Cont /\ filled + 1 = N_FRAMES

LEMMA ReadFrameIs ==
    ASSUME ReadFrame
    PROVE  /\ pc = "air" /\ rbuf' = Put(rbuf, Row(filled), Taken) /\ read' = read + Len(Taken)
           /\ filled' = IF Over THEN (N_FRAMES + 1) % 256 ELSE filled + 1
           /\ pc' = IF Broken THEN "error"
                    ELSE IF Cont /\ ~Over THEN "air"
                    ELSE IF SubnetVerify(device, rbuf'[IF Foreground THEN 2 ELSE 0])
                      THEN "listened" ELSE "error"
           /\ UNCHANGED <<configured, caller, sender, air, damaged, rpos, got>>
BY DEF ReadFrame, Rest, Size, BadSize, Broken, Wanted, Taken, Cont, Over

LEMMA RestType ==
    ASSUME air \in Seq(Byte), Len(air) <= N_FRAMES * FRAME_SIZE, read \in 0 .. Len(air)
    PROVE  /\ Rest \in Seq(Byte) /\ Len(Rest) = Len(air) - read
           /\ \A i \in 1 .. Len(Rest) : Rest[i] = Xor[air[read + i]][Noise(read + i)]
<1> DEFINE bytes == SubSeq(air, read + 1, Len(air))
<1>1. /\ bytes \in Seq(Byte) /\ Len(bytes) = Len(air) - read
      /\ \A i \in 1 .. Len(bytes) : bytes[i] = air[read + i]
  OBVIOUS
<1>2. read \in Nat /\ read + Len(bytes) <= N_FRAMES * FRAME_SIZE
  BY <1>1, BufferSize
<1> HIDE DEF bytes
<1>3. /\ Whitened(bytes, read) \in Seq(Byte) /\ Len(Whitened(bytes, read)) = Len(bytes)
      /\ \A i \in 1 .. Len(bytes) :
            Whitened(bytes, read)[i] = Xor[bytes[i]][Noise(read + i)]
  BY <1>1, <1>2, WhitenedType
<1> QED
  BY <1>1, <1>3 DEF Rest, bytes

LEMMA TakenType ==
    ASSUME TypeInv
    PROVE  /\ Size \in 0 .. 255 /\ Wanted \in 1 .. 255
           /\ Taken \in Seq(Byte)
           /\ Len(Taken) = IF Len(Rest) < Wanted THEN Len(Rest) ELSE Wanted
           /\ \A i \in 1 .. Len(Taken) : Taken[i] = Rest[i]
<1>1. Rest \in Seq(Byte)
  BY RestType DEF TypeInv
<1>2. Size \in 0 .. 255
  <2>1. Rest # <<>> => Rest[1] \in Byte
    BY <1>1
  <2>2. Size = 7 \/ Size \in Byte
    BY <2>1 DEF Size, BG_CRC_SIZE
  <2> QED
    BY <2>2 DEF Byte
<1>3. Wanted \in 1 .. 255
  <2>1. CASE BadSize
    BY <2>1 DEF Wanted
  <2>2. CASE ~BadSize
    <3>1. ~Foreground => Size = 7
      BY DEF Size, BG_CRC_SIZE
    <3>2. Size >= 7
      BY <1>2, <2>2, <3>1 DEF BadSize
    <3> QED
      BY <1>2, <2>2, <3>2 DEF Wanted
  <2> QED
    BY <2>1, <2>2
<1> QED
  BY <1>1, <1>2, <1>3 DEF Taken

LEMMA ReceiverType ==
    ASSUME TypeInv, ReadFrame \/ GetFrame \/ GetBeyond
    PROVE  TypeInv'
<1> USE DEF TypeInv
<1>1. CASE ReadFrame
  <2>1. /\ pc = "air" /\ rbuf' = Put(rbuf, Row(filled), Taken) /\ read' = read + Len(Taken)
        /\ filled' = IF Over THEN (N_FRAMES + 1) % 256 ELSE filled + 1
        /\ pc' \in {"air", "listened", "error"} /\ (pc' = "air" => Cont /\ ~Over /\ ~Broken)
        /\ UNCHANGED <<pack_class, home, device, frame, buf, pos, added, air, damaged, rpos>>
    BY <1>1, ReadFrameIs DEF configured, caller, sender
  <2>2. /\ Taken \in Seq(Byte) /\ Len(Taken) <= Len(air) - read /\ Len(Taken) \in Nat
    BY TakenType, RestType
  <2>3. rbuf' \in Buffer
    <3>1. Row(filled) \in Int
      BY DEF Row, FRAME_SIZE
    <3> QED
      BY <2>1, <2>2, <3>1, PutType, BufferSize DEF Buffer
  <2>4. read' \in 0 .. Len(air)
    BY <2>1, <2>2
  <2>5. filled' \in 0 .. N_FRAMES + 1 /\ rpos \in 0 .. filled'
    <3>1. (N_FRAMES + 1) % 256 \in 0 .. N_FRAMES + 1
      BY FramesType
    <3> QED
      BY <2>1, <3>1, FramesType
  <2>6. pc' = "air" => filled' <= N_FRAMES - 1
    <3>1. SUFFICES ASSUME pc' = "air" PROVE filled' <= N_FRAMES - 1
      OBVIOUS
    <3>2. filled' = filled + 1 /\ filled + 1 # N_FRAMES
      BY <2>1, <3>1 DEF Over
    <3> QED
      BY <2>1, <3>2, FramesType
  <2> QED
    BY <2>1, <2>3, <2>4, <2>5, <2>6 DEF Buffer
<1>2. CASE GetFrame \/ GetBeyond
  <2>1. /\ pc = "listened" /\ rpos' = rpos + 1 /\ rpos < filled
        /\ UNCHANGED <<pc, configured, caller, sender, air, damaged, rbuf, filled, read>>
    BY <1>2 DEF GetFrame, GetBeyond
  <2>2. /\ UNCHANGED <<pc, pack_class, home, device, frame, buf, pos, added, air, damaged>>
        /\ UNCHANGED <<rbuf, filled, read>> /\ rpos' \in 0 .. filled
    BY <2>1 DEF configured, caller, sender
  <2> QED
    BY <2>1, <2>2 DEF Buffer
<1> QED
  BY <1>1, <1>2

LEMMA TypeStep ==
    ASSUME TypeInv, [Next]_vars
    PROVE  TypeInv'
<1>1. CASE FrameStart \/ AddrCtlSet \/ SetPayload \/ Write \/ BgSet
             \/ \E type \in {"source", "target"} : SetAddr(type)
  BY <1>1, CallerType
<1>2. CASE AddFrame
  BY <1>2, AddFrameType
<1>3. CASE Another
  <2>1. pc = "added" /\ pc' = "build"
        /\ UNCHANGED <<configured, caller, sender, air, damaged, receiver>>
    BY <1>3 DEF Another
  <2> QED
    BY <2>1 DEF TypeInv, configured, caller, sender, receiver, Buffer
<1>4. CASE SendPacket
  BY <1>4, SendPacketType
<1>5. CASE Damage
  <2>1. PICK i \in Places \cap DOMAIN air, mask \in Masks :
            air' = [air EXCEPT ![i] = Xor[@][mask]]
    BY <1>5 DEF Damage
  <2>2. Xor[air[i]][mask] \in Byte
    <3>1. air[i] \in Byte /\ mask \in Byte
      BY ConstantsType DEF TypeInv
    <3> QED
      BY <3>1, XorType
  <2>3. air' \in Seq(Byte) /\ Len(air') = Len(air)
    BY <2>1, <2>2 DEF TypeInv
  <2>4. damaged' = TRUE /\ UNCHANGED <<pc, configured, caller, sender, receiver>>
    BY <1>5 DEF Damage
  <2> QED
    BY <2>3, <2>4 DEF TypeInv, configured, caller, sender, receiver, Buffer
<1>6. CASE ReadFrame \/ GetFrame \/ GetBeyond
  BY <1>6, ReceiverType
<1>7. CASE UNCHANGED vars
  BY <1>7 DEF vars, configured, caller, sender, receiver, TypeInv, Buffer
<1> QED
  BY <1>1, <1>2, <1>3, <1>4, <1>5, <1>6, <1>7 DEF Next

LEMMA TypeInvariance == Spec => []TypeInv
<1> QED
  BY InitType, TypeStep, PTL DEF Spec

\* Whatever is sent, damaged and wrapped, every byte of a buffer and of a packet
\* is one, and the indices leave the buffer by one row at most (phy.c:322-500).
THEOREM TypeCorrect == Spec => []TypeOK
<1>1. ASSUME TypeInv PROVE TypeOK
  <2>1. \A array \in {frame, buf, rbuf} : \A i \in DOMAIN array : array[i] \in Byte
    <3>1. frame \in Array(299) /\ buf \in Array(N_FRAMES * FRAME_SIZE + 1)
          /\ rbuf \in Array(N_FRAMES * FRAME_SIZE + 1)
      BY <1>1 DEF TypeInv, Buffer
    <3>2. ASSUME NEW n, NEW array \in Array(n) PROVE \A i \in DOMAIN array : array[i] \in Byte
      BY DEF Array
    <3> QED
      BY <3>1, <3>2
  <2>2. \A i \in DOMAIN air : air[i] \in Byte
    BY <1>1 DEF TypeInv
  <2> QED
    BY <1>1, <2>1, <2>2 DEF TypeInv, TypeOK
<1> QED
  BY <1>1, TypeInvariance, PTL

-----------------------------------------------------------------------------
(* The fields of a frame *)

\* Bytes that are put in at another place change nothing.
LEMMA PutApart ==
    ASSUME NEW array \in Array(299), NEW at \in Int, NEW bytes \in Seq(Byte),
           NEW place \in Nat, NEW size \in Int, place + size <= 300,
           place + size <= at \/ at + Len(bytes) <= place
    PROVE  Slice(Put(array, at, bytes), place, size) = Slice(array, place, size)
<1>1. ASSUME NEW i \in 1 .. size
      PROVE  Put(array, at, bytes)[(place + i) - 1] = array[(place + i) - 1]
  <2> DEFINE k == (place + i) - 1
  <2>1. k \in 0 .. 299 /\ place <= k /\ k < place + size
    OBVIOUS
  <2>2. ~ (at <= k /\ k < at + Len(bytes))
    BY <2>1
  <2> HIDE DEF k
  <2>3. \A j \in 0 .. 299 :
          Put(array, at, bytes)[j] =
            IF at <= j /\ j < at + Len(bytes) THEN bytes[(j - at) + 1] ELSE array[j]
    <3>1. 299 \in Nat
      OBVIOUS
    <3> QED
      BY <3>1, PutType, SMTT(40)
  <2>4. Put(array, at, bytes)[k] =
          IF at <= k /\ k < at + Len(bytes) THEN bytes[(k - at) + 1] ELSE array[k]
    BY <2>1, <2>3, Zenon
  <2> QED
    BY <2>2, <2>4 DEF k
<1>2. [i \in 1 .. size |-> Put(array, at, bytes)[place + i - 1]] =
      [i \in 1 .. size |-> array[place + i - 1]]
  <2>1. \A i \in 1 .. size : place + i - 1 = (place + i) - 1
    OBVIOUS
  <2> QED
    BY <1>1, <2>1
<1> QED
  BY <1>2 DEF Slice

LEMMA PutThere ==
    ASSUME NEW array \in Array(299), NEW at \in Nat, NEW bytes \in Seq(Byte),
           at + Len(bytes) <= 300
    PROVE  Slice(Put(array, at, bytes), at, Len(bytes)) = bytes
<1>1. ASSUME NEW i \in 1 .. Len(bytes)
      PROVE  Put(array, at, bytes)[(at + i) - 1] = bytes[i]
  <2> DEFINE k == (at + i) - 1
  <2>1. k \in 0 .. 299 /\ at <= k /\ k < at + Len(bytes) /\ (k - at) + 1 = i /\ 299 \in Nat
    OBVIOUS
  <2> HIDE DEF k
  <2>2. Put(array, at, bytes)[k] =
          IF at <= k /\ k < at + Len(bytes) THEN bytes[(k - at) + 1] ELSE array[k]
    BY <2>1, PutType
  <2> QED
    BY <2>1, <2>2 DEF k
<1>2. Slice(Put(array, at, bytes), at, Len(bytes)) = [i \in 1 .. Len(bytes) |-> bytes[i]]
  BY <1>1 DEF Slice
<1> QED
  BY <1>2

LEMMA PutOther ==
    ASSUME NEW array \in Array(299), NEW at \in Int, NEW bytes \in Seq(Byte),
           NEW k \in 0 .. 299, k < at \/ at + Len(bytes) <= k
    PROVE  Put(array, at, bytes)[k] = array[k]
<1>1. 299 \in Nat
  OBVIOUS
<1>2. Put(array, at, bytes)[k] =
        IF at <= k /\ k < at + Len(bytes) THEN bytes[(k - at) + 1] ELSE array[k]
  BY <1>1, PutType
<1> QED
  BY <1>2

LEMMA PutByte ==
    ASSUME NEW array \in Array(299), NEW at \in Int, NEW bytes \in Seq(Byte),
           NEW k \in 0 .. 299, at <= k, k < at + Len(bytes)
    PROVE  Put(array, at, bytes)[k] = bytes[(k - at) + 1]
<1>1. 299 \in Nat
  OBVIOUS
<1>2. Put(array, at, bytes)[k] =
        IF at <= k /\ k < at + Len(bytes) THEN bytes[(k - at) + 1] ELSE array[k]
  BY <1>1, PutType
<1> QED
  BY <1>2

LEMMA PutFirst ==
    ASSUME NEW array \in Array(299), NEW bytes \in Seq(Byte), Len(bytes) >= 1
    PROVE  Put(array, 0, bytes)[0] = bytes[1]
<1>1. DOMAIN array = 0 .. 299 /\ 1 \in DOMAIN bytes /\ 0 \in 0 .. 299
  <2>1. DOMAIN bytes = 1 .. Len(bytes) /\ Len(bytes) \in Nat
    OBVIOUS
  <2> QED
    BY <2>1 DEF Array
<1>2. Put(array, 0, bytes)[0] =
        IF 0 - 0 + 1 \in DOMAIN bytes THEN bytes[0 - 0 + 1] ELSE array[0]
  BY <1>1 DEF Put
<1>3. 0 - 0 + 1 = 1
  OBVIOUS
<1> QED
  BY <1>1, <1>2, <1>3

VidFlags == Bit(flags, ADDR_VID)

HeaderKept == "header" \in DOMAIN fields => Slice(frame, 1, 3) = fields["header"]

AddrCtlKept == "addr_ctl" \in DOMAIN fields => Addressed /\ Slice(frame, 4, 2) = fields["addr_ctl"]

SourceKept ==
    "source" \in DOMAIN fields =>
        Addressed /\ (VidFlags => Slice(frame, 6, 2) = fields["source"])

TargetKept ==
    "target" \in DOMAIN fields =>
        Addressed /\ (VidFlags => Slice(frame, 8, 2) = fields["target"])

PayloadKept ==
    /\ "payload" \in DOMAIN fields /\ (Addressed => VidFlags)
    /\ Len(fields["payload"]) <= 255 - PayloadPos
    => Slice(frame, PayloadPos, frame[0] - PayloadPos) = fields["payload"]

BackgroundKept ==
    "time" \in DOMAIN fields =>
        fields = [protocol |-> <<frame[1]>>, channel |-> <<frame[2]>>,
                  time |-> <<frame[4] + frame[3] * 256>>]

\* The header and the control of the addresses are kept whatever the flags are;
\* a field behind them is kept if the flags of the addresses say that they are
\* virtual, and no address is set without the header that announces it.
FieldsInv ==
    /\ pc \in {"addr_ctl", "payload"} => Foreground /\ "header" \in DOMAIN fields
    /\ pc = "addr_ctl" => Addressed
    /\ pc = "payload" => "payload" \notin DOMAIN fields
    /\ Foreground => DOMAIN fields \subseteq {"header", "addr_ctl", "source", "target", "payload"}
    /\ ~Foreground => DOMAIN fields \subseteq {"protocol", "channel", "time"}
    /\ "protocol" \in DOMAIN fields \/ "channel" \in DOMAIN fields => "time" \in DOMAIN fields
    /\ HeaderKept /\ AddrCtlKept /\ SourceKept /\ TargetKept /\ PayloadKept
    /\ BackgroundKept

LEMMA VidTarget ==
    ASSUME VidFlags
    PROVE  flags # 0 /\ TargetPos = 8 /\ Width = 2
<1>1. flags # 0
  BY DEF VidFlags, Bit, ADDR_VID
<1> QED
  BY <1>1 DEF TargetPos, SourcePos, Width, VidFlags

LEMMA FieldsInvKept ==
    ASSUME FieldsInv
    PROVE  FieldsKept
<1> SUFFICES ASSUME Foreground /\ Addressed => VidFlags, NEW name \in DOMAIN fields,
                    name = "payload" => Len(fields.payload) <= 255 - PayloadPos
             PROVE  Field(name) = fields[name]
  BY DEF FieldsKept, VidFlags
<1>1. CASE name = "header"
  BY <1>1 DEF FieldsInv, HeaderKept, Field
<1>2. CASE name = "addr_ctl"
  BY <1>2 DEF FieldsInv, AddrCtlKept, Field
<1>3. CASE name = "source"
  <2>1. Foreground
    BY <1>3 DEF FieldsInv
  <2>2. VidFlags /\ Slice(frame, 6, 2) = fields["source"]
    BY <1>3, <2>1 DEF FieldsInv, SourceKept
  <2> QED
    BY <1>3, <2>2, VidTarget DEF Field, SourcePos
<1>4. CASE name = "target"
  <2>1. Foreground
    BY <1>4 DEF FieldsInv
  <2>2. VidFlags /\ Slice(frame, 8, 2) = fields["target"]
    BY <1>4, <2>1 DEF FieldsInv, TargetKept
  <2> QED
    BY <1>4, <2>2, VidTarget DEF Field
<1>5. CASE name = "payload"
  <2>1. Foreground
    BY <1>5 DEF FieldsInv
  <2> QED
    BY <1>5, <2>1 DEF FieldsInv, PayloadKept, Field
<1>6. CASE name \in {"protocol", "channel", "time"}
  BY <1>6 DEF FieldsInv, BackgroundKept, Field
<1> QED
  BY <1>1, <1>2, <1>3, <1>4, <1>5, <1>6 DEF FieldsInv

LEMMA FieldsInit ==
    ASSUME Init
    PROVE  FieldsInv
BY DEF Init, FieldsInv, HeaderKept, AddrCtlKept, SourceKept, TargetKept, PayloadKept, BackgroundKept

LEMMA FrameStartFields ==
    ASSUME TypeInv, FieldsInv, FrameStart
    PROVE  FieldsInv'
<1>1. PICK frame_ctl \in Controls :
          LET header == <<(13 - 24) % 256, home, frame_ctl>>
          IN  frame' = Put(frame, 1, header) /\ fields' = [header |-> header]
  BY DEF FrameStart
<1> DEFINE header == <<(13 - 24) % 256, home, frame_ctl>>
<1>2. header \in Seq(Byte) /\ Len(header) = 3
  <2>1. 13 - 24 \in Int
    OBVIOUS
  <2>2. (13 - 24) % 256 \in Byte
    BY <2>1, ModByte
  <2>3. frame_ctl \in Byte /\ home \in Byte
    BY ConstantsType DEF TypeInv
  <2> QED
    BY <2>2, <2>3
<1>3. frame' = Put(frame, 1, header) /\ DOMAIN fields' = {"header"} /\ fields'["header"] = header
  BY <1>1
<1> HIDE DEF header
<1>4. Slice(frame', 1, 3) = header
  <2>1. 1 + Len(header) <= 300 /\ 1 \in Nat /\ frame \in Array(299)
    BY <1>2 DEF TypeInv
  <2>2. Slice(Put(frame, 1, header), 1, Len(header)) = header
    BY <1>2, <2>1, PutThere
  <2> QED
    BY <1>2, <1>3, <2>2
<1>5. /\ Foreground' /\ pc' \in {"addr_ctl", "payload"} /\ (pc' = "addr_ctl" => Addressed')
  BY DEF FrameStart, configured, Foreground
<1> QED
  BY <1>3, <1>4, <1>5 DEF FieldsInv, HeaderKept, AddrCtlKept, SourceKept, TargetKept, PayloadKept,
                          BackgroundKept

LEMMA AddrCtlFields ==
    ASSUME TypeInv, FieldsInv, AddrCtlSet
    PROVE  FieldsInv'
<1>1. PICK f \in Flags :
          LET addr_ctl == <<Len(added), f>>
          IN  /\ frame' = Put(frame, 4, addr_ctl)
              /\ fields' = [addr_ctl |-> addr_ctl, header |-> fields.header]
  BY DEF AddrCtlSet
<1> DEFINE addr_ctl == <<Len(added), f>>
<1>2. addr_ctl \in Seq(Byte) /\ Len(addr_ctl) = 2
  <2>1. f \in Byte /\ Len(added) \in Byte
    BY ConstantsType, FramesType DEF Byte, TypeInv
  <2> QED
    BY <2>1
<1>3. /\ frame' = Put(frame, 4, addr_ctl) /\ DOMAIN fields' = {"header", "addr_ctl"}
      /\ fields'["addr_ctl"] = addr_ctl /\ fields'["header"] = fields["header"]
  BY <1>1
<1> HIDE DEF addr_ctl
<1>4. frame \in Array(299)
  BY DEF TypeInv
<1>5. Slice(frame', 4, 2) = addr_ctl
  <2>1. 4 + Len(addr_ctl) <= 300 /\ 4 \in Nat
    BY <1>2
  <2>2. Slice(Put(frame, 4, addr_ctl), 4, Len(addr_ctl)) = addr_ctl
    BY <1>2, <1>4, <2>1, PutThere
  <2> QED
    BY <1>2, <1>3, <2>2
<1>6. Slice(frame', 1, 3) = fields["header"]
  <2>1. Slice(Put(frame, 4, addr_ctl), 1, 3) = Slice(frame, 1, 3)
    BY <1>2, <1>4, PutApart
  <2>2. Slice(frame, 1, 3) = fields["header"]
    BY DEF AddrCtlSet, FieldsInv, HeaderKept
  <2> QED
    BY <1>3, <2>1, <2>2
<1>7. frame'[3] = frame[3]
  <2>1. 3 \in 0 .. 299 /\ 4 \in Int /\ 3 < 4
    OBVIOUS
  <2>2. Put(frame, 4, addr_ctl)[3] = frame[3]
    BY <1>2, <1>4, <2>1, PutOther
  <2> QED
    BY <1>3, <2>2
<1>8. /\ Foreground' /\ pc' = "payload" /\ Addressed'
  BY <1>7 DEF AddrCtlSet, FieldsInv, configured, Foreground, Addressed
<1> QED
  BY <1>3, <1>5, <1>6, <1>8 DEF FieldsInv, HeaderKept, AddrCtlKept, SourceKept, TargetKept,
                                PayloadKept, BackgroundKept

LEMMA SetAddrFields ==
    ASSUME TypeInv, FieldsInv, NEW type \in {"source", "target"}, SetAddr(type)
    PROVE  FieldsInv'
<1> DEFINE at == IF type = "source" THEN SourcePos ELSE TargetPos
           addr == Data(Width, IF type = "source" THEN 1 ELSE 2)
<1>1. /\ pc = "payload" /\ Addressed /\ at > 0 /\ frame' = Put(frame, at, addr)
      /\ fields' = [name \in DOMAIN fields \cup {type} |->
                      IF name = type THEN addr ELSE fields[name]]
      /\ UNCHANGED <<pc, configured, sender, air, damaged, receiver>>
  BY DEF SetAddr
<1>2. at \in {6, 8} /\ (type = "source" => at = 6) /\ (type = "target" => at = 8)
  BY <1>1 DEF SourcePos, TargetPos
<1>3. addr \in Seq(Byte) /\ Len(addr) = Width /\ Width \in {2, 8}
  <2>1. Width \in {2, 8} /\ Width \in Nat /\ (IF type = "source" THEN 1 ELSE 2) \in Int
    BY DEF Width
  <2> QED
    BY <2>1, DataType
<1> HIDE DEF at, addr
<1>4. /\ frame \in Array(299) /\ at \in Int /\ at \in Nat /\ Len(addr) \in Nat
      /\ at + Len(addr) <= 300 /\ at >= 6
  BY <1>2, <1>3 DEF TypeInv
<1>5. /\ Slice(frame', 1, 3) = Slice(frame, 1, 3) /\ Slice(frame', 4, 2) = Slice(frame, 4, 2)
  <2>1. 1 \in Nat /\ 3 \in Int /\ 1 + 3 <= 300 /\ 1 + 3 <= at
    BY <1>4
  <2>2. 4 \in Nat /\ 2 \in Int /\ 4 + 2 <= 300 /\ 4 + 2 <= at
    BY <1>4
  <2> QED
    BY <1>1, <1>3, <1>4, <2>1, <2>2, PutApart
<1>6. Slice(frame', at, Width) = addr
  BY <1>1, <1>3, <1>4, PutThere
<1>7. frame'[3] = frame[3] /\ frame'[5] = frame[5]
  <2>1. 3 \in 0 .. 299 /\ 3 < at /\ 5 \in 0 .. 299 /\ 5 < at
    BY <1>4
  <2> QED
    BY <1>1, <1>3, <1>4, <2>1, PutOther
<1>8. VidFlags' <=> VidFlags
  BY <1>7, Zenon DEF VidFlags, flags
<1>9. /\ Addressed' /\ Foreground' /\ Foreground /\ pc' = "payload"
  BY <1>1, <1>7 DEF FieldsInv, configured, Foreground, Addressed
<1>10. /\ DOMAIN fields' = DOMAIN fields \cup {type} /\ fields'[type] = addr
       /\ \A name \in DOMAIN fields : name # type => fields'[name] = fields[name]
  BY <1>1
<1>11. SourceKept'
  <2> SUFFICES ASSUME "source" \in DOMAIN fields', VidFlags'
               PROVE  Slice(frame', 6, 2) = fields'["source"]
    BY <1>9 DEF SourceKept
  <2>1. VidFlags /\ Width = 2
    BY <1>8, VidTarget
  <2>2. CASE type = "source"
    BY <1>2, <1>6, <1>10, <2>1, <2>2
  <2>3. CASE type = "target"
    <3>1. "source" \in DOMAIN fields /\ fields'["source"] = fields["source"]
      BY <1>10, <2>3
    <3>2. Slice(frame, 6, 2) = fields["source"]
      BY <2>1, <3>1 DEF FieldsInv, SourceKept
    <3>3. Slice(frame', 6, 2) = Slice(frame, 6, 2)
      <4>1. 6 \in Nat /\ 2 \in Int /\ 6 + 2 <= 300 /\ 6 + 2 <= at
        BY <1>2, <2>3
      <4> QED
        BY <1>1, <1>3, <1>4, <4>1, PutApart
    <3> QED
      BY <3>1, <3>2, <3>3
  <2> QED
    BY <2>2, <2>3
<1>12. TargetKept'
  <2> SUFFICES ASSUME "target" \in DOMAIN fields', VidFlags'
               PROVE  Slice(frame', 8, 2) = fields'["target"]
    BY <1>9 DEF TargetKept
  <2>1. VidFlags /\ Width = 2
    BY <1>8, VidTarget
  <2>2. CASE type = "target"
    BY <1>2, <1>6, <1>10, <2>1, <2>2
  <2>3. CASE type = "source"
    <3>1. "target" \in DOMAIN fields /\ fields'["target"] = fields["target"]
      BY <1>10, <2>3
    <3>2. Slice(frame, 8, 2) = fields["target"]
      BY <2>1, <3>1 DEF FieldsInv, TargetKept
    <3>3. Slice(frame', 8, 2) = Slice(frame, 8, 2)
      <4>1. 8 \in Nat /\ 2 \in Int /\ 8 + 2 <= 300 /\ at + Len(addr) <= 8
        BY <1>2, <1>3, <2>1, <2>3
      <4> QED
        BY <1>1, <1>3, <1>4, <4>1, PutApart
    <3> QED
      BY <3>1, <3>2, <3>3
  <2> QED
    BY <2>2, <2>3
<1>13. HeaderKept' /\ AddrCtlKept'
  <2>1. HeaderKept /\ AddrCtlKept
    BY DEF FieldsInv
  <2>2. \A name \in {"header", "addr_ctl"} :
          name \in DOMAIN fields' => name \in DOMAIN fields /\ fields'[name] = fields[name]
    BY <1>10
  <2> QED
    BY <1>5, <1>9, <2>1, <2>2 DEF HeaderKept, AddrCtlKept
<1>14. "payload" \notin DOMAIN fields' /\ "time" \notin DOMAIN fields'
  BY <1>1, <1>9, <1>10 DEF FieldsInv
<1>15. /\ DOMAIN fields' \subseteq {"header", "addr_ctl", "source", "target", "payload"}
       /\ "header" \in DOMAIN fields'
  BY <1>1, <1>9, <1>10 DEF FieldsInv
<1>16. PayloadKept' /\ BackgroundKept'
  BY <1>14 DEF PayloadKept, BackgroundKept
<1>17. "protocol" \notin DOMAIN fields' /\ "channel" \notin DOMAIN fields'
  BY <1>15
<1> QED
  BY <1>9, <1>11, <1>12, <1>13, <1>14, <1>15, <1>16, <1>17 DEF FieldsInv

LEMMA SetPayloadFields ==
    ASSUME TypeInv, FieldsInv, SetPayload
    PROVE  FieldsInv'
<1>1. PICK extra \in Extras :
          LET size == FRAME_SIZE - 2 - PayloadPos + extra
          IN  /\ frame' = Put(Put(frame, PayloadPos, Data(size, 3)), 0, <<(PayloadPos + size) % 256>>)
              /\ fields' = [name \in DOMAIN fields \cup {"payload"} |->
                              IF name = "payload" THEN Data(size, 3) ELSE fields[name]]
  BY DEF SetPayload
<1> DEFINE size == FRAME_SIZE - 2 - PayloadPos + extra
           data == Data(size, 3)
           array == Put(frame, PayloadPos, data)
           length == <<(PayloadPos + size) % 256>>
<1>2. /\ PayloadPos \in {4, 9, 23} /\ PayloadPos \in Nat /\ PayloadPos \in Int
      /\ size \in Nat /\ PayloadPos + size \in Int
  BY PayloadPosType, ConstantsType DEF FRAME_SIZE
<1>3. /\ frame' = Put(array, 0, length)
      /\ DOMAIN fields' = DOMAIN fields \cup {"payload"} /\ fields'["payload"] = data
      /\ \A name \in DOMAIN fields : name # "payload" => fields'[name] = fields[name]
  BY <1>1
<1> HIDE DEF size
<1>4. data \in Seq(Byte) /\ Len(data) = size /\ length \in Seq(Byte) /\ Len(length) = 1
  <2>1. (PayloadPos + size) % 256 \in Byte
    BY <1>2, ModByte
  <2> QED
    BY <1>2, <2>1, DataType
<1>5. length[1] = (PayloadPos + size) % 256
  OBVIOUS
<1> HIDE DEF data
<1>6. frame \in Array(299) /\ array \in Array(299)
  BY <1>2, <1>4, FramePut DEF TypeInv
<1> HIDE DEF length
<1>7. ASSUME NEW place \in Nat, NEW n \in Int, 1 <= place, place + n <= PayloadPos
      PROVE  Slice(frame', place, n) = Slice(frame, place, n)
  <2>1. place + n <= 300 /\ 0 \in Int /\ 0 + Len(length) <= place
    BY <1>2, <1>4, <1>7
  <2>2. Slice(Put(array, 0, length), place, n) = Slice(array, place, n)
    <3> HIDE DEF array
    <3> QED
      BY <1>4, <1>6, <2>1, PutApart
  <2>3. Slice(array, place, n) = Slice(frame, place, n)
    BY <1>2, <1>4, <1>6, <1>7, <2>1, PutApart
  <2> QED
    BY <1>3, <2>2, <2>3
<1>8. ASSUME NEW k \in 1 .. PayloadPos - 1
      PROVE  frame'[k] = frame[k]
  <2> DEFINE at == 0
  <2>1. /\ k \in 0 .. 299 /\ at \in Int /\ at + Len(length) <= k /\ k < PayloadPos
        /\ PayloadPos \in Int
    BY <1>2, <1>4
  <2> HIDE DEF at
  <2>2. Put(frame, PayloadPos, data)[k] = frame[k]
    BY <1>4, <1>6, <2>1, PutOther, ZenonT(40)
  <2>4. Put(array, at, length)[k] = array[k]
    <3> HIDE DEF array
    <3> QED
      BY <1>4, <1>6, <2>1, PutOther, ZenonT(40)
  <2>3. Put(array, 0, length)[k] = array[k]
    BY <2>4 DEF at
  <2> QED
    BY <1>3, <2>2, <2>3
<1>9. pc = "payload" /\ pc' = "ready" /\ Foreground /\ Foreground'
  BY DEF SetPayload, FieldsInv, configured, Foreground
<1>10. frame'[3] = frame[3] /\ (Addressed' <=> Addressed)
  <2>1. 3 \in 1 .. PayloadPos - 1
    BY <1>2
  <2> QED
    BY <1>8, <2>1 DEF Addressed
<1>11. Addressed => (VidFlags' <=> VidFlags) /\ PayloadPos \in {9, 23} /\ frame'[5] = frame[5]
  <2>1. SUFFICES ASSUME Addressed
                 PROVE  (VidFlags' <=> VidFlags) /\ PayloadPos \in {9, 23} /\ frame'[5] = frame[5]
    OBVIOUS
  <2>2. PayloadPos \in {9, 23}
    BY <2>1 DEF PayloadPos
  <2>3. 5 \in 1 .. PayloadPos - 1
    BY <2>2
  <2>4. frame'[5] = frame[5]
    BY <1>8, <2>3
  <2>5. VidFlags' <=> VidFlags
    BY <2>4, Zenon DEF VidFlags, flags
  <2> QED
    BY <2>2, <2>4, <2>5
<1>12. PayloadPos' = PayloadPos
  BY <1>10, <1>11 DEF PayloadPos, flags
<1>13. HeaderKept'
  <2>1. Slice(frame', 1, 3) = Slice(frame, 1, 3)
    BY <1>2, <1>7
  <2> QED
    BY <1>3, <2>1 DEF FieldsInv, HeaderKept
<1>14. AddrCtlKept'
  <2>1. Addressed => Slice(frame', 4, 2) = Slice(frame, 4, 2)
    BY <1>7, <1>11
  <2> QED
    BY <1>3, <1>10, <2>1 DEF FieldsInv, AddrCtlKept
<1>15. Addressed /\ VidFlags => PayloadPos = 23
  BY VidTarget DEF PayloadPos
<1>16. SourceKept'
  <2>1. Addressed /\ VidFlags => Slice(frame', 6, 2) = Slice(frame, 6, 2)
    BY <1>7, <1>15
  <2> QED
    BY <1>3, <1>10, <1>11, <2>1 DEF FieldsInv, SourceKept
<1>17. TargetKept'
  <2>1. Addressed /\ VidFlags => Slice(frame', 8, 2) = Slice(frame, 8, 2)
    BY <1>7, <1>15
  <2> QED
    BY <1>3, <1>10, <1>11, <2>1 DEF FieldsInv, TargetKept
<1>18. PayloadKept'
  <2> SUFFICES ASSUME size <= 255 - PayloadPos
               PROVE  Slice(frame', PayloadPos, frame'[0] - PayloadPos) = data
    BY <1>3, <1>4, <1>12 DEF PayloadKept
  <2>1. frame'[0] = PayloadPos + size
    <3>2. Put(array, 0, length)[0] = length[1]
      <4> HIDE DEF array
      <4> QED
        BY <1>4, <1>6, PutFirst
    <3>3. (PayloadPos + size) % 256 = PayloadPos + size
      BY <1>2
    <3> QED
      BY <1>3, <1>5, <3>2, <3>3
  <2>2. frame'[0] - PayloadPos = Len(data)
    BY <1>2, <1>4, <2>1
  <2>3. Slice(array, PayloadPos, Len(data)) = data
    BY <1>2, <1>4, <1>6, PutThere
  <2>4. Slice(Put(array, 0, length), PayloadPos, Len(data)) = Slice(array, PayloadPos, Len(data))
    <3>1. /\ PayloadPos + Len(data) <= 300 /\ 0 \in Int /\ 0 + Len(length) <= PayloadPos
          /\ Len(data) \in Int /\ PayloadPos \in Nat
      BY <1>2, <1>4
    <3> HIDE DEF array
    <3> QED
      BY <1>4, <1>6, <3>1, PutApart
  <2> QED
    BY <1>3, <2>2, <2>3, <2>4
<1>19. /\ DOMAIN fields' \subseteq {"header", "addr_ctl", "source", "target", "payload"}
  BY <1>3, <1>9 DEF FieldsInv
<1>20. {"protocol", "channel", "time"} \cap DOMAIN fields' = {}
  BY <1>19
<1>21. BackgroundKept'
  BY <1>20 DEF BackgroundKept
<1> QED
  BY <1>9, <1>13, <1>14, <1>16, <1>17, <1>18, <1>19, <1>20, <1>21 DEF FieldsInv

LEMMA BgSetFields ==
    ASSUME TypeInv, FieldsInv, BgSet
    PROVE  FieldsInv'
<1>1. PICK protocol \in {240, 241}, time \in Times :
          /\ frame' = Put(frame, 0, BgHeader(protocol, time))
          /\ fields' = [protocol |-> <<protocol>>, channel |-> <<18>>, time |-> <<time>>]
  BY BgSetPut
<1> DEFINE bytes == BgHeader(protocol, time)
<1>2. /\ bytes \in Seq(Byte) /\ Len(bytes) = 5 /\ bytes[2] = protocol /\ bytes[3] = 18
      /\ bytes[4] = time \div 256 /\ bytes[5] = time % 256
  <2>1. time \div 256 \in Byte /\ time % 256 \in Byte
    BY ConstantsType, Halves
  <2>2. protocol \in Byte /\ 18 \in Byte /\ home \in Byte
    BY DEF Byte, TypeInv
  <2> QED
    BY <2>1, <2>2 DEF BgHeader
<1> HIDE DEF bytes
<1>3. ASSUME NEW k \in 1 .. 4
      PROVE  frame'[k] = bytes[k + 1]
  <2> DEFINE at == 0
  <2>1. /\ k \in 0 .. 299 /\ at \in Int /\ at <= k /\ k < at + Len(bytes) /\ (k - at) + 1 = k + 1
        /\ frame \in Array(299)
    BY <1>2 DEF TypeInv
  <2>2. frame' = Put(frame, at, bytes)
    BY <1>1 DEF bytes
  <2> HIDE DEF at
  <2>3. bytes \in Seq(Byte)
    BY <1>2
  <2>4. Put(frame, at, bytes)[k] = bytes[(k - at) + 1]
    BY <2>1, <2>3, PutByte
  <2> QED
    BY <2>1, <2>2, <2>4
<1>4. /\ frame'[1] = protocol /\ frame'[2] = 18 /\ frame'[3] = time \div 256
      /\ frame'[4] = time % 256
  BY <1>2, <1>3
<1>5. frame'[4] + frame'[3] * 256 = time
  <2>1. /\ time = 256 * (time \div 256) + (time % 256)
        /\ time \div 256 \in Int /\ time % 256 \in Int
    BY ConstantsType, Halves, ByteRange
  <2> QED
    BY <1>4, <2>1
<1>6. BackgroundKept'
  BY <1>1, <1>4, <1>5 DEF BackgroundKept
<1>7. /\ pc' = "ready" /\ ~Foreground'
  BY DEF BgSet, configured, Foreground
<1>8. DOMAIN fields' = {"protocol", "channel", "time"}
  BY <1>1
<1> QED
  BY <1>6, <1>7, <1>8 DEF FieldsInv, HeaderKept, AddrCtlKept, SourceKept, TargetKept, PayloadKept

LEMMA FieldsUnchanged ==
    ASSUME FieldsInv, UNCHANGED <<pack_class, frame, fields>>,
           pc' = pc \/ pc' \notin {"addr_ctl", "payload"}
    PROVE  FieldsInv'
<1>1. (Foreground' <=> Foreground) /\ (Addressed' <=> Addressed) /\ flags' = flags
  BY DEF Foreground, Addressed, flags
<1>2. VidFlags' <=> VidFlags
  BY <1>1, Zenon DEF VidFlags
<1>3. PayloadPos' = PayloadPos
  BY <1>1 DEF PayloadPos
<1>4. HeaderKept' /\ AddrCtlKept' /\ SourceKept' /\ TargetKept'
  BY <1>1, <1>2 DEF FieldsInv, HeaderKept, AddrCtlKept, SourceKept, TargetKept
<1>5. PayloadKept' /\ BackgroundKept'
  BY <1>1, <1>2, <1>3 DEF FieldsInv, PayloadKept, BackgroundKept
<1> QED
  BY <1>1, <1>4, <1>5 DEF FieldsInv

LEMMA FieldsStep ==
    ASSUME TypeInv, FieldsInv, [Next]_vars
    PROVE  FieldsInv'
<1>1. CASE FrameStart
  BY <1>1, FrameStartFields
<1>2. CASE AddrCtlSet
  BY <1>2, AddrCtlFields
<1>3. ASSUME NEW type \in {"source", "target"}, SetAddr(type) PROVE FieldsInv'
  BY <1>3, SetAddrFields
<1>4. CASE SetPayload
  BY <1>4, SetPayloadFields
<1>5. CASE Write
  <2>1. fields' = << >> /\ pc' = "ready" /\ DOMAIN fields' = {}
    BY <1>5 DEF Write
  <2> QED
    BY <2>1 DEF FieldsInv, HeaderKept, AddrCtlKept, SourceKept, TargetKept, PayloadKept,
                BackgroundKept
<1>6. CASE BgSet
  BY <1>6, BgSetFields
<1>7. CASE AddFrame \/ Another \/ SendPacket \/ Damage \/ ReadFrame \/ GetFrame \/ GetBeyond
  <2>1. UNCHANGED <<pack_class, frame, fields>>
    BY <1>7 DEF AddFrame, Another, SendPacket, Damage, ReadFrame, GetFrame, GetBeyond,
                configured, caller
  <2>2. pc' \notin {"addr_ctl", "payload"}
    BY <1>7 DEF AddFrame, Another, SendPacket, Damage, ReadFrame, GetFrame, GetBeyond
  <2> QED
    BY <2>1, <2>2, FieldsUnchanged
<1>8. CASE UNCHANGED vars
  BY <1>8, FieldsUnchanged DEF vars, configured, caller
<1> QED
  BY <1>1, <1>2, <1>3, <1>4, <1>5, <1>6, <1>7, <1>8 DEF Next

\* What was put into a frame is read back, whatever was put in after it, in a
\* frame without addresses or with virtual ones, up to the length a byte holds
\* (fg_frame.c:4-160, bg_frame.h:17-51).
THEOREM FieldsReadBack == Spec => []FieldsKept
<1>1. Init => TypeInv /\ FieldsInv
  BY InitType, FieldsInit
<1>2. TypeInv /\ FieldsInv /\ [Next]_vars => (TypeInv /\ FieldsInv)'
  BY TypeStep, FieldsStep
<1>3. TypeInv /\ FieldsInv => FieldsKept
  BY FieldsInvKept
<1> QED
  BY <1>1, <1>2, <1>3, PTL DEF Spec

-----------------------------------------------------------------------------
(* The sender *)

\* The byte a row begins with, for a class of packets.
LengthAs(class, array, i) == IF class = "FOREGROUND" THEN array[Row(i)] ELSE BG_CRC_SIZE

Building == {"build", "addr_ctl", "payload", "ready"}
Sending == {"stuck", "air", "listened", "error"}

\* The subnet is in place, and a background packet has one frame.
HeadInv ==
    /\ Foreground /\ pc \in {"addr_ctl", "payload", "ready", "added"} => frame[2] = home
    /\ ~Foreground => /\ pc \notin {"addr_ctl", "payload"}
                      /\ pc = "ready" => frame[0] = home
                      /\ pos = IF pc \in Building THEN 0 ELSE 1
    /\ pc \notin Building => pos >= 1

\* A frame of the foreground begins with its length, and has the subnet; one of
\* the background is of one length.
AddedAs(class, whole, subnet) ==
    /\ class = "FOREGROUND" =>
          /\ Len(whole) <= 255 /\ (whole # <<>> => whole[1] = Len(whole))
          /\ Len(whole) >= 3 => whole[3] = subnet
    /\ class # "FOREGROUND" => Len(whole) = 5 /\ whole[1] = subnet

AddedInv == \A j \in 1 .. pos : AddedAs(pack_class, added[j], home)

\* Each frame but the last announces another.
Announced(j) == Bit(added[j][4], Fctl_CONT)

AnnouncedInv ==
    Foreground => \A j \in 1 .. pos : Len(added[j]) >= 4 =>
        /\ j < pos \/ pc \in Building => Announced(j)
        /\ j = pos /\ pc = "added" => added[j][4] = frame[3]
        /\ j = pos /\ pc \in Sending => ~Announced(j)

\* A row keeps its frame when the next is added, as far as the row reaches.
RowsInv ==
    \A j \in 0 .. pos - 1 : \A i \in 1 .. 255 :
        i <= Len(added[j + 1]) + 2 =>
            buf[(Row(j) + i) - 1] = CodedAs(pack_class, added[j + 1])[i]

SenderInv == HeadInv /\ AddedInv /\ AnnouncedInv /\ RowsInv

LEMMA SenderInit ==
    ASSUME Init
    PROVE  SenderInv
<1>1. pos = 0 /\ pc = "build" /\ 1 .. pos = {} /\ 0 .. pos - 1 = {}
  BY DEF Init
<1> QED
  BY <1>1 DEF SenderInv, HeadInv, AddedInv, AnnouncedInv, RowsInv, Building

\* The caller keeps the byte of the subnet.
LEMMA CallerHead ==
    ASSUME TypeInv, HeadInv,
           FrameStart \/ AddrCtlSet \/ SetPayload \/ Write \/ BgSet
             \/ \E type \in {"source", "target"} : SetAddr(type)
    PROVE  (Foreground => frame'[2] = home) /\ (~Foreground => frame'[0] = home)
<1>1. frame \in Array(299) /\ home \in Byte /\ 2 \in 0 .. 299
  BY DEF TypeInv
<1>2. CASE FrameStart
  <2>1. PICK frame_ctl \in Controls :
            frame' = Put(frame, 1, <<(13 - 24) % 256, home, frame_ctl>>)
    BY <1>2 DEF FrameStart
  <2> DEFINE header == <<(13 - 24) % 256, home, frame_ctl>>
  <2>2. header \in Seq(Byte) /\ Len(header) = 3 /\ header[2] = home
    <3>1. 13 - 24 \in Int
      OBVIOUS
    <3>2. (13 - 24) % 256 \in Byte
      BY <3>1, ModByte
    <3> QED
      BY <1>1, <3>2, ConstantsType
  <2> HIDE DEF header
  <2>3. 1 \in Int /\ 1 <= 2 /\ 2 < 1 + Len(header) /\ (2 - 1) + 1 = 2
    BY <2>2
  <2>4. Put(frame, 1, header)[2] = header[(2 - 1) + 1]
    BY <1>1, <2>2, <2>3, PutByte, ZenonT(40)
  <2> QED
    BY <1>2, <2>1, <2>2, <2>3, <2>4 DEF FrameStart, header
<1>3. CASE AddrCtlSet
  <2>1. PICK f \in Flags : frame' = Put(frame, 4, <<Len(added), f>>)
    BY <1>3 DEF AddrCtlSet
  <2> DEFINE addr_ctl == <<Len(added), f>>
  <2>2. f \in Byte /\ Len(added) \in Byte
    BY ConstantsType, FramesType DEF Byte, TypeInv
  <2>3. addr_ctl \in Seq(Byte) /\ 4 \in Int /\ 2 < 4
    BY <2>2
  <2> HIDE DEF addr_ctl
  <2>4. Put(frame, 4, addr_ctl)[2] = frame[2]
    BY <1>1, <2>3, PutOther
  <2>5. pc = "addr_ctl"
    BY <1>3 DEF AddrCtlSet
  <2> QED
    BY <2>1, <2>4, <2>5 DEF addr_ctl, HeadInv
<1>4. CASE SetPayload
  <2>1. PICK extra \in Extras :
            LET size == FRAME_SIZE - 2 - PayloadPos + extra
            IN  frame' = Put(Put(frame, PayloadPos, Data(size, 3)), 0, <<(PayloadPos + size) % 256>>)
    BY <1>4 DEF SetPayload
  <2> DEFINE size == FRAME_SIZE - 2 - PayloadPos + extra
             array == Put(frame, PayloadPos, Data(size, 3))
             length == <<(PayloadPos + size) % 256>>
  <2>2. PayloadPos \in Int /\ 2 < PayloadPos /\ size \in Nat /\ PayloadPos + size \in Int
    BY PayloadPosType, ConstantsType DEF FRAME_SIZE
  <2> HIDE DEF size
  <2>3. Data(size, 3) \in Seq(Byte)
    BY <2>2, DataType
  <2>4. length \in Seq(Byte) /\ Len(length) = 1
    <3>1. (PayloadPos + size) % 256 \in Byte
      BY <2>2, ModByte
    <3> QED
      BY <3>1
  <2>5. array \in Array(299)
    BY <1>1, <2>2, <2>3, FramePut
  <2>6. array[2] = frame[2]
    BY <1>1, <2>2, <2>3, PutOther
  <2> HIDE DEF array, length
  <2>7. Put(array, 0, length)[2] = array[2]
    <3>1. 0 \in Int /\ 0 + Len(length) <= 2
      BY <2>4
    <3> QED
      BY <1>1, <2>4, <2>5, <3>1, PutOther, ZenonT(40)
  <2>8. pc = "payload"
    BY <1>4 DEF SetPayload
  <2> QED
    BY <2>1, <2>6, <2>7, <2>8 DEF array, length, size, HeadInv
<1>5. CASE Write
  <2>1. PICK length \in Lengths, frame_ctl \in {0, Fctl_CONT} :
          frame' = Put(frame, 0, <<length, 1, home, frame_ctl>> \o Data(length - 4, length))
    BY <1>5 DEF Write
  <2> DEFINE head == <<length, 1, home, frame_ctl>>
             data == Data(length - 4, length)
             bytes == head \o data
  <2>2. length \in 4 .. 255 /\ frame_ctl \in Byte /\ length \in Byte /\ 1 \in Byte
    BY ConstantsType DEF Fctl_CONT, Byte
  <2>3. data \in Seq(Byte)
    <3>1. length - 4 \in Nat /\ length \in Int
      BY <2>2
    <3> QED
      BY <3>1, DataType
  <2>4. head \in Seq(Byte) /\ Len(head) = 4 /\ head[3] = home
    BY <1>1, <2>2
  <2> HIDE DEF head, data
  <2>5. bytes \in Seq(Byte) /\ Len(bytes) >= 4 /\ bytes[3] = home
    <3>1. head \in Seq(Byte) /\ data \in Seq(Byte)
      BY <2>3, <2>4
    <3>2. /\ bytes \in Seq(Byte) /\ Len(bytes) = Len(head) + Len(data)
          /\ \A i \in 1 .. Len(head) : bytes[i] = head[i]
      BY <3>1, Concatenated
    <3>3. Len(data) \in Nat /\ 3 \in 1 .. Len(head)
      BY <2>3, <2>4
    <3> QED
      BY <2>4, <3>2, <3>3
  <2> HIDE DEF bytes
  <2>6. 0 \in Int /\ 0 <= 2 /\ 2 < 0 + Len(bytes) /\ (2 - 0) + 1 = 3
    BY <2>5
  <2>7. Put(frame, 0, bytes)[2] = bytes[(2 - 0) + 1]
    BY <1>1, <2>5, <2>6, PutByte
  <2> QED
    BY <1>5, <2>1, <2>5, <2>6, <2>7 DEF bytes, head, data, Write
<1>6. CASE BgSet
  <2>1. PICK protocol \in {240, 241}, time \in Times :
            frame' = Put(frame, 0, BgHeader(protocol, time))
    BY <1>6, BgSetPut
  <2> DEFINE bytes == BgHeader(protocol, time)
  <2>2. bytes \in Seq(Byte) /\ Len(bytes) = 5 /\ bytes[1] = home
    <3>1. time \div 256 \in Byte /\ time % 256 \in Byte
      BY ConstantsType, Halves
    <3>2. protocol \in Byte /\ 18 \in Byte
      BY DEF Byte
    <3> QED
      BY <1>1, <3>1, <3>2 DEF BgHeader
  <2> HIDE DEF bytes
  <2>3. Put(frame, 0, bytes)[0] = bytes[1]
    <3>1. Len(bytes) >= 1
      BY <2>2
    <3> QED
      BY <1>1, <2>2, <3>1, PutFirst, ZenonT(40)
  <2> QED
    BY <1>6, <2>1, <2>2, <2>3 DEF BgSet, bytes
<1>7. CASE \E type \in {"source", "target"} : SetAddr(type)
  <2>1. PICK type \in {"source", "target"} : SetAddr(type)
    BY <1>7
  <2> DEFINE at == IF type = "source" THEN SourcePos ELSE TargetPos
             addr == Data(Width, IF type = "source" THEN 1 ELSE 2)
  <2>2. pc = "payload" /\ at > 0 /\ frame' = Put(frame, at, addr)
    BY <2>1 DEF SetAddr
  <2>3. at \in Int /\ 2 < at
    BY <2>2 DEF SourcePos, TargetPos
  <2>4. addr \in Seq(Byte)
    <3>1. Width \in Nat /\ (IF type = "source" THEN 1 ELSE 2) \in Int
      BY DEF Width
    <3> QED
      BY <3>1, DataType
  <2> HIDE DEF at, addr
  <2>5. Put(frame, at, addr)[2] = frame[2]
    BY <1>1, <2>3, <2>4, PutOther
  <2> QED
    BY <2>2, <2>5 DEF HeadInv
<1> QED
  BY <1>2, <1>3, <1>4, <1>5, <1>6, <1>7

LEMMA CallerSender ==
    ASSUME TypeInv, SenderInv,
           FrameStart \/ AddrCtlSet \/ SetPayload \/ Write \/ BgSet
             \/ \E type \in {"source", "target"} : SetAddr(type)
    PROVE  SenderInv'
<1>1. /\ pc \in Building /\ pc' \in Building
      /\ ~Foreground => pc = "build" /\ pc' = "ready"
      /\ UNCHANGED <<pack_class, home, buf, pos, added>>
  <2>1. UNCHANGED <<configured, sender>>
    BY DEF FrameStart, AddrCtlSet, SetPayload, Write, BgSet, SetAddr
  <2>2. pc \in Building /\ pc' \in Building
    BY DEF FrameStart, AddrCtlSet, SetPayload, Write, BgSet, SetAddr, Building
  <2>3. ~Foreground => pc = "build" /\ pc' = "ready"
    BY DEF FrameStart, AddrCtlSet, SetPayload, Write, BgSet, SetAddr, SenderInv, HeadInv
  <2> QED
    BY <2>1, <2>2, <2>3 DEF configured, sender
<1>2. (Foreground => frame'[2] = home) /\ (~Foreground => frame'[0] = home)
  BY CallerHead DEF SenderInv
<1>3. HeadInv'
  BY <1>1, <1>2 DEF SenderInv, HeadInv, Foreground, Building
<1>4. AddedInv' /\ RowsInv'
  BY <1>1 DEF SenderInv, AddedInv, RowsInv
<1>5. AnnouncedInv'
  BY <1>1 DEF SenderInv, AnnouncedInv, Announced, Foreground, Building, Sending
<1> QED
  BY <1>3, <1>4, <1>5 DEF SenderInv

LEMMA WholeAs ==
    ASSUME TypeInv, HeadInv, pc = "ready"
    PROVE  AddedAs(pack_class, Whole, home)
<1>1. /\ Whole \in Seq(Byte) /\ Len(Whole) <= 255 /\ Len(Whole) \in Nat
      /\ Len(Whole) = IF Foreground THEN frame[0] ELSE BG_FRAME_SIZE
      /\ \A i \in 1 .. Len(Whole) : Whole[i] = frame[i - 1]
  <2>1. frame \in Array(299)
    BY DEF TypeInv
  <2>2. Whole \in Seq(Byte)
    BY <2>1, WholeType
  <2>3. Len(Whole) \in Nat
    BY <2>2
  <2> QED
    BY <2>1, <2>2, <2>3, WholeType
<1>2. CASE Foreground
  <2>1. ASSUME Whole # <<>> PROVE Whole[1] = Len(Whole)
    <3>1. 1 \in 1 .. Len(Whole) /\ 1 - 1 = 0
      BY <1>1, <2>1
    <3> QED
      BY <1>1, <1>2, <3>1
  <2>2. ASSUME Len(Whole) >= 3 PROVE Whole[3] = home
    <3>1. 3 \in 1 .. Len(Whole) /\ 3 - 1 = 2
      BY <1>1, <2>2
    <3>2. frame[2] = home
      BY <1>2 DEF HeadInv
    <3> QED
      BY <1>1, <3>1, <3>2
  <2> QED
    BY <1>1, <1>2, <2>1, <2>2 DEF AddedAs, Foreground
<1>3. CASE ~Foreground
  <2>1. Len(Whole) = 5 /\ 1 \in 1 .. Len(Whole) /\ 1 - 1 = 0
    BY <1>1, <1>3 DEF BG_FRAME_SIZE
  <2>2. Whole[1] = home
    BY <1>1, <1>3, <2>1 DEF HeadInv
  <2> QED
    BY <1>3, <2>1, <2>2 DEF AddedAs, Foreground
<1> QED
  BY <1>2, <1>3

LEMMA AddFrameSender ==
    ASSUME TypeInv, SenderInv, AddFrame
    PROVE  SenderInv'
<1>1. /\ pc = "ready" /\ pc' = "added" /\ pos' = pos + 1 /\ pos # N_FRAMES
      /\ buf' = Put(buf, Row(pos), Coded(Whole)) /\ added' = Append(added, Whole)
      /\ UNCHANGED <<pack_class, home, frame>>
  BY DEF AddFrame, Whole, Full, configured, caller
<1>2. /\ Whole \in Seq(Byte) /\ Len(Whole) \in Nat
      /\ \A i \in 1 .. Len(Whole) : Whole[i] = frame[i - 1]
  BY WholeType DEF TypeInv
<1>3. /\ pos \in Nat /\ pos \in 0 .. N_FRAMES - 1 /\ added \in Seq(Seq(Byte)) /\ Len(added) = pos
  BY <1>1, FramesType DEF TypeInv
<1>4. /\ added'[pos + 1] = Whole /\ \A j \in 1 .. pos : added'[j] = added[j]
  BY <1>1, <1>2, <1>3
<1>5. HeadInv'
  BY <1>1, <1>3 DEF SenderInv, HeadInv, Foreground, Building
<1>6. AddedInv'
  <2> SUFFICES ASSUME NEW j \in 1 .. pos + 1 PROVE AddedAs(pack_class, added'[j], home)
    BY <1>1 DEF AddedInv
  <2>1. CASE j = pos + 1
    BY <1>1, <1>4, <2>1, WholeAs DEF SenderInv
  <2>2. CASE j \in 1 .. pos
    BY <1>4, <2>2 DEF SenderInv, AddedInv
  <2> QED
    BY <1>3, <2>1, <2>2
<1>7. AnnouncedInv'
  <2> SUFFICES ASSUME Foreground, NEW j \in 1 .. pos + 1, Len(added'[j]) >= 4
               PROVE  /\ j < pos + 1 => Announced(j)'
                      /\ j = pos + 1 => added'[j][4] = frame[3]
    BY <1>1 DEF AnnouncedInv, Foreground, Building, Sending
  <2>1. CASE j = pos + 1
    <3>1. 4 \in 1 .. Len(Whole) /\ 4 - 1 = 3
      BY <1>2, <1>4, <2>1
    <3> QED
      BY <1>2, <1>3, <1>4, <2>1, <3>1
  <2>2. CASE j \in 1 .. pos
    <3>1. added'[j] = added[j]
      BY <1>4, <2>2
    <3>2. Announced(j)
      BY <1>1, <2>2, <3>1 DEF SenderInv, AnnouncedInv, Building
    <3> QED
      BY <1>3, <2>2, <3>1, <3>2 DEF Announced
  <2> QED
    BY <1>3, <2>1, <2>2
<1>8. RowsInv'
  <2> SUFFICES ASSUME NEW j \in 0 .. pos, NEW i \in 1 .. 255, i <= Len(added'[j + 1]) + 2
               PROVE  buf'[(Row(j) + i) - 1] = CodedAs(pack_class, added'[j + 1])[i]
    <3>1. pos' = pos + 1 /\ pos \in Nat
      BY <1>1, <1>3, Zenon
    <3>2. pos' - 1 = pos
      BY <3>1
    <3> QED
      BY <1>1, <3>2 DEF RowsInv
  <2> DEFINE coded == Coded(Whole)
             k == (Row(j) + i) - 1
             n == N_FRAMES * FRAME_SIZE + 1
  <2>1. coded \in Seq(Byte) /\ Len(coded) = Len(Whole) + 2 /\ coded = CodedAs(pack_class, Whole)
    BY <1>2, CodedType, CodedIs
  <2>2. /\ Row(j) = 255 * j /\ Row(pos) = 255 * pos /\ Row(j) + 255 <= n /\ n \in Nat
        /\ Row(pos) \in Int /\ Row(j) \in Nat
    <3>1. j \in 0 .. N_FRAMES - 1
      BY <1>3, FramesType
    <3> QED
      BY <1>3, <3>1, RowPlace, BufferSize
  <2>3. k \in 0 .. n /\ buf \in Array(n)
    <3>1. buf \in Array(n)
      BY DEF TypeInv, Buffer
    <3> HIDE DEF n
    <3> QED
      BY <2>2, <3>1
  <2>4. buf'[k] = IF Row(pos) <= k /\ k < Row(pos) + Len(coded)
                    THEN coded[(k - Row(pos)) + 1] ELSE buf[k]
    <3> HIDE DEF coded, k, n
    <3>1. Put(buf, Row(pos), coded)[k] =
            IF Row(pos) <= k /\ k < Row(pos) + Len(coded) THEN coded[(k - Row(pos)) + 1] ELSE buf[k]
      BY <2>1, <2>2, <2>3, PutType, SMTT(40)
    <3> QED
      BY <1>1, <3>1 DEF coded
  <2> HIDE DEF coded, n
  <2>5. CASE j = pos
    <3>1. added'[j + 1] = Whole
      BY <1>4, <2>5
    <3>2. Row(pos) <= k /\ k < Row(pos) + Len(coded) /\ (k - Row(pos)) + 1 = i
      BY <1>2, <2>1, <2>2, <2>5, <3>1
    <3> QED
      BY <2>1, <2>4, <3>1, <3>2
  <2>6. CASE j < pos
    <3>1. ~ (Row(pos) <= k)
      BY <1>3, <2>2, <2>6
    <3>2. j + 1 \in 1 .. pos /\ j \in 0 .. pos - 1
      BY <1>3, <2>6
    <3>3. added'[j + 1] = added[j + 1]
      BY <1>4, <3>2
    <3>4. buf[k] = CodedAs(pack_class, added[j + 1])[i]
      BY <3>2, <3>3 DEF SenderInv, RowsInv
    <3> QED
      BY <2>4, <3>1, <3>3, <3>4
  <2> QED
    BY <1>3, <2>5, <2>6
<1> QED
  BY <1>5, <1>6, <1>7, <1>8 DEF SenderInv

\* A packet that is on its way is not touched by its sender.
LEMMA SenderUnchanged ==
    ASSUME TypeInv, SenderInv, UNCHANGED <<pack_class, home, frame, buf, pos, added>>,
           \/ pc' = pc
           \/ pc \in Sending /\ pc' \in Sending
           \/ pc = "added" /\ pc' = "build" /\ Foreground /\ Bit(frame[3], Fctl_CONT)
           \/ pc = "added" /\ pc' \in Sending /\ (Foreground => ~Bit(frame[3], Fctl_CONT))
    PROVE  SenderInv'
<1>1. HeadInv'
  BY DEF SenderInv, HeadInv, Foreground, Building, Sending
<1>2. AddedInv' /\ RowsInv'
  BY DEF SenderInv, AddedInv, RowsInv
<1>3. AnnouncedInv'
  <2> SUFFICES ASSUME Foreground, NEW j \in 1 .. pos, Len(added[j]) >= 4
               PROVE  /\ j < pos \/ pc' \in Building => Announced(j)
                      /\ j = pos /\ pc' = "added" => added[j][4] = frame[3]
                      /\ j = pos /\ pc' \in Sending => ~Announced(j)
    BY DEF AnnouncedInv, Announced, Foreground
  <2>1. /\ j < pos \/ pc \in Building => Announced(j)
        /\ j = pos /\ pc = "added" => added[j][4] = frame[3]
        /\ j = pos /\ pc \in Sending => ~Announced(j)
    BY DEF SenderInv, AnnouncedInv
  <2>2. j < pos \/ j = pos
    BY DEF TypeInv
  <2> QED
    BY <2>1, <2>2 DEF Announced, Building, Sending
<1> QED
  BY <1>1, <1>2, <1>3 DEF SenderInv

LEMMA SenderStep ==
    ASSUME TypeInv, SenderInv, [Next]_vars
    PROVE  SenderInv'
<1>1. CASE FrameStart \/ AddrCtlSet \/ SetPayload \/ Write \/ BgSet
             \/ \E type \in {"source", "target"} : SetAddr(type)
  BY <1>1, CallerSender
<1>2. CASE AddFrame
  BY <1>2, AddFrameSender
<1>3. CASE Another
  BY <1>3, SenderUnchanged DEF Another, configured, caller, sender
<1>4. CASE SendPacket
  BY <1>4, SenderUnchanged DEF SendPacket, configured, caller, sender, Sending
<1>5. CASE Damage \/ GetFrame \/ GetBeyond
  BY <1>5, SenderUnchanged DEF Damage, GetFrame, GetBeyond, configured, caller, sender
<1>6. CASE ReadFrame
  <2>1. pc \in Sending /\ pc' \in Sending
        /\ UNCHANGED <<pack_class, home, frame, buf, pos, added>>
    BY <1>6, ReadFrameIs DEF Sending, configured, caller, sender
  <2> QED
    BY <2>1, SenderUnchanged
<1>7. CASE UNCHANGED vars
  BY <1>7, SenderUnchanged DEF vars, configured, caller, sender
<1> QED
  BY <1>1, <1>2, <1>3, <1>4, <1>5, <1>6, <1>7 DEF Next

-----------------------------------------------------------------------------
(* Where the rows lie in the packet *)

Layout(start, class, array, n) ==
    /\ start \in [0 .. n -> Nat] /\ start[0] = 0
    /\ \A i \in 1 .. n : start[i] = start[i - 1] + LengthAs(class, array, i - 1)

LEMMA LengthAsType ==
    ASSUME NEW class, NEW array \in Buffer, NEW i \in 0 .. N_FRAMES - 1
    PROVE  LengthAs(class, array, i) \in 0 .. 255
<1>1. Row(i) \in 0 .. N_FRAMES * FRAME_SIZE + 1
  BY RowPlace, BufferSize
<1>2. array[Row(i)] \in Byte
  BY <1>1 DEF Buffer, Array
<1>3. LengthAs(class, array, i) \in Byte
  BY <1>2 DEF LengthAs, BG_CRC_SIZE, Byte
<1> QED
  BY <1>3 DEF Byte

LEMMA LayoutGrows ==
    ASSUME NEW class, NEW array \in Buffer, NEW n \in 0 .. N_FRAMES,
           NEW start, Layout(start, class, array, n)
    PROVE  \A k \in 0 .. n : \A i \in 0 .. k : start[i] <= start[k]
<1> DEFINE S == {k \in 0 .. n : \A i \in 0 .. k : start[i] <= start[k]}
<1>1. n \in Nat /\ start \in [0 .. n -> Nat]
  BY FramesType DEF Layout
<1>2. 0 \in S
  BY <1>1
<1>3. ASSUME NEW k \in 1 .. n, k - 1 \in S PROVE k \in S
  <2> SUFFICES ASSUME NEW i \in 0 .. k PROVE start[i] <= start[k]
    BY <1>1
  <2>1. k - 1 \in 0 .. N_FRAMES - 1 /\ k \in 0 .. n /\ k - 1 \in 0 .. n /\ i \in 0 .. n
    BY <1>1, FramesType
  <2>2. LengthAs(class, array, k - 1) \in 0 .. 255
    BY <2>1, LengthAsType
  <2>3. start[k] = start[k - 1] + LengthAs(class, array, k - 1)
    BY DEF Layout
  <2>4. start[k] \in Nat /\ start[k - 1] \in Nat /\ start[i] \in Nat
    BY <1>1, <2>1
  <2>5. CASE i = k
    BY <2>4, <2>5
  <2>6. CASE i # k
    <3>1. i \in 0 .. k - 1
      BY <2>6
    <3>2. start[i] <= start[k - 1]
      BY <1>3, <3>1
    <3> QED
      BY <2>2, <2>3, <2>4, <3>2
  <2> QED
    BY <2>5, <2>6
<1> HIDE DEF S
<1>4. \A k \in 0 .. n : k \in S
  BY <1>1, <1>2, <1>3, FiniteInduction
<1> QED
  BY <1>4 DEF S

LEMMA LayoutUnique ==
    ASSUME NEW class, NEW array, NEW n \in Nat, NEW start, Layout(start, class, array, n),
           NEW other, Layout(other, class, array, n)
    PROVE  \A i \in 0 .. n : start[i] = other[i]
<1> DEFINE S == {i \in 0 .. n : start[i] = other[i]}
<1>1. 0 \in S
  BY DEF Layout
<1>2. ASSUME NEW i \in 1 .. n, i - 1 \in S PROVE i \in S
  <2>1. /\ start[i] = start[i - 1] + LengthAs(class, array, i - 1)
        /\ other[i] = other[i - 1] + LengthAs(class, array, i - 1)
    BY DEF Layout
  <2> QED
    BY <1>2, <2>1
<1> HIDE DEF S
<1>3. \A i \in 0 .. n : i \in S
  BY <1>1, <1>2, FiniteInduction
<1> QED
  BY <1>3 DEF S

\* What was sent before stays when a row is sent.
LEMMA SentPrefix ==
    ASSUME buf \in Buffer, pos \in 0 .. N_FRAMES
    PROVE  \A k \in 0 .. pos : \A i \in 0 .. k :
              /\ Len(Sent[i]) <= Len(Sent[k])
              /\ \A x \in 1 .. Len(Sent[i]) : Sent[k][x] = Sent[i][x]
<1> DEFINE Prefix(i, k) == /\ Len(Sent[i]) <= Len(Sent[k])
                           /\ \A x \in 1 .. Len(Sent[i]) : Sent[k][x] = Sent[i][x]
           S == {k \in 0 .. pos : \A i \in 0 .. k : Prefix(i, k)}
<1>1. pos \in Nat
  BY FramesType
<1>2. \A i \in 0 .. pos : Len(Sent[i]) \in Nat
  BY SentType DEF AtMost
<1>3. 0 \in S
  <2> SUFFICES Prefix(0, 0)
    BY <1>1
  <2> QED
    BY <1>1, <1>2
<1>4. ASSUME NEW k \in 1 .. pos, k - 1 \in S PROVE k \in S
  <2> SUFFICES ASSUME NEW i \in 0 .. k PROVE Prefix(i, k)
    BY <1>1
  <2>1. k \in 1 .. N_FRAMES /\ k - 1 \in 0 .. pos /\ k \in 0 .. pos /\ i \in 0 .. pos
    BY <1>1, FramesType
  <2>2. Sent[k - 1] \in AtMost(255 * (k - 1)) /\ Sent[k] = SentNext(k, Sent[k - 1])
    BY <2>1, SentType
  <2>3. /\ Len(Sent[k]) = Len(Sent[k - 1]) + RowLength(k - 1)
        /\ \A x \in 1 .. Len(Sent[k - 1]) : Sent[k][x] = Sent[k - 1][x]
    BY <2>1, <2>2, SentNextType, ZenonT(40)
  <2>4. RowLength(k - 1) \in Nat
    <3>1. k - 1 \in 0 .. N_FRAMES - 1
      BY <2>1, FramesType
    <3> QED
      BY <3>1, RowType
  <2>5. Len(Sent[k]) \in Nat /\ Len(Sent[k - 1]) \in Nat /\ Len(Sent[i]) \in Nat
    BY <1>2, <2>1
  <2>6. CASE i = k
    BY <2>5, <2>6
  <2>7. CASE i # k
    <3>1. i \in 0 .. k - 1
      BY <2>7
    <3>2. Prefix(i, k - 1)
      BY <1>4, <3>1
    <3> QED
      BY <2>3, <2>4, <2>5, <3>2
  <2> QED
    BY <2>6, <2>7
<1> HIDE DEF S
<1>5. \A k \in 0 .. pos : k \in S
  BY <1>1, <1>3, <1>4, FiniteInduction
<1> QED
  BY <1>5 DEF S

SentLengths == [i \in 0 .. pos |-> Len(Sent[i])]

LEMMA RowLengthIs ==
    \A i : RowLength(i) = LengthAs(pack_class, buf, i)
BY DEF RowLength, LengthAs, Foreground

\* Whitened again, the packet is the rows.
LEMMA PacketLayout ==
    ASSUME buf \in Buffer, pos \in 0 .. N_FRAMES
    PROVE  /\ Layout(SentLengths, pack_class, buf, pos)
           /\ Len(Packet) = SentLengths[pos]
           /\ \A i \in 0 .. pos - 1 : \A k \in 1 .. LengthAs(pack_class, buf, i) :
                Xor[Packet[SentLengths[i] + k]][Noise(SentLengths[i] + k)] = buf[(Row(i) + k) - 1]
<1>1. pos \in Nat
  BY FramesType
<1>2. \A i \in 0 .. pos : Len(Sent[i]) \in Nat
  BY SentType DEF AtMost
<1>3. ASSUME NEW i \in 1 .. pos
      PROVE  /\ Len(Sent[i]) = Len(Sent[i - 1]) + RowLength(i - 1)
             /\ \A k \in 1 .. RowLength(i - 1) :
                  Sent[i][Len(Sent[i - 1]) + k] = Xor[RowBytes(i - 1)[k]][Noise(Len(Sent[i - 1]) + k)]
  <2>1. i \in 1 .. N_FRAMES /\ i - 1 \in 0 .. pos
    BY <1>1, FramesType
  <2>2. Sent[i - 1] \in AtMost(255 * (i - 1)) /\ Sent[i] = SentNext(i, Sent[i - 1])
    BY <2>1, SentType
  <2> DEFINE s == Sent[i - 1]
  <2>3. s \in AtMost(255 * (i - 1)) /\ Sent[i] = SentNext(i, s)
    BY <2>2
  <2> HIDE DEF s
  <2>4. /\ SentNext(i, s) \in AtMost(255 * i)
        /\ Len(SentNext(i, s)) = Len(s) + RowLength(i - 1)
        /\ \A k \in 1 .. Len(s) : SentNext(i, s)[k] = s[k]
        /\ \A k \in 1 .. RowLength(i - 1) :
             SentNext(i, s)[Len(s) + k] = Xor[RowBytes(i - 1)[k]][Noise(Len(s) + k)]
    BY <2>1, <2>3, SentNextType
  <2>5. /\ Len(Sent[i]) = Len(s) + RowLength(i - 1)
        /\ \A k \in 1 .. RowLength(i - 1) :
             Sent[i][Len(s) + k] = Xor[RowBytes(i - 1)[k]][Noise(Len(s) + k)]
    BY <2>3, <2>4
  <2> QED
    BY <2>5 DEF s
<1>4. Layout(SentLengths, pack_class, buf, pos)
  <2>1. SentLengths \in [0 .. pos -> Nat]
    BY <1>2 DEF SentLengths
  <2>2. SentLengths[0] = 0
    <3>1. Sent[0] = <<>>
      BY SentType
    <3> QED
      BY <1>1, <3>1 DEF SentLengths
  <2>3. ASSUME NEW i \in 1 .. pos
        PROVE  SentLengths[i] = SentLengths[i - 1] + LengthAs(pack_class, buf, i - 1)
    <3>1. i \in 0 .. pos /\ i - 1 \in 0 .. pos
      BY <1>1
    <3> QED
      BY <1>3, <3>1, RowLengthIs DEF SentLengths
  <2> QED
    BY <2>1, <2>2, <2>3 DEF Layout
<1>5. Len(Packet) = SentLengths[pos]
  BY <1>1 DEF Packet, SentLengths
<1>6. ASSUME NEW i \in 0 .. pos - 1, NEW k \in 1 .. LengthAs(pack_class, buf, i)
      PROVE  Xor[Packet[SentLengths[i] + k]][Noise(SentLengths[i] + k)] = buf[(Row(i) + k) - 1]
  <2> DEFINE at == Len(Sent[i]) + k
             byte == buf[(Row(i) + k) - 1]
  <2>1. /\ i + 1 \in 1 .. pos /\ (i + 1) - 1 = i /\ i \in 0 .. pos /\ i + 1 \in 0 .. pos
        /\ i \in 0 .. N_FRAMES - 1 /\ pos \in 0 .. pos /\ i + 1 \in 0 .. pos
    BY <1>1, FramesType
  <2>2. k \in 1 .. RowLength(i) /\ SentLengths[i] = Len(Sent[i])
    BY <2>1, RowLengthIs DEF SentLengths
  <2>3. Sent[i + 1][at] = Xor[RowBytes(i)[k]][Noise(at)] /\ Len(Sent[i + 1]) = Len(Sent[i]) + RowLength(i)
    BY <1>3, <2>1, <2>2
  <2>4. /\ RowLength(i) \in Nat /\ RowLength(i) <= 255
        /\ RowBytes(i) \in Seq(Byte) /\ Len(RowBytes(i)) = RowLength(i)
        /\ RowBytes(i)[k] = byte
    BY <2>1, <2>2, RowType
  <2>5. byte \in Byte
    <3>1. RowBytes(i)[k] \in Byte
      BY <2>2, <2>4
    <3> QED
      BY <2>4, <3>1
  <2>6. Len(Sent[i]) \in Nat /\ at \in 1 .. Len(Sent[i + 1])
    BY <1>2, <2>1, <2>2, <2>3, <2>4, SMTT(40)
  <2>7. Packet[at] = Sent[i + 1][at] /\ Len(Sent[i + 1]) <= Len(Packet)
    <3>1. \A x \in 1 .. Len(Sent[i + 1]) : Sent[pos][x] = Sent[i + 1][x]
      BY <2>1, SentPrefix
    <3>2. Len(Sent[i + 1]) <= Len(Sent[pos])
      BY <2>1, SentPrefix
    <3> HIDE DEF at
    <3> QED
      BY <2>6, <3>1, <3>2 DEF Packet
  <2>8. at \in 1 .. N_FRAMES * FRAME_SIZE
    <3>1. Len(Packet) <= N_FRAMES * FRAME_SIZE /\ Len(Packet) \in Nat
      BY PacketType
    <3>2. Len(Sent[i + 1]) \in Nat
      BY <1>2, <2>1
    <3> HIDE DEF at
    <3> QED
      BY <2>6, <2>7, <3>1, <3>2, BufferSize
  <2> HIDE DEF at, byte
  <2>9. Xor[Xor[byte][Noise(at)]][Noise(at)] = byte
    BY <2>5, <2>8, NoiseType, XorTwice
  <2>10. Packet[at] = Xor[byte][Noise(at)]
    BY <2>3, <2>4, <2>7
  <2> QED
    BY <2>2, <2>9, <2>10 DEF at, byte
<1> QED
  BY <1>4, <1>5, <1>6

-----------------------------------------------------------------------------
(* The receiver *)

\* The packet on the air, whitened again, is the rows but for one place.
AirAs(start, p) ==
    /\ Layout(start, pack_class, buf, pos) /\ Len(air) = start[pos]
    /\ \A i \in 0 .. pos - 1 : \A k \in 1 .. LengthAs(pack_class, buf, i) :
          start[i] + k # p => Xor[air[start[i] + k]][Noise(start[i] + k)] = buf[(Row(i) + k) - 1]

\* The byte each row begins with is read as it was sent.
Intact(start) ==
    Foreground =>
        \A i \in 0 .. pos - 1 :
            buf[Row(i)] # 0 => Xor[air[start[i] + 1]][Noise(start[i] + 1)] = buf[Row(i)]

NonEmpty == \A j \in DOMAIN added : added[j] # <<>>

\* Row f of the receiver is row m of the sender but for byte p of it, which is
\* not the length.
Copied(f, m, p) ==
    /\ Foreground => Len(added[m + 1]) \in 6 .. 253 /\ p # 1
    /\ ~Foreground => Len(added[m + 1]) = 5
    /\ \A i \in 1 .. Len(added[m + 1]) + 2 :
          i # p => rbuf[(Row(f) + i) - 1] = CodedAs(pack_class, added[m + 1])[i]

CopiedRow(f) ==
    \E m \in 0 .. pos - 1, p \in Int :
        Copied(f, m, p) /\ (Fits => m = f) /\ (~damaged => p = 0)

RowsRead ==
    pc \in {"air", "listened"} => \A f \in 0 .. N_FRAMES - 1 : f < filled => CopiedRow(f)

\* The next byte to be read is the first of a row.
AtRow(start) == pc = "air" => \E m \in 0 .. pos : read = start[m] /\ (Fits => m = filled)

\* An undamaged packet of frames that fit is read to its end, and only by a node
\* of its subnet.
Sound ==
    Fits /\ ~damaged =>
        /\ pc = "air" => filled < pos
        /\ pc = "listened" => filled = pos
        /\ home \in {device, 255} => pc # "error"
        /\ home \div 16 \notin {15, device \div 16} => pc # "listened"
        /\ got = SubSeq(added, 1, rpos)

Genuine == rpos <= N_FRAMES => \A i \in DOMAIN got : \E j \in DOMAIN added : got[i] = added[j]

ReceiverInv(start) == RowsRead /\ AtRow(start) /\ Sound /\ Genuine

Received(start, p) ==
    /\ p \in Nat /\ AirAs(start, p) /\ (~damaged => p = 0)
    /\ NonEmpty /\ Intact(start) => ReceiverInv(start)

AirInv == pc \in {"air", "listened", "error"} => \E start, p : Received(start, p)

GotInv == got \in Seq(Seq(Int)) /\ (pc # "listened" => got = <<>> /\ rpos = 0)

PacketInv == TypeInv /\ SenderInv /\ GotInv /\ AirInv

LEMMA PacketInit ==
    ASSUME Init
    PROVE  PacketInv
<1>1. TypeInv /\ SenderInv
  BY InitType, SenderInit
<1>2. GotInv /\ AirInv
  BY DEF Init, GotInv, AirInv
<1> QED
  BY <1>1, <1>2 DEF PacketInv

LEMMA SeqIs ==
    ASSUME NEW n \in Nat, NEW s, s = [i \in 1 .. n |-> s[i]], \A i \in 1 .. n : s[i] \in Int
    PROVE  s \in Seq(Int)
<1>1. s \in [1 .. n -> Int]
  OBVIOUS
<1> QED
  BY <1>1

LEMMA SeqInt ==
    ASSUME NEW s \in Seq(Byte)
    PROVE  s \in Seq(Int)
<1>1. Len(s) \in Nat /\ s = [i \in 1 .. Len(s) |-> s[i]]
  OBVIOUS
<1>2. \A i \in 1 .. Len(s) : s[i] \in Byte
  OBVIOUS
<1>3. \A i \in 1 .. Len(s) : s[i] \in Int
  BY <1>2, ByteRange
<1> QED
  BY <1>1, <1>3, SeqIs

LEMMA GotAppend ==
    ASSUME NEW s \in Seq(Seq(Int)), NEW x \in Seq(Int)
    PROVE  Append(s, x) \in Seq(Seq(Int))
<1> DEFINE T == Seq(Int)
<1>1. s \in Seq(T) /\ x \in T
  OBVIOUS
<1> HIDE DEF T
<1>2. Append(s, x) \in Seq(T)
  BY <1>1
<1> QED
  BY <1>2 DEF T

\* A frame behind the buffer, or one whose length is less than two.
LEMMA FrameOut ==
    ASSUME TypeInv, rpos \in 0 .. N_FRAMES - 1
    PROVE  LET frame_end == IF Foreground THEN rbuf[Row(rpos)] - 2 ELSE BG_FRAME_SIZE
               bytes == Slice(rbuf, Row(rpos), frame_end)
           IN  /\ bytes \in Seq(Byte) /\ (frame_end \in Nat => Len(bytes) = frame_end)
               /\ \A i \in 1 .. frame_end : bytes[i] = rbuf[(Row(rpos) + i) - 1]
               /\ (IF Foreground THEN [bytes EXCEPT ![1] = @ - 2] ELSE bytes) \in Seq(Int)
               /\ frame_end \in Int /\ frame_end <= 253
<1> DEFINE n == N_FRAMES * FRAME_SIZE + 1
           frame_end == IF Foreground THEN rbuf[Row(rpos)] - 2 ELSE BG_FRAME_SIZE
           bytes == Slice(rbuf, Row(rpos), frame_end)
<1>1. n \in Nat /\ rbuf \in Array(n) /\ Row(rpos) \in Nat /\ Row(rpos) + 255 <= n
  BY RowPlace, BufferSize DEF TypeInv, Buffer
<1> HIDE DEF n
<1>2. frame_end \in Int /\ frame_end <= 253 /\ Row(rpos) + frame_end <= n + 1
  <2>1. Row(rpos) \in 0 .. n
    BY <1>1
  <2>2. rbuf[Row(rpos)] \in Byte
    BY <1>1, <2>1 DEF Array
  <2>3. rbuf[Row(rpos)] \in Int /\ rbuf[Row(rpos)] <= 255
    BY <2>2, ByteRange
  <2> QED
    BY <1>1, <2>3 DEF BG_FRAME_SIZE
<1> HIDE DEF frame_end
<1>3. /\ bytes \in Seq(Byte) /\ (frame_end \in Nat => Len(bytes) = frame_end)
      /\ \A i \in 1 .. frame_end : bytes[i] = rbuf[(Row(rpos) + i) - 1]
  BY <1>1, <1>2, SliceType, ZenonT(40)
<1> HIDE DEF bytes
<1>4. [bytes EXCEPT ![1] = @ - 2] \in Seq(Int)
  <2> DEFINE less == [bytes EXCEPT ![1] = @ - 2]
  <2>1. Len(bytes) \in Nat /\ DOMAIN bytes = 1 .. Len(bytes)
        /\ \A i \in 1 .. Len(bytes) : bytes[i] \in Int
    <3>1. bytes \in Seq(Int)
      BY <1>3, SeqInt
    <3> QED
      BY <3>1
  <2>2. less = [i \in 1 .. Len(bytes) |-> less[i]]
    BY <2>1
  <2>3. \A i \in 1 .. Len(bytes) : less[i] = IF i = 1 THEN bytes[1] - 2 ELSE bytes[i]
    BY <2>1
  <2> HIDE DEF less
  <2>4. \A i \in 1 .. Len(bytes) : less[i] \in Int
    BY <2>1, <2>3
  <2>5. less \in Seq(Int)
    BY <2>1, <2>2, <2>4, SeqIs
  <2> QED
    BY <2>5 DEF less
<1>5. bytes \in Seq(Int)
  BY <1>3, SeqInt
<1> QED
  BY <1>2, <1>3, <1>4, <1>5 DEF frame_end, bytes

\* The frame in a row of the receiver, and the CRC behind it.
FrameEnd == IF Foreground THEN rbuf[Row(rpos)] - 2 ELSE BG_FRAME_SIZE
FrameBytes == Slice(rbuf, Row(rpos), FrameEnd)
CrcGiven == rbuf[Row(rpos) + FrameEnd] * 256 + rbuf[Row(rpos) + FrameEnd + 1]
FrameGot == IF Foreground THEN [FrameBytes EXCEPT ![1] = @ - 2] ELSE FrameBytes

LEMMA GetFrameIs ==
    ASSUME GetFrame
    PROVE  /\ pc = "listened" /\ rpos < filled /\ rpos < N_FRAMES
           /\ got' = IF Crc(FrameBytes) = CrcGiven THEN Append(got, FrameGot) ELSE got
           /\ rpos' = rpos + 1
           /\ UNCHANGED <<pc, configured, caller, sender, air, damaged, rbuf, filled, read>>
BY DEF GetFrame, FrameEnd, FrameBytes, CrcGiven, FrameGot

LEMMA GotStep ==
    ASSUME TypeInv, GotInv, [Next]_vars
    PROVE  GotInv'
<1>1. CASE GetFrame
  <2>1. rpos \in 0 .. N_FRAMES - 1
    BY <1>1, GetFrameIs, FramesType DEF TypeInv
  <2>2. FrameGot \in Seq(Int)
    BY <2>1, FrameOut DEF FrameGot, FrameBytes, FrameEnd
  <2>3. /\ pc' = "listened" /\ got' \in {got, Append(got, FrameGot)}
    BY <1>1, GetFrameIs
  <2>4. Append(got, FrameGot) \in Seq(Seq(Int))
    BY <2>2, GotAppend DEF GotInv
  <2> QED
    BY <2>3, <2>4, Zenon DEF GotInv
<1>2. CASE GetBeyond
  <2>1. Data(8, 4) \in Seq(Byte)
    BY DataType
  <2>2. Data(8, 4) \in Seq(Int)
    BY <2>1, SeqInt
  <2>3. pc' = "listened" /\ got' \in {got, Append(got, Data(8, 4))}
    BY <1>2 DEF GetBeyond
  <2>4. Append(got, Data(8, 4)) \in Seq(Seq(Int))
    BY <2>2, GotAppend DEF GotInv
  <2> QED
    BY <2>3, <2>4, Zenon DEF GotInv
<1>3. CASE ReadFrame
  <2>1. pc = "air" /\ UNCHANGED <<rpos, got>>
    BY <1>3, ReadFrameIs
  <2> QED
    BY <2>1 DEF GotInv
<1>4. CASE FrameStart \/ AddrCtlSet \/ SetPayload \/ Write \/ BgSet
             \/ \E type \in {"source", "target"} : SetAddr(type)
  <2>1. pc # "listened" /\ UNCHANGED <<rpos, got>>
    BY <1>4 DEF FrameStart, AddrCtlSet, SetPayload, Write, BgSet, SetAddr, receiver
  <2> QED
    BY <2>1 DEF GotInv
<1>5. CASE AddFrame \/ Another \/ SendPacket \/ Damage
  <2>1. pc # "listened" /\ UNCHANGED <<rpos, got>>
    BY <1>5 DEF AddFrame, Another, SendPacket, Damage, receiver
  <2> QED
    BY <2>1 DEF GotInv
<1>6. CASE UNCHANGED vars
  BY <1>6 DEF vars, receiver, GotInv
<1> QED
  BY <1>1, <1>2, <1>3, <1>4, <1>5, <1>6 DEF Next

LEMMA FitsUnchanged ==
    ASSUME UNCHANGED <<pack_class, added>>
    PROVE  (Fits' <=> Fits) /\ (NonEmpty' <=> NonEmpty)
BY DEF Fits, NonEmpty, Foreground

\* What is on the air is what was sent.
LEMMA SendPacketAir ==
    ASSUME PacketInv, SendPacket
    PROVE  AirInv'
<1>1. /\ air' = Packet /\ pc = "added" /\ pc' \in {"stuck", "air"}
      /\ UNCHANGED <<pack_class, home, device, buf, pos, added, damaged, rbuf, rpos, filled, read, got>>
  BY DEF SendPacket, configured, caller, sender, receiver
<1>2. /\ buf \in Buffer /\ pos \in 0 .. N_FRAMES /\ filled = 0 /\ read = 0
      /\ pos >= 1 /\ got = <<>> /\ rpos = 0 /\ added \in Seq(Seq(Byte))
  BY <1>1 DEF PacketInv, TypeInv, GotInv, SenderInv, HeadInv, Building
<1> DEFINE start == SentLengths
<1>3. /\ Layout(start, pack_class, buf, pos) /\ Len(Packet) = start[pos]
      /\ \A i \in 0 .. pos - 1 : \A k \in 1 .. LengthAs(pack_class, buf, i) :
            Xor[Packet[start[i] + k]][Noise(start[i] + k)] = buf[(Row(i) + k) - 1]
  BY <1>2, PacketLayout
<1> SUFFICES ASSUME pc' = "air"
             PROVE  \E s, p : Received(s, p)'
  BY <1>1 DEF AirInv
<1>4. PICK s : s = start
  OBVIOUS
<1> HIDE DEF start
<1>5. AirAs(s, 0)'
  BY <1>1, <1>3, <1>4 DEF AirAs
<1>6. RowsRead' /\ AtRow(s)' /\ Genuine'
  <2>1. s[0] = 0 /\ 0 \in 0 .. pos
    BY <1>2, <1>3, <1>4 DEF Layout
  <2> QED
    BY <1>1, <1>2, <2>1 DEF RowsRead, AtRow, Genuine
<1>7. Sound'
  <2>1. SubSeq(added, 1, 0) = <<>>
    BY <1>2
  <2> QED
    BY <1>1, <1>2, <2>1 DEF Sound
<1>8. Received(s, 0)'
  BY <1>5, <1>6, <1>7 DEF Received, ReceiverInv
<1> QED
  BY <1>8

LEMMA CodedByte ==
    ASSUME NEW whole \in Seq(Byte), NEW class, NEW i \in 1 .. Len(whole)
    PROVE  CodedAs(class, whole)[i] = IF i = 1 /\ class = "FOREGROUND" THEN (whole[1] + 2) % 256
                                      ELSE whole[i]
BY CodedAsType, CopyAsType

\* A row as long as it says it is holds a frame of a length that fits.
LEMMA RowSize ==
    ASSUME TypeInv, SenderInv, NEW w \in 0 .. pos - 1, added[w + 1] # <<>>
    PROVE  /\ Len(added[w + 1]) \in Nat /\ added[w + 1] \in Seq(Byte) /\ w + 1 \in 1 .. pos
           /\ Foreground => /\ LengthAs(pack_class, buf, w) = (Len(added[w + 1]) + 2) % 256
                            /\ Len(added[w + 1]) \in 1 .. 255
                            /\ added[w + 1][1] = Len(added[w + 1])
           /\ ~Foreground => LengthAs(pack_class, buf, w) = 7 /\ Len(added[w + 1]) = 5
<1> DEFINE whole == added[w + 1]
<1>1. w + 1 \in 1 .. pos /\ whole \in Seq(Byte) /\ pos \in Nat
  BY FramesType DEF TypeInv
<1>2. Len(whole) \in Nat /\ Len(whole) >= 1
  BY <1>1
<1>3. AddedAs(pack_class, whole, home)
  BY <1>1 DEF SenderInv, AddedInv
<1>4. CASE Foreground
  <2>1. Len(whole) <= 255 /\ whole[1] = Len(whole)
    BY <1>3, <1>4 DEF AddedAs, Foreground
  <2>2. CodedAs(pack_class, whole)[1] = (Len(whole) + 2) % 256
    <3>1. 1 \in 1 .. Len(whole)
      BY <1>2
    <3> HIDE DEF whole
    <3> QED
      BY <1>1, <1>4, <2>1, <3>1, CodedByte DEF Foreground
  <2>3. buf[(Row(w) + 1) - 1] = CodedAs(pack_class, whole)[1]
    <3>1. 1 \in 1 .. 255 /\ 1 <= Len(whole) + 2
      BY <1>2
    <3> QED
      BY <3>1 DEF SenderInv, RowsInv
  <2>4. (Row(w) + 1) - 1 = Row(w)
    <3>1. w \in 0 .. N_FRAMES - 1
      BY FramesType DEF TypeInv
    <3> QED
      BY <3>1, RowPlace
  <2>5. LengthAs(pack_class, buf, w) = (Len(whole) + 2) % 256
    <3>1. LengthAs(pack_class, buf, w) = buf[Row(w)]
      BY <1>4 DEF LengthAs, Foreground
    <3> HIDE DEF whole
    <3> QED
      BY <2>2, <2>3, <2>4, <3>1
  <2>6. Len(whole) \in 1 .. 255
    <3> DEFINE n == Len(whole)
    <3>1. n \in Nat /\ 1 <= n /\ n <= 255
      BY <1>2, <2>1
    <3> HIDE DEF n
    <3>2. n \in 1 .. 255
      BY <3>1
    <3> QED
      BY <3>2 DEF n
  <2> QED
    BY <1>1, <1>2, <1>4, <2>1, <2>5, <2>6
<1>5. CASE ~Foreground
  BY <1>1, <1>2, <1>3, <1>5 DEF AddedAs, LengthAs, Foreground, BG_CRC_SIZE
<1> QED
  BY <1>4, <1>5

LEMMA LengthWraps ==
    ASSUME NEW n \in 1 .. 255
    PROVE  /\ (n + 2) % 256 >= 8 => n \in 6 .. 253 /\ (n + 2) % 256 = n + 2
           /\ n \in 6 .. 253 => (n + 2) % 256 = n + 2
OBVIOUS

LEMMA RowWhole ==
    ASSUME TypeInv, SenderInv, NEW w \in 0 .. pos - 1, added[w + 1] # <<>>,
           Foreground => LengthAs(pack_class, buf, w) >= 8
    PROVE  /\ LengthAs(pack_class, buf, w) = Len(added[w + 1]) + 2
           /\ Foreground => Len(added[w + 1]) \in 6 .. 253
           /\ ~Foreground => Len(added[w + 1]) = 5
<1>1. CASE Foreground
  <2>1. /\ LengthAs(pack_class, buf, w) = (Len(added[w + 1]) + 2) % 256
        /\ Len(added[w + 1]) \in 1 .. 255
    BY <1>1, RowSize
  <2> DEFINE n == Len(added[w + 1])
  <2>2. n \in 1 .. 255 /\ (n + 2) % 256 >= 8
    BY <1>1, <2>1
  <2> HIDE DEF n
  <2>3. n \in 6 .. 253 /\ (n + 2) % 256 = n + 2
    BY <2>2, LengthWraps
  <2>4. LengthAs(pack_class, buf, w) = n + 2
    BY <2>1, <2>3 DEF n
  <2> QED
    BY <1>1, <2>3, <2>4 DEF n
<1>2. CASE ~Foreground
  <2>1. LengthAs(pack_class, buf, w) = 7 /\ Len(added[w + 1]) = 5
    BY <1>2, RowSize
  <2> QED
    BY <1>2, <2>1
<1> QED
  BY <1>1, <1>2

LEMMA FitsRow ==
    ASSUME TypeInv, SenderInv, Fits, NEW w \in 0 .. pos - 1
    PROVE  /\ added[w + 1] # <<>>
           /\ Foreground => LengthAs(pack_class, buf, w) >= 8
           /\ LengthAs(pack_class, buf, w) >= 7
<1>1. w + 1 \in DOMAIN added /\ added[w + 1] \in Seq(Byte)
  BY FramesType DEF TypeInv
<1>2. Len(added[w + 1]) \in (IF Foreground THEN 6 ELSE 5) .. 253
  BY <1>1 DEF Fits
<1>3. added[w + 1] # <<>>
  BY <1>1, <1>2
<1>4. CASE Foreground
  <2>1. /\ LengthAs(pack_class, buf, w) = (Len(added[w + 1]) + 2) % 256
        /\ Len(added[w + 1]) \in 1 .. 255
    BY <1>3, <1>4, RowSize
  <2> DEFINE n == Len(added[w + 1])
             length == LengthAs(pack_class, buf, w)
  <2>2. n \in 6 .. 253
    BY <1>2, <1>4
  <2> HIDE DEF n, length
  <2>3. length = n + 2
    BY <2>1, <2>2, LengthWraps DEF n, length
  <2>4. length >= 8 /\ length >= 7
    BY <2>2, <2>3
  <2> QED
    BY <1>3, <2>4 DEF length
<1>5. CASE ~Foreground
  <2>1. LengthAs(pack_class, buf, w) = 7
    BY <1>3, <1>5, RowSize
  <2> QED
    BY <1>3, <1>5, <2>1
<1> QED
  BY <1>4, <1>5

\* The row that begins where the receiver is, and holds something.
LEMMA NextRow ==
    ASSUME buf \in Buffer, pos \in 0 .. N_FRAMES, NEW start,
           Layout(start, pack_class, buf, pos), NEW m \in 0 .. pos, start[m] # start[pos]
    PROVE  \E w \in 0 .. pos - 1 :
              /\ start[w] = start[m] /\ start[w + 1] # start[w]
              /\ m < pos /\ (LengthAs(pack_class, buf, m) > 0 => w = m)
<1> DEFINE T == {i \in 1 .. pos : m < i /\ start[i] # start[m]}
<1>1. m < pos /\ pos \in Nat
  BY FramesType
<1>2. pos \in T /\ T \subseteq Nat /\ T # {}
  BY <1>1
<1>3. PICK t \in T : \A i \in T : t <= i
  <2> HIDE DEF T
  <2> QED
    BY <1>2, Smallest
<1>4. t - 1 \in 0 .. pos - 1 /\ (t - 1) + 1 = t /\ start[t] # start[m]
  BY <1>1, <1>3
<1>5. start[t - 1] = start[m]
  <2>1. CASE t - 1 = m
    BY <2>1
  <2>2. CASE t - 1 # m
    <3>1. t - 1 \notin T /\ t - 1 \in 1 .. pos /\ m < t - 1
      BY <1>1, <1>3, <2>2
    <3> QED
      BY <3>1
  <2> QED
    BY <2>1, <2>2
<1>6. ASSUME LengthAs(pack_class, buf, m) > 0 PROVE t - 1 = m
  <2>1. m + 1 \in 1 .. pos /\ (m + 1) - 1 = m
    BY <1>1
  <2>2. start[m + 1] = start[m] + LengthAs(pack_class, buf, m)
    BY <2>1 DEF Layout
  <2>3. start[m] \in Nat /\ start[m + 1] \in Nat
    BY <2>1 DEF Layout
  <2>4. LengthAs(pack_class, buf, m) \in 0 .. 255
    <3>1. m \in 0 .. N_FRAMES - 1
      BY <1>1, FramesType
    <3> QED
      BY <3>1, LengthAsType
  <2>5. start[m + 1] # start[m]
    BY <1>6, <2>2, <2>3, <2>4
  <2>6. m + 1 \in T
    BY <2>1, <2>5
  <2>7. t <= m + 1 /\ m < t /\ t \in Nat
    BY <1>3, <2>6
  <2> QED
    BY <2>7
<1> HIDE DEF T
<1> QED
  BY <1>1, <1>4, <1>5, <1>6

LEMMA SameSeq ==
    ASSUME NEW s \in Seq(Byte), NEW t \in Seq(Byte), Len(s) = Len(t),
           \A i \in 1 .. Len(s) : s[i] = t[i]
    PROVE  s = t
<1>1. s = [i \in 1 .. Len(s) |-> s[i]] /\ t = [i \in 1 .. Len(t) |-> t[i]]
  OBVIOUS
<1> QED
  BY <1>1

LEMMA CopyBack ==
    ASSUME NEW class, NEW whole \in Seq(Byte), Len(whole) >= 1,
           class = "FOREGROUND" => (whole[1] + 2) % 256 = whole[1] + 2
    PROVE  (IF class = "FOREGROUND" THEN [CopyAs(class, whole) EXCEPT ![1] = @ - 2]
            ELSE CopyAs(class, whole)) = whole
<1>1. CASE class = "FOREGROUND"
  <2> DEFINE copy == CopyAs(class, whole)
  <2>1. /\ copy \in Seq(Byte) /\ Len(copy) = Len(whole)
        /\ \A i \in 1 .. Len(whole) : copy[i] = IF i = 1 THEN (whole[1] + 2) % 256 ELSE whole[i]
    BY <1>1, CopyAsType
  <2> HIDE DEF copy
  <2>2. DOMAIN copy = 1 .. Len(whole) /\ DOMAIN whole = 1 .. Len(whole) /\ 1 \in 1 .. Len(whole)
    BY <2>1
  <2>3. whole[1] \in Int /\ copy[1] - 2 = whole[1]
    <3>1. whole[1] \in Byte
      BY <2>2
    <3>2. whole[1] \in Int
      BY <3>1, ByteRange
    <3>3. copy[1] = whole[1] + 2
      BY <1>1, <2>1, <2>2
    <3> QED
      BY <3>2, <3>3
  <2>4. [copy EXCEPT ![1] = @ - 2] = [i \in 1 .. Len(whole) |-> IF i = 1 THEN copy[1] - 2 ELSE copy[i]]
    BY <2>2
  <2>5. whole = [i \in 1 .. Len(whole) |-> whole[i]]
    OBVIOUS
  <2>6. \A i \in 1 .. Len(whole) : (IF i = 1 THEN copy[1] - 2 ELSE copy[i]) = whole[i]
    BY <2>1, <2>3
  <2>7. [copy EXCEPT ![1] = @ - 2] = whole
    BY <2>4, <2>5, <2>6
  <2> QED
    BY <1>1, <2>7 DEF copy
<1>2. CASE class # "FOREGROUND"
  BY <1>2 DEF CopyAs
<1> QED
  BY <1>1, <1>2

\* A row is taken out as the frame that was added, or its CRC does not match.
LEMMA DecodeRow ==
    ASSUME TypeInv, SenderInv, rpos \in 0 .. N_FRAMES - 1, NEW m \in 0 .. pos - 1, NEW q \in Int,
           Copied(rpos, m, q)
    PROVE  /\ m + 1 \in DOMAIN added
           /\ Crc(FrameBytes) = CrcGiven => FrameGot = added[m + 1]
           /\ q = 0 => Crc(FrameBytes) = CrcGiven
<1> DEFINE whole == added[m + 1]
           n == Len(whole)
           copy == CopyAs(pack_class, whole)
           coded == CodedAs(pack_class, whole)
           crc == Crc(copy)
           at == Row(rpos)
<1>1. m + 1 \in 1 .. pos /\ m + 1 \in DOMAIN added /\ whole \in Seq(Byte)
  BY FramesType DEF TypeInv
<1>2. AddedAs(pack_class, whole, home)
  BY <1>1 DEF SenderInv, AddedInv
<1>3. n \in Nat /\ 5 <= n /\ n <= 253 /\ (Foreground => 6 <= n) /\ (~Foreground => n = 5)
  <2>1. CASE Foreground
    <3>1. n \in 6 .. 253
      BY <2>1 DEF Copied
    <3> HIDE DEF n
    <3> QED
      BY <2>1, <3>1
  <2>2. CASE ~Foreground
    <3>1. n = 5
      BY <2>2 DEF Copied
    <3> HIDE DEF n
    <3> QED
      BY <2>2, <3>1
  <2> QED
    BY <2>1, <2>2
<1>4. Foreground => q # 1
  BY DEF Copied
<1>5. \A i \in 1 .. n + 2 : i # q => rbuf[(at + i) - 1] = coded[i]
  BY DEF Copied
<1>6. Foreground => whole[1] = n /\ (n + 2) % 256 = n + 2
  <2>1. ASSUME Foreground PROVE whole[1] = n
    <3>1. whole # <<>>
      BY <1>3
    <3> QED
      BY <1>2, <2>1, <3>1 DEF AddedAs, Foreground
  <2>2. ASSUME Foreground PROVE (n + 2) % 256 = n + 2
    <3> HIDE DEF n
    <3>1. n + 2 \in Nat /\ n + 2 < 256
      BY <1>3
    <3> QED
      BY <3>1
  <2> QED
    BY <2>1, <2>2
<1>7. /\ copy \in Seq(Byte) /\ Len(copy) = n
      /\ \A i \in 1 .. n : coded[i] = copy[i]
      /\ coded[n + 1] = crc \div 256 /\ coded[n + 2] = crc % 256
  <2> HIDE DEF whole
  <2>1. copy \in Seq(Byte) /\ Len(copy) = n
    BY <1>1, CopyAsType
  <2> QED
    BY <1>1, <2>1, CodedAsType
<1>8. crc \in Word
  <2> HIDE DEF copy
  <2> QED
    BY <1>7, CrcType
<1>9. Foreground => coded[1] = n + 2
  <2> SUFFICES ASSUME Foreground PROVE coded[1] = n + 2
    OBVIOUS
  <2>1. 1 \in 1 .. Len(whole)
    BY <1>3
  <2>2. coded[1] = (whole[1] + 2) % 256
    <3> HIDE DEF whole
    <3> QED
      BY <1>1, <2>1, CodedByte DEF Foreground
  <2> QED
    BY <1>6, <2>2
<1> HIDE DEF whole
<1>10. at \in Nat
  BY RowPlace
<1> HIDE DEF n, copy, coded, crc, at
<1>11. FrameEnd = n
  <2>1. CASE Foreground
    <3>1. 1 \in 1 .. n + 2 /\ (at + 1) - 1 = at /\ 1 # q
      BY <1>3, <1>4, <1>10, <2>1
    <3>2. rbuf[at] = n + 2
      BY <1>5, <1>9, <2>1, <3>1
    <3>3. FrameEnd = rbuf[at] - 2
      BY <2>1 DEF FrameEnd, at
    <3> QED
      BY <1>3, <3>2, <3>3
  <2>2. CASE ~Foreground
    BY <1>3, <2>2 DEF FrameEnd, BG_FRAME_SIZE
  <2> QED
    BY <2>1, <2>2
<1>12. /\ FrameBytes \in Seq(Byte) /\ Len(FrameBytes) = n
       /\ \A i \in 1 .. n : FrameBytes[i] = rbuf[(at + i) - 1]
  <2>1. /\ FrameBytes \in Seq(Byte) /\ (FrameEnd \in Nat => Len(FrameBytes) = FrameEnd)
        /\ \A i \in 1 .. FrameEnd : FrameBytes[i] = rbuf[(Row(rpos) + i) - 1]
    BY FrameOut DEF FrameBytes, FrameEnd
  <2> QED
    BY <1>3, <1>11, <2>1 DEF at
<1>13. \A i \in 1 .. n : i # q => FrameBytes[i] = copy[i]
  <2> SUFFICES ASSUME NEW i \in 1 .. n, i # q PROVE FrameBytes[i] = copy[i]
    OBVIOUS
  <2>1. i \in 1 .. n + 2
    BY <1>3
  <2> QED
    BY <1>5, <1>7, <1>12, <2>1
<1>14. q \notin {n + 1, n + 2} => CrcGiven = crc
  <2> SUFFICES ASSUME q # n + 1, q # n + 2 PROVE CrcGiven = crc
    OBVIOUS
  <2>1. n + 1 \in 1 .. n + 2 /\ (at + (n + 1)) - 1 = at + n
    BY <1>3, <1>10
  <2>2. n + 2 \in 1 .. n + 2 /\ (at + (n + 2)) - 1 = at + n + 1
    BY <1>3, <1>10
  <2>3. rbuf[at + n] = crc \div 256
    BY <1>5, <1>7, <2>1
  <2>4. rbuf[at + n + 1] = crc % 256
    BY <1>5, <1>7, <2>2
  <2>5. CrcGiven = (crc \div 256) * 256 + (crc % 256)
    BY <1>11, <2>3, <2>4 DEF CrcGiven, at
  <2>6. crc = 256 * (crc \div 256) + (crc % 256) /\ crc \div 256 \in Byte /\ crc % 256 \in Byte
    BY <1>8, Halves
  <2>7. crc \div 256 \in Int /\ crc % 256 \in Int
    BY <2>6, ByteRange
  <2> QED
    BY <2>5, <2>6, <2>7
<1>15. CASE q \in 1 .. n /\ FrameBytes[q] # copy[q]
  <2>1. AgreeBut(FrameBytes, copy, q)
    BY <1>7, <1>12, <1>13 DEF AgreeBut
  <2>2. Len(FrameBytes) <= 255 /\ q \in 1 .. Len(FrameBytes)
    BY <1>3, <1>12, <1>15
  <2>3. Crc(FrameBytes) # crc
    BY <1>7, <1>12, <1>15, <2>1, <2>2, CrcDetects DEF crc
  <2>4. q \notin {n + 1, n + 2} /\ q # 0
    BY <1>3, <1>15
  <2> QED
    BY <1>1, <1>14, <2>3, <2>4
<1>16. CASE ~(q \in 1 .. n /\ FrameBytes[q] # copy[q])
  <2>1. \A i \in 1 .. n : FrameBytes[i] = copy[i]
    BY <1>13, <1>16
  <2>2. FrameBytes = copy
    BY <1>7, <1>12, <2>1, SameSeq
  <2>3. FrameGot = whole
    <3>1. Len(whole) >= 1
      BY <1>3 DEF n
    <3>2. pack_class = "FOREGROUND" => (whole[1] + 2) % 256 = whole[1] + 2
      BY <1>6 DEF Foreground
    <3> QED
      BY <1>1, <2>2, <3>1, <3>2, CopyBack DEF FrameGot, Foreground, copy
  <2>4. q = 0 => Crc(FrameBytes) = CrcGiven
    <3>1. q = 0 => q \notin {n + 1, n + 2}
      BY <1>3
    <3> QED
      BY <1>14, <2>2, <3>1 DEF crc
  <2> QED
    BY <1>1, <2>3, <2>4 DEF whole
<1> QED
  BY <1>15, <1>16

\* Row w of the sender is what the receiver has before it.
Ahead(p, w) ==
    /\ w \in 0 .. pos - 1
    /\ Size = LengthAs(pack_class, buf, w) /\ Size <= Len(Rest)
    /\ \A k \in 1 .. Size : k # p - read => Rest[k] = buf[(Row(w) + k) - 1]
    /\ Foreground => Rest[1] = buf[Row(w)]

LEMMA RowAhead ==
    ASSUME TypeInv, NEW start, NEW p \in Nat, AirAs(start, p), Intact(start),
           NEW m \in 0 .. pos, read = start[m], start[m] # start[pos]
    PROVE  \E w \in 0 .. pos - 1 :
              /\ Ahead(p, w) /\ start[w + 1] = read + Size
              /\ m < pos /\ (LengthAs(pack_class, buf, m) > 0 => w = m)
<1>1. buf \in Buffer /\ pos \in 0 .. N_FRAMES /\ Layout(start, pack_class, buf, pos)
      /\ Len(air) = start[pos]
  BY DEF TypeInv, AirAs
<1>2. PICK w \in 0 .. pos - 1 :
              /\ start[w] = start[m] /\ start[w + 1] # start[w]
              /\ m < pos /\ (LengthAs(pack_class, buf, m) > 0 => w = m)
  BY <1>1, NextRow
<1> DEFINE length == LengthAs(pack_class, buf, w)
<1>3. /\ w + 1 \in 1 .. pos /\ w + 1 \in 0 .. pos /\ pos \in 0 .. pos /\ (w + 1) - 1 = w
      /\ w \in 0 .. N_FRAMES - 1 /\ w \in 0 .. pos
  BY <1>1, FramesType
<1>4. length \in 0 .. 255
  BY <1>1, <1>3, LengthAsType
<1>5. start[w + 1] = read + length
  BY <1>1, <1>2, <1>3 DEF Layout
<1>6. start[w + 1] <= start[pos]
  BY <1>1, <1>3, LayoutGrows
<1>7. start[w] \in Nat /\ start[w + 1] \in Nat /\ start[pos] \in Nat /\ read \in Nat
  BY <1>1, <1>2, <1>3 DEF Layout
<1> HIDE DEF length
<1>8. /\ Rest \in Seq(Byte) /\ Len(Rest) = Len(air) - read
      /\ \A k \in 1 .. Len(Rest) : Rest[k] = Xor[air[read + k]][Noise(read + k)]
  BY RestType DEF TypeInv
<1> DEFINE left == Len(Rest)
<1>9. 1 <= length /\ length <= left /\ left \in Nat
  <2>1. left = Len(air) - read
    BY <1>8
  <2>2. left \in Nat
    BY <1>8
  <2> HIDE DEF left
  <2>3. left = start[pos] - read
    BY <1>1, <2>1
  <2>4. length \in Int /\ 0 <= length
    BY <1>4
  <2>5. length # 0
    BY <1>2, <1>5, <1>7
  <2> QED
    BY <1>5, <1>6, <1>7, <2>2, <2>3, <2>4, <2>5
<1>14. DOMAIN Rest = 1 .. left
  BY <1>8
<1>15. \A k \in 1 .. left : Rest[k] = Xor[air[read + k]][Noise(read + k)]
  BY <1>8
<1>16. left >= 1 => Rest # <<>>
  BY <1>8
<1> HIDE DEF left
<1>10. ASSUME NEW k \in 1 .. length, k # p - read PROVE Rest[k] = buf[(Row(w) + k) - 1]
  <2>1. k \in 1 .. left /\ start[w] + k # p
    BY <1>2, <1>4, <1>7, <1>9, <1>10
  <2>2. Xor[air[start[w] + k]][Noise(start[w] + k)] = buf[(Row(w) + k) - 1]
    BY <2>1 DEF AirAs, length
  <2> QED
    BY <1>2, <1>15, <2>1, <2>2
<1>11. Foreground => Rest[1] = buf[Row(w)] /\ length = buf[Row(w)]
  <2> SUFFICES ASSUME Foreground PROVE Rest[1] = buf[Row(w)] /\ length = buf[Row(w)]
    OBVIOUS
  <2>1. length = buf[Row(w)]
    BY DEF length, LengthAs, Foreground
  <2>2. buf[Row(w)] # 0 /\ 1 \in 1 .. left
    BY <1>4, <1>9, <2>1
  <2>3. Xor[air[start[w] + 1]][Noise(start[w] + 1)] = buf[Row(w)]
    BY <2>2 DEF Intact
  <2> QED
    BY <1>2, <1>15, <2>1, <2>2, <2>3
<1>12. Size = length
  <2>1. CASE Foreground
    <3>1. Rest # <<>>
      BY <1>4, <1>9, <1>16
    <3> QED
      BY <1>11, <2>1, <3>1 DEF Size
  <2>2. CASE ~Foreground
    BY <2>2 DEF Size, length, LengthAs, Foreground
  <2> QED
    BY <2>1, <2>2
<1>13. Ahead(p, w)
  BY <1>9, <1>10, <1>11, <1>12 DEF Ahead, length, left
<1> QED
  BY <1>2, <1>5, <1>12, <1>13

LEMMA PutRow ==
    ASSUME rbuf \in Buffer, filled \in 0 .. N_FRAMES - 1, NEW bytes \in Seq(Byte),
           NEW f \in 0 .. filled, NEW i \in 1 .. 255
    PROVE  /\ f < filled => Put(rbuf, Row(filled), bytes)[(Row(f) + i) - 1] = rbuf[(Row(f) + i) - 1]
           /\ f = filled /\ i <= Len(bytes) =>
                Put(rbuf, Row(filled), bytes)[(Row(f) + i) - 1] = bytes[i]
<1> DEFINE n == N_FRAMES * FRAME_SIZE + 1
           k == (Row(f) + i) - 1
<1>1. f \in 0 .. N_FRAMES - 1 /\ f \in Nat /\ filled \in Nat
  BY FramesType
<1>2. /\ Row(f) \in Nat /\ Row(f) = 255 * f /\ Row(f) + 255 <= n /\ n \in Nat
      /\ Row(filled) \in Nat /\ Row(filled) = 255 * filled
  BY <1>1, RowPlace, BufferSize
<1>3. rbuf \in Array(n) /\ Len(bytes) \in Nat
  BY DEF Buffer
<1> HIDE DEF n
<1>4. k \in 0 .. n
  BY <1>2
<1>5. /\ f < filled => k < Row(filled)
      /\ f = filled => Row(filled) <= k /\ (k - Row(filled)) + 1 = i /\ k = (Row(filled) + i) - 1
  BY <1>1, <1>2
<1> HIDE DEF k
<1>6. Put(rbuf, Row(filled), bytes)[k] =
        IF Row(filled) <= k /\ k < Row(filled) + Len(bytes) THEN bytes[(k - Row(filled)) + 1] ELSE rbuf[k]
  BY <1>2, <1>3, <1>4, PutType
<1>7. k \in Int
  BY <1>2 DEF k
<1>8. f < filled => Put(rbuf, Row(filled), bytes)[k] = rbuf[k]
  BY <1>2, <1>5, <1>6, <1>7
<1>9. f = filled /\ i <= Len(bytes) => Put(rbuf, Row(filled), bytes)[k] = bytes[i]
  BY <1>2, <1>3, <1>5, <1>6, <1>7
<1> QED
  BY <1>8, <1>9 DEF k

\* The frame in a row that is not broken.
LEMMA AheadWhole ==
    ASSUME TypeInv, SenderInv, NEW p \in Nat, NEW w \in 0 .. pos - 1, Ahead(p, w), ~Broken,
           added[w + 1] # <<>>
    PROVE  /\ added[w + 1] \in Seq(Byte) /\ Len(added[w + 1]) \in Nat
           /\ Size = Len(added[w + 1]) + 2 /\ Size <= 255 /\ Len(added[w + 1]) >= 5
           /\ Foreground => Len(added[w + 1]) \in 6 .. 253
           /\ ~Foreground => Len(added[w + 1]) = 5
           /\ Taken \in Seq(Byte) /\ Len(Taken) = Size /\ \A i \in 1 .. Size : Taken[i] = Rest[i]
<1> DEFINE n == Len(added[w + 1])
<1>1. /\ added[w + 1] \in Seq(Byte) /\ n \in Nat
  BY RowSize
<1>2. Size = LengthAs(pack_class, buf, w) /\ Size <= Len(Rest)
  BY DEF Ahead
<1>3. Foreground => LengthAs(pack_class, buf, w) >= 8
  <2>1. Size \in 0 .. 255
    BY TakenType
  <2>2. Foreground => ~(Size < 8)
    BY DEF Broken, BadSize
  <2> QED
    BY <1>2, <2>1, <2>2
<1>4. /\ LengthAs(pack_class, buf, w) = n + 2
      /\ Foreground => n \in 6 .. 253
      /\ ~Foreground => n = 5
  BY <1>3, RowWhole
<1>5. Wanted = Size
  BY DEF Wanted, Broken
<1>6. /\ Size \in 0 .. 255 /\ Taken \in Seq(Byte)
      /\ Len(Taken) = IF Len(Rest) < Wanted THEN Len(Rest) ELSE Wanted
      /\ \A i \in 1 .. Len(Taken) : Taken[i] = Rest[i]
  BY TakenType
<1>7. Len(Rest) \in Nat
  BY RestType DEF TypeInv
<1> HIDE DEF n
<1>8. Size = n + 2 /\ Size <= 255 /\ n >= 5
  <2>1. n \in Nat
    BY <1>1 DEF n
  <2>2. n >= 5
    <3>1. CASE Foreground
      <4>1. n \in 6 .. 253
        BY <1>4, <3>1
      <4> QED
        BY <4>1
    <3>2. CASE ~Foreground
      <4>1. n = 5
        BY <1>4, <3>2
      <4> QED
        BY <4>1
    <3> QED
      BY <3>1, <3>2
  <2>3. Size = n + 2
    BY <1>2, <1>4
  <2>4. Size <= 255
    BY <1>6
  <2> QED
    BY <2>2, <2>3, <2>4
<1>9. Len(Taken) = Size
  BY <1>2, <1>5, <1>6, <1>7
<1> QED
  BY <1>1, <1>4, <1>6, <1>8, <1>9 DEF n

LEMMA ReadCopied ==
    ASSUME TypeInv, SenderInv, ReadFrame, RowsRead, NEW p \in Nat, NEW w \in 0 .. pos - 1,
           Ahead(p, w), ~Broken, added[w + 1] # <<>>, Fits => w = filled, ~damaged => p = 0,
           NEW f \in 0 .. filled
    PROVE  CopiedRow(f)'
<1>1. /\ pc = "air" /\ rbuf' = Put(rbuf, Row(filled), Taken)
      /\ UNCHANGED <<pack_class, added, pos, damaged>>
  BY ReadFrameIs DEF configured, sender
<1>2. rbuf \in Buffer /\ filled \in 0 .. N_FRAMES - 1 /\ Taken \in Seq(Byte) /\ pos \in Nat
  BY <1>1, TakenType, FramesType DEF TypeInv
<1>3. Fits' <=> Fits
  BY <1>1 DEF Fits, Foreground
<1>4. CASE f < filled
  <2>1. f \in 0 .. N_FRAMES - 1
    BY <1>2, FramesType
  <2>2. PICK m \in 0 .. pos - 1, q \in Int :
            Copied(f, m, q) /\ (Fits => m = f) /\ (~damaged => q = 0)
    BY <1>1, <1>4, <2>1, Zenon DEF RowsRead, CopiedRow
  <2> DEFINE n == Len(added[m + 1])
  <2>3. n <= 253 /\ n \in Int
    <3>1. CASE Foreground
      <4>1. n \in 6 .. 253
        BY <2>2, <3>1 DEF Copied
      <4>2. \A x \in 6 .. 253 : x <= 253 /\ x \in Int
        OBVIOUS
      <4> HIDE DEF n
      <4> QED
        BY <4>1, <4>2, Zenon
    <3>2. CASE ~Foreground
      <4>1. n = 5
        BY <2>2, <3>2 DEF Copied
      <4> HIDE DEF n
      <4> QED
        BY <4>1
    <3> QED
      BY <3>1, <3>2
  <2>4. ASSUME NEW i \in 1 .. Len(added[m + 1]) + 2, i # q
        PROVE  rbuf'[(Row(f) + i) - 1] = CodedAs(pack_class, added[m + 1])[i]
    <3>1. i \in 1 .. 255
      <4>1. i \in 1 .. n + 2
        OBVIOUS
      <4> HIDE DEF n
      <4> QED
        BY <2>3, <4>1
    <3>2. rbuf'[(Row(f) + i) - 1] = rbuf[(Row(f) + i) - 1]
      BY <1>1, <1>2, <1>4, <3>1, PutRow
    <3> QED
      BY <2>2, <2>4, <3>2 DEF Copied
  <2>5. Copied(f, m, q)'
    BY <1>1, <2>2, <2>4 DEF Copied, Foreground
  <2> QED
    BY <1>1, <1>3, <2>2, <2>5, Zenon DEF CopiedRow
<1>5. CASE f = filled
  <2>7. read \in Nat
    BY DEF TypeInv
  <2>1. PICK q \in Int : q = IF p = 0 \/ (Foreground /\ p - read = 1) THEN 0 ELSE p - read
    <3>1. (IF p = 0 \/ (Foreground /\ p - read = 1) THEN 0 ELSE p - read) \in Int
      BY <2>7
    <3> QED
      BY <3>1
  <2>2. /\ added[w + 1] \in Seq(Byte) /\ Len(added[w + 1]) \in Nat
        /\ Size = Len(added[w + 1]) + 2 /\ Size <= 255 /\ Len(added[w + 1]) >= 5
        /\ Foreground => Len(added[w + 1]) \in 6 .. 253
        /\ ~Foreground => Len(added[w + 1]) = 5
        /\ Taken \in Seq(Byte) /\ Len(Taken) = Size /\ \A i \in 1 .. Size : Taken[i] = Rest[i]
    BY AheadWhole
  <2>3. Foreground => q # 1
    BY <2>1, <2>7
  <2>4. ASSUME NEW i \in 1 .. Len(added[w + 1]) + 2, i # q
        PROVE  rbuf'[(Row(f) + i) - 1] = CodedAs(pack_class, added[w + 1])[i]
    <3>1. i \in 1 .. 255 /\ i \in 1 .. Size /\ i <= Len(Taken) /\ i <= Len(added[w + 1]) + 2
      <4> DEFINE n == Len(added[w + 1])
                 size == Size
                 taken == Len(Taken)
      <4>1. i \in 1 .. n + 2 /\ n \in Nat /\ size = n + 2 /\ size <= 255 /\ taken = size
        BY <2>2
      <4> HIDE DEF n, size, taken
      <4>2. i \in 1 .. 255 /\ i \in 1 .. size /\ i <= taken /\ i <= n + 2
        BY <4>1
      <4> QED
        BY <4>2 DEF n, size, taken
    <3>2. rbuf'[(Row(f) + i) - 1] = Rest[i]
      BY <1>1, <1>2, <1>5, <2>2, <3>1, PutRow
    <3>3. Rest[i] = buf[(Row(w) + i) - 1]
      <4>1. CASE i # p - read
        BY <3>1, <4>1 DEF Ahead
      <4>2. CASE i = p - read
        <5>1. Foreground /\ i = 1
          BY <2>1, <2>4, <2>7, <4>2
        <5>2. (Row(w) + 1) - 1 = Row(w)
          <6>1. w \in 0 .. N_FRAMES - 1
            BY FramesType DEF TypeInv
          <6> QED
            BY <6>1, RowPlace
        <5> QED
          BY <5>1, <5>2 DEF Ahead
      <4> QED
        BY <4>1, <4>2
    <3>4. buf[(Row(w) + i) - 1] = CodedAs(pack_class, added[w + 1])[i]
      BY <3>1 DEF SenderInv, RowsInv
    <3> QED
      BY <3>2, <3>3, <3>4
  <2>5. Copied(f, w, q)'
    BY <1>1, <2>2, <2>3, <2>4 DEF Copied, Foreground
  <2>6. (Fits => w = f) /\ (~damaged => q = 0)
    BY <1>5, <2>1
  <2> QED
    BY <1>1, <1>3, <2>5, <2>6, Zenon DEF CopiedRow
<1> QED
  BY <1>2, <1>4, <1>5

\* The flags of the last row taken say whether another follows.
LEMMA ContIs ==
    ASSUME TypeInv, SenderInv, pc = "air", NEW w \in 0 .. pos - 1, Ahead(0, w), ~Broken,
           added[w + 1] # <<>>
    PROVE  Cont <=> w + 1 < pos
<1>1. /\ added[w + 1] \in Seq(Byte) /\ Len(added[w + 1]) \in Nat
      /\ Size = Len(added[w + 1]) + 2 /\ Size <= 255 /\ Len(added[w + 1]) >= 5
      /\ Foreground => Len(added[w + 1]) \in 6 .. 253
      /\ ~Foreground => Len(added[w + 1]) = 5
      /\ Taken \in Seq(Byte) /\ Len(Taken) = Size /\ \A i \in 1 .. Size : Taken[i] = Rest[i]
  <2>1. 0 \in Nat
    OBVIOUS
  <2> QED
    BY <2>1, AheadWhole
<1>2. w + 1 \in 1 .. pos /\ pos \in Nat
  BY FramesType DEF TypeInv
<1> DEFINE n == Len(added[w + 1])
<1>5. n \in Nat /\ n >= 5 /\ Size = n + 2
  BY <1>1
<1>6. read \in Nat
  BY DEF TypeInv
<1>7. added[w + 1] \in Seq(Byte)
  BY <1>1
<1> HIDE DEF n
<1>8. /\ 4 \in 1 .. Size /\ 4 # 0 - read /\ 4 \in 1 .. 255 /\ 4 <= n + 2 /\ 4 \in 1 .. n
      /\ 4 <= n /\ n >= 4
  BY <1>5, <1>6
<1>3. CASE Foreground
  <2>1. Rest[4] = buf[(Row(w) + 4) - 1]
    BY <1>3, <1>8 DEF Ahead
  <2>2. buf[(Row(w) + 4) - 1] = CodedAs(pack_class, added[w + 1])[4]
    BY <1>8 DEF SenderInv, RowsInv, n
  <2>3. CodedAs(pack_class, added[w + 1])[4] = added[w + 1][4]
    <3>1. 4 \in 1 .. Len(added[w + 1])
      BY <1>8 DEF n
    <3>2. CodedAs(pack_class, added[w + 1])[4] =
            IF 4 = 1 /\ pack_class = "FOREGROUND" THEN (added[w + 1][1] + 2) % 256
            ELSE added[w + 1][4]
      BY <1>7, <3>1, CodedByte
    <3> QED
      BY <3>2
  <2>4. Cont <=> Announced(w + 1)
    <3>1. Rest[4] = added[w + 1][4]
      BY <2>1, <2>2, <2>3
    <3> QED
      BY <1>3, <3>1, Zenon DEF Cont, Announced
  <2>5. Len(added[w + 1]) >= 4
    BY <1>8 DEF n
  <2>6. /\ w + 1 < pos => Announced(w + 1)
        /\ w + 1 = pos => ~Announced(w + 1)
    <3>1. pc \in Sending
      BY DEF Sending
    <3> QED
      BY <1>2, <1>3, <2>5, <3>1 DEF SenderInv, AnnouncedInv
  <2>7. w + 1 < pos \/ (w + 1 = pos /\ ~(w + 1 < pos))
    BY <1>2
  <2> QED
    BY <2>4, <2>6, <2>7, Zenon
<1>4. CASE ~Foreground
  <2>1. pos = 1
    BY <1>4 DEF SenderInv, HeadInv, Building
  <2>2. ~Cont
    BY <1>4, Zenon DEF Cont
  <2> QED
    BY <1>2, <2>1, <2>2
<1> QED
  BY <1>3, <1>4

\* The subnet that data_listen looks at is the sender's.
LEMMA SubnetIs ==
    ASSUME TypeInv, SenderInv, UNCHANGED <<pack_class, home, added, pos, damaged>>,
           Fits, ~damaged, CopiedRow(0)'
    PROVE  rbuf'[IF Foreground THEN 2 ELSE 0] = home
<1>1. (Fits' <=> Fits) /\ (damaged' <=> damaged)
  BY DEF Fits, Foreground
<1>2. PICK m \in 0 .. pos - 1, q \in Int :
          Copied(0, m, q)' /\ (Fits' => m = 0) /\ (~damaged' => q = 0)
  BY DEF CopiedRow
<1>3. m = 0 /\ q = 0 /\ 0 + 1 = 1 /\ 0 \in 0 .. pos - 1
  BY <1>1, <1>2
<1> DEFINE whole == added[1]
<1>4. 1 \in 1 .. pos /\ whole \in Seq(Byte)
  BY <1>3, FramesType DEF TypeInv
<1>5. AddedAs(pack_class, whole, home)
  BY <1>4 DEF SenderInv, AddedInv
<1>6. Row(0) = 0
  BY DEF Row, FRAME_SIZE
<1>7. \A i \in 1 .. Len(whole) + 2 :
          i # 0 => rbuf'[(0 + i) - 1] = CodedAs(pack_class, whole)[i]
  BY <1>2, <1>3, <1>6 DEF Copied
<1>8. CASE Foreground
  <2>1. Len(whole) \in 6 .. 253
    BY <1>2, <1>3, <1>8 DEF Copied, Foreground
  <2>2. 3 \in 1 .. Len(whole) + 2 /\ 3 \in 1 .. Len(whole) /\ (0 + 3) - 1 = 2 /\ 3 # 0 /\ 3 # 1
        /\ Len(whole) >= 3
    <3> DEFINE n == Len(whole)
    <3>1. n \in 6 .. 253
      BY <2>1
    <3> HIDE DEF n
    <3>2. 3 \in 1 .. n + 2 /\ 3 \in 1 .. n /\ (0 + 3) - 1 = 2 /\ 3 # 0 /\ 3 # 1 /\ n >= 3
      BY <3>1
    <3> QED
      BY <3>2 DEF n
  <2>3. rbuf'[2] = CodedAs(pack_class, whole)[3]
    BY <1>7, <2>2
  <2> HIDE DEF whole
  <2>4. CodedAs(pack_class, whole)[3] = whole[3]
    BY <1>4, <2>2, CodedByte
  <2>5. whole[3] = home
    BY <1>5, <1>8, <2>2 DEF AddedAs, Foreground
  <2> QED
    BY <1>8, <2>3, <2>4, <2>5
<1>9. CASE ~Foreground
  <2>1. Len(whole) = 5 /\ whole[1] = home
    BY <1>5, <1>9 DEF AddedAs, Foreground
  <2>2. 1 \in 1 .. Len(whole) + 2 /\ 1 \in 1 .. Len(whole) /\ (0 + 1) - 1 = 0 /\ 1 # 0
    BY <2>1
  <2>3. rbuf'[0] = CodedAs(pack_class, whole)[1]
    BY <1>7, <2>2
  <2> HIDE DEF whole
  <2>4. CodedAs(pack_class, whole)[1] = whole[1]
    BY <1>4, <1>9, <2>2, CodedByte DEF Foreground
  <2> QED
    BY <1>9, <2>1, <2>3, <2>4
<1> QED
  BY <1>8, <1>9

LEMMA SubnetTaken ==
    ASSUME NEW ds \in Byte, NEW fs \in Byte
    PROVE  /\ fs \in {ds, 255} => SubnetVerify(ds, fs)
           /\ fs \div 16 \notin {15, ds \div 16} => ~SubnetVerify(ds, fs)
<1>1. ASSUME fs = ds PROVE SubnetVerify(ds, fs)
  BY <1>1 DEF SubnetVerify
<1>2. ASSUME fs = 255 PROVE SubnetVerify(ds, fs)
  <2>1. fs \div 16 = 15
    BY <1>2
  <2>2. \A weight \in {1, 2, 4, 8} : Bit(fs, weight)
    BY <1>2 DEF Bit
  <2> QED
    BY <2>1, <2>2 DEF SubnetVerify
<1>3. ASSUME fs \div 16 \notin {15, ds \div 16} PROVE ~SubnetVerify(ds, fs)
  BY <1>3 DEF SubnetVerify
<1> QED
  BY <1>1, <1>2, <1>3

\* A frame that fits is never broken off.
LEMMA FitsWhole ==
    ASSUME TypeInv, SenderInv, Fits, NEW p \in Nat, NEW w \in 0 .. pos - 1, Ahead(p, w)
    PROVE  ~Broken
<1>1. Foreground => LengthAs(pack_class, buf, w) >= 8
  BY FitsRow
<1>2. Size = LengthAs(pack_class, buf, w) /\ Size <= Len(Rest)
  BY DEF Ahead
<1>3. Size \in 0 .. 255 /\ Len(Rest) \in Nat
  BY TakenType, RestType DEF TypeInv
<1>4. ~BadSize
  BY <1>1, <1>2, <1>3 DEF BadSize
<1>5. ~(Len(Rest) < Size)
  BY <1>2, <1>3
<1> QED
  BY <1>4, <1>5, Zenon DEF Broken

LEMMA ReadSound ==
    ASSUME TypeInv, SenderInv, ReadFrame, Sound, NEW w \in 0 .. pos - 1, Ahead(0, w), ~Broken,
           added[w + 1] # <<>>, Fits, ~damaged, w = filled, CopiedRow(0)'
    PROVE  Sound'
<1>1. /\ pc = "air" /\ filled' = IF Over THEN (N_FRAMES + 1) % 256 ELSE filled + 1
      /\ pc' = IF Broken THEN "error"
               ELSE IF Cont /\ ~Over THEN "air"
               ELSE IF SubnetVerify(device, rbuf'[IF Foreground THEN 2 ELSE 0])
                 THEN "listened" ELSE "error"
      /\ UNCHANGED <<pack_class, home, device, added, pos, damaged, rpos, got>>
  BY ReadFrameIs DEF configured, sender
<1>2. Cont <=> filled + 1 < pos
  BY <1>1, ContIs
<1>3. filled \in Nat /\ filled < pos /\ pos \in Nat /\ pos <= N_FRAMES /\ N_FRAMES \in Nat
  BY FramesType DEF TypeInv
<1>4. ~Over
  <2>1. filled + 1 < pos => filled + 1 # N_FRAMES
    BY <1>3
  <2> QED
    BY <1>2, <2>1, Zenon DEF Over
<1>5. filled' = filled + 1
  BY <1>1, <1>4
<1>6. rbuf'[IF Foreground THEN 2 ELSE 0] = home
  BY <1>1, SubnetIs
<1>7. /\ pc' = "air" => filled + 1 < pos
      /\ pc' # "air" => ~(filled + 1 < pos)
      /\ pc' = "listened" => SubnetVerify(device, home) /\ ~(filled + 1 < pos)
      /\ pc' = "error" => ~SubnetVerify(device, home)
  <2>1. CASE Cont
    <3>1. pc' = "air"
      BY <1>1, <1>4, <2>1
    <3> QED
      BY <1>2, <2>1, <3>1
  <2>2. CASE ~Cont
    <3>1. pc' = IF SubnetVerify(device, home) THEN "listened" ELSE "error"
      BY <1>1, <1>4, <1>6, <2>2
    <3>2. CASE SubnetVerify(device, home)
      <4>1. pc' = "listened"
        BY <3>1, <3>2
      <4> QED
        BY <1>2, <2>2, <3>2, <4>1
    <3>3. CASE ~SubnetVerify(device, home)
      <4>1. pc' = "error"
        BY <3>1, <3>3
      <4> QED
        BY <1>2, <2>2, <3>3, <4>1
    <3> QED
      BY <3>2, <3>3
  <2> QED
    BY <2>1, <2>2
<1>8. /\ home \in {device, 255} => pc' # "error"
      /\ home \div 16 \notin {15, device \div 16} => pc' # "listened"
  <2>1. home \in Byte /\ device \in Byte
    BY DEF TypeInv
  <2>2. /\ home \in {device, 255} => SubnetVerify(device, home)
        /\ home \div 16 \notin {15, device \div 16} => ~SubnetVerify(device, home)
    BY <2>1, SubnetTaken
  <2> QED
    BY <1>7, <2>2
<1>9. /\ pc' = "air" => filled' < pos
      /\ pc' = "listened" => filled' = pos
  BY <1>3, <1>5, <1>7
<1>10. got = SubSeq(added, 1, rpos)
  BY DEF Sound
<1> QED
  BY <1>1, <1>8, <1>9, <1>10 DEF Sound

LEMMA ReadReceived ==
    ASSUME TypeInv, SenderInv, ReadFrame, NEW start, NEW p \in Nat, AirAs(start, p),
           ~damaged => p = 0, NonEmpty, Intact(start), ReceiverInv(start)
    PROVE  ReceiverInv(start)'
<1>1. /\ pc = "air" /\ filled' = IF Over THEN (N_FRAMES + 1) % 256 ELSE filled + 1
      /\ read' = read + Len(Taken)
      /\ pc' = IF Broken THEN "error"
               ELSE IF Cont /\ ~Over THEN "air"
               ELSE IF SubnetVerify(device, rbuf'[IF Foreground THEN 2 ELSE 0])
                 THEN "listened" ELSE "error"
      /\ UNCHANGED <<pack_class, home, device, added, pos, damaged, rpos, got>>
  BY ReadFrameIs DEF configured, sender
<1>2. Genuine'
  BY <1>1 DEF ReceiverInv, Genuine
<1>3. Fits' <=> Fits
  BY <1>1 DEF Fits, Foreground
<1>4. PICK m \in 0 .. pos : read = start[m] /\ (Fits => m = filled)
  BY <1>1 DEF ReceiverInv, AtRow
<1>5. filled \in 0 .. N_FRAMES - 1 /\ filled \in Nat /\ pos \in Nat
  BY <1>1, FramesType DEF TypeInv
<1>6. /\ buf \in Buffer /\ pos \in 0 .. N_FRAMES /\ Layout(start, pack_class, buf, pos)
      /\ Len(air) = start[pos]
  BY DEF TypeInv, AirAs
<1>7. Fits /\ ~damaged => start[m] # start[pos]
  <2> SUFFICES ASSUME Fits, ~damaged PROVE start[m] # start[pos]
    OBVIOUS
  <2>1. m = filled /\ filled < pos
    BY <1>1, <1>4 DEF ReceiverInv, Sound
  <2>2. m \in 0 .. pos - 1 /\ m + 1 \in 1 .. pos /\ m + 1 \in 0 .. pos /\ (m + 1) - 1 = m
        /\ pos \in 0 .. pos
    BY <1>5, <2>1
  <2>3. LengthAs(pack_class, buf, m) >= 7
    BY <2>2, FitsRow
  <2>4. start[m + 1] = start[m] + LengthAs(pack_class, buf, m)
    BY <1>6, <2>2 DEF Layout
  <2>5. start[m + 1] <= start[pos]
    BY <1>6, <2>2, LayoutGrows
  <2>6. LengthAs(pack_class, buf, m) \in 0 .. 255
    <3>1. m \in 0 .. N_FRAMES - 1
      BY <1>5, <2>1
    <3> QED
      BY <1>6, <3>1, LengthAsType
  <2>7. start[m] \in Nat /\ start[m + 1] \in Nat /\ start[pos] \in Nat
    BY <1>6, <2>2 DEF Layout
  <2> DEFINE length == LengthAs(pack_class, buf, m)
  <2>8. length \in Int /\ length >= 7
    BY <2>3, <2>6
  <2> HIDE DEF length
  <2> QED
    BY <2>4, <2>5, <2>7, <2>8 DEF length
<1>8. CASE start[m] = start[pos]
  <2>1. Broken
    <3>1. /\ Rest \in Seq(Byte) /\ Len(Rest) = Len(air) - read
      BY RestType DEF TypeInv
    <3>2. Len(Rest) = 0
      BY <1>4, <1>6, <1>8, <3>1 DEF TypeInv
    <3>3. Size = 7
      BY <3>1, <3>2 DEF Size, BG_CRC_SIZE
    <3>4. Len(Rest) < Size
      BY <3>2, <3>3
    <3> QED
      BY <3>4, Zenon DEF Broken
  <2>2. pc' = "error"
    BY <1>1, <2>1
  <2>3. Sound'
    BY <1>1, <1>3, <1>7, <1>8 DEF Sound
  <2> QED
    BY <1>2, <2>2, <2>3 DEF ReceiverInv, RowsRead, AtRow
<1>9. CASE start[m] # start[pos]
  <2>1. PICK w \in 0 .. pos - 1 :
              /\ Ahead(p, w) /\ start[w + 1] = read + Size
              /\ m < pos /\ (LengthAs(pack_class, buf, m) > 0 => w = m)
    BY <1>4, <1>9, RowAhead
  <2>2. added[w + 1] # <<>>
    <3>1. w + 1 \in DOMAIN added
      BY <1>5 DEF TypeInv
    <3> QED
      BY <3>1 DEF NonEmpty
  <2>3. Fits => w = filled
    <3> SUFFICES ASSUME Fits PROVE w = filled
      OBVIOUS
    <3>1. m \in 0 .. pos - 1
      BY <1>5, <2>1
    <3>2. LengthAs(pack_class, buf, m) >= 7
      BY <3>1, FitsRow
    <3>3. LengthAs(pack_class, buf, m) \in 0 .. 255
      <4>1. m \in 0 .. N_FRAMES - 1
        BY <1>6, <3>1, FramesType
      <4> QED
        BY <1>6, <4>1, LengthAsType
    <3>4. LengthAs(pack_class, buf, m) > 0
      BY <3>2, <3>3
    <3> QED
      BY <1>4, <2>1, <3>4
  <2>4. CASE Broken
    <3>1. ~Fits
      BY <2>1, <2>4, FitsWhole
    <3>2. pc' = "error"
      BY <1>1, <2>4
    <3>3. Sound'
      BY <1>3, <3>1 DEF Sound
    <3> QED
      BY <1>2, <3>2, <3>3 DEF ReceiverInv, RowsRead, AtRow
  <2>5. CASE ~Broken
    <3>1. RowsRead
      BY DEF ReceiverInv
    <3>2. \A f \in 0 .. filled : CopiedRow(f)'
      BY <2>1, <2>2, <2>3, <2>5, <3>1, ReadCopied
    <3>3. RowsRead'
      <4> SUFFICES ASSUME NEW f \in 0 .. N_FRAMES - 1, f < filled' PROVE CopiedRow(f)'
        BY DEF RowsRead
      <4>1. CASE Over
        <5>1. filled + 1 = N_FRAMES
          BY <4>1, Zenon DEF Over
        <5>2. f \in 0 .. filled
          BY <1>5, <5>1
        <5> QED
          BY <3>2, <5>2
      <4>2. CASE ~Over
        <5>1. f < filled + 1
          BY <1>1, <4>2
        <5>2. f \in 0 .. filled
          BY <1>5, <5>1
        <5> QED
          BY <3>2, <5>2
      <4> QED
        BY <4>1, <4>2
    <3>4. AtRow(start)'
      <4> SUFFICES ASSUME pc' = "air"
                   PROVE  \E k \in 0 .. pos' : read' = start[k] /\ (Fits' => k = filled')
        BY DEF AtRow
      <4>1. ~Over
        BY <1>1, <2>5
      <4>2. filled' = filled + 1
        BY <1>1, <4>1
      <4>3. Len(Taken) = Size
        BY <2>1, <2>2, <2>5, AheadWhole
      <4>4. read' = start[w + 1] /\ w + 1 \in 0 .. pos'
        BY <1>1, <1>5, <2>1, <4>3
      <4>5. Fits' => w + 1 = filled'
        BY <1>3, <2>3, <4>2
      <4> QED
        BY <4>4, <4>5
    <3>5. Sound'
      <4>1. CASE Fits /\ ~damaged
        <5>1. 0 \in 0 .. filled /\ p = 0 /\ w = filled
          BY <1>5, <2>3, <4>1
        <5>2. CopiedRow(0)'
          BY <3>2, <5>1
        <5>3. Sound /\ Ahead(0, w)
          BY <2>1, <5>1 DEF ReceiverInv
        <5> QED
          BY <2>2, <2>5, <4>1, <5>1, <5>2, <5>3, ReadSound
      <4>2. CASE ~(Fits /\ ~damaged)
        BY <1>1, <1>3, <4>2 DEF Sound
      <4> QED
        BY <4>1, <4>2
    <3> QED
      BY <1>2, <3>3, <3>4, <3>5 DEF ReceiverInv
  <2> QED
    BY <2>4, <2>5
<1> QED
  BY <1>8, <1>9

LEMMA ReadFrameAir ==
    ASSUME PacketInv, ReadFrame
    PROVE  AirInv'
<1>1. TypeInv /\ SenderInv /\ AirInv
  BY DEF PacketInv
<1>2. pc = "air" /\ UNCHANGED <<pack_class, added, buf, pos, air, damaged>>
  BY ReadFrameIs DEF configured, sender
<1>3. PICK start, p : Received(start, p)
  BY <1>1, <1>2 DEF AirInv
<1>4. AirAs(start, p)' /\ (Intact(start)' <=> Intact(start)) /\ (NonEmpty' <=> NonEmpty)
  BY <1>2, <1>3 DEF Received, AirAs, Intact, NonEmpty, Foreground
<1>5. NonEmpty /\ Intact(start) => ReceiverInv(start)'
  BY <1>1, <1>3, ReadReceived DEF Received
<1>6. Received(start, p)'
  BY <1>2, <1>3, <1>4, <1>5 DEF Received
<1> QED
  BY <1>6 DEF AirInv

\* A frame that is taken out was added.
LEMMA GetReceived ==
    ASSUME TypeInv, SenderInv, GotInv, GetFrame, NEW start, ReceiverInv(start)
    PROVE  ReceiverInv(start)'
<1>1. /\ pc = "listened" /\ rpos < filled /\ rpos < N_FRAMES
      /\ got' = IF Crc(FrameBytes) = CrcGiven THEN Append(got, FrameGot) ELSE got
      /\ rpos' = rpos + 1
      /\ UNCHANGED <<pc, pack_class, home, device, added, pos, damaged, rbuf, filled, read>>
  BY GetFrameIs DEF configured, sender
<1>2. rpos \in 0 .. N_FRAMES - 1 /\ rpos \in Nat /\ rpos <= N_FRAMES /\ N_FRAMES \in Nat
  BY <1>1, FramesType DEF TypeInv
<1>3. Fits' <=> Fits
  BY <1>1 DEF Fits, Foreground
<1>4. RowsRead' /\ AtRow(start)'
  <2>1. ASSUME NEW f \in 0 .. N_FRAMES - 1, CopiedRow(f) PROVE CopiedRow(f)'
    <3>1. PICK m \in 0 .. pos - 1, q \in Int :
              Copied(f, m, q) /\ (Fits => m = f) /\ (~damaged => q = 0)
      BY <2>1 DEF CopiedRow
    <3>2. Copied(f, m, q)'
      BY <1>1, <3>1 DEF Copied, Foreground
    <3> QED
      BY <1>1, <1>3, <3>1, <3>2 DEF CopiedRow
  <2>2. RowsRead'
    BY <1>1, <2>1 DEF ReceiverInv, RowsRead
  <2>3. AtRow(start)'
    BY <1>1, <1>3 DEF ReceiverInv, AtRow
  <2> QED
    BY <2>2, <2>3
<1>5. PICK m \in 0 .. pos - 1, q \in Int :
          Copied(rpos, m, q) /\ (Fits => m = rpos) /\ (~damaged => q = 0)
  BY <1>1, <1>2 DEF ReceiverInv, RowsRead, CopiedRow
<1>6. /\ m + 1 \in DOMAIN added
      /\ Crc(FrameBytes) = CrcGiven => FrameGot = added[m + 1]
      /\ q = 0 => Crc(FrameBytes) = CrcGiven
  BY <1>2, <1>5, DecodeRow
<1>7. got \in Seq(Seq(Int)) /\ FrameGot \in Seq(Int)
  BY <1>2, FrameOut DEF GotInv, FrameGot, FrameBytes, FrameEnd
<1>8. got' = got \/ got' = Append(got, added[m + 1])
  BY <1>1, <1>6
<1>9. Genuine'
  <2> SUFFICES ASSUME NEW i \in DOMAIN got'
               PROVE  \E j \in DOMAIN added : got'[i] = added[j]
    BY <1>1 DEF Genuine
  <2>1. \A k \in DOMAIN got : \E j \in DOMAIN added : got[k] = added[j]
    BY <1>2 DEF ReceiverInv, Genuine
  <2>2. CASE got' = got
    BY <2>1, <2>2
  <2>3. CASE got' = Append(got, added[m + 1])
    <3>1. (i \in DOMAIN got /\ got'[i] = got[i]) \/ got'[i] = added[m + 1]
      BY <1>7, <2>3
    <3> QED
      BY <1>6, <2>1, <3>1
  <2> QED
    BY <1>8, <2>2, <2>3
<1>10. Sound'
  <2>1. CASE Fits /\ ~damaged
    <3>1. got = SubSeq(added, 1, rpos) /\ filled = pos
      BY <1>1, <2>1 DEF ReceiverInv, Sound
    <3>2. got' = Append(got, added[rpos + 1])
      BY <1>1, <1>5, <1>6, <2>1
    <3>3. added \in Seq(Seq(Byte)) /\ rpos + 1 \in 1 .. Len(added)
      BY <1>1, <1>2, <3>1 DEF TypeInv
    <3>4. Append(SubSeq(added, 1, rpos), added[rpos + 1]) = SubSeq(added, 1, rpos + 1)
      BY <1>2, <3>3
    <3>5. got' = SubSeq(added, 1, rpos')
      BY <1>1, <3>1, <3>2, <3>4
    <3> QED
      BY <1>1, <1>3, <2>1, <3>5 DEF ReceiverInv, Sound
  <2>2. CASE ~(Fits /\ ~damaged)
    BY <1>1, <1>3, <2>2 DEF Sound
  <2> QED
    BY <2>1, <2>2
<1> QED
  BY <1>4, <1>9, <1>10 DEF ReceiverInv

\* Only more rows than the buffer has are read behind it.
LEMMA BeyondReceived ==
    ASSUME TypeInv, GetBeyond, NEW start, ReceiverInv(start)
    PROVE  ReceiverInv(start)'
<1>1. /\ pc = "listened" /\ rpos = N_FRAMES /\ rpos < filled /\ rpos' = rpos + 1
      /\ UNCHANGED <<pc, pack_class, home, device, added, pos, damaged, rbuf, filled, read>>
  BY DEF GetBeyond, configured, sender
<1>2. Fits' <=> Fits
  BY <1>1 DEF Fits, Foreground
<1>3. RowsRead' /\ AtRow(start)'
  <2>1. ASSUME NEW f \in 0 .. N_FRAMES - 1, CopiedRow(f) PROVE CopiedRow(f)'
    <3>1. PICK m \in 0 .. pos - 1, q \in Int :
              Copied(f, m, q) /\ (Fits => m = f) /\ (~damaged => q = 0)
      BY <2>1 DEF CopiedRow
    <3>2. Copied(f, m, q)'
      BY <1>1, <3>1 DEF Copied, Foreground
    <3> QED
      BY <1>1, <1>2, <3>1, <3>2 DEF CopiedRow
  <2>2. RowsRead'
    BY <1>1, <2>1 DEF ReceiverInv, RowsRead
  <2>3. AtRow(start)'
    BY <1>1, <1>2 DEF ReceiverInv, AtRow
  <2> QED
    BY <2>2, <2>3
<1>4. Genuine'
  BY <1>1, FramesType DEF Genuine
<1>5. ~(Fits /\ ~damaged)
  <2>1. Fits /\ ~damaged => filled = pos
    BY <1>1 DEF ReceiverInv, Sound
  <2>2. filled # pos
    BY <1>1, FramesType DEF TypeInv
  <2> QED
    BY <2>1, <2>2
<1>6. Sound'
  BY <1>1, <1>2, <1>5 DEF Sound
<1> QED
  BY <1>3, <1>4, <1>6 DEF ReceiverInv

LEMMA GetAir ==
    ASSUME PacketInv, GetFrame \/ GetBeyond
    PROVE  AirInv'
<1>1. TypeInv /\ SenderInv /\ GotInv /\ AirInv
  BY DEF PacketInv
<1>2. pc = "listened" /\ UNCHANGED <<pack_class, added, buf, pos, air, damaged>>
  BY DEF GetFrame, GetBeyond, configured, sender
<1>3. PICK start, p : Received(start, p)
  BY <1>1, <1>2 DEF AirInv
<1>4. AirAs(start, p)' /\ (Intact(start)' <=> Intact(start)) /\ (NonEmpty' <=> NonEmpty)
  BY <1>2, <1>3 DEF Received, AirAs, Intact, NonEmpty, Foreground
<1>5. NonEmpty /\ Intact(start) => ReceiverInv(start)'
  BY <1>1, <1>3, GetReceived, BeyondReceived DEF Received
<1>6. Received(start, p)'
  BY <1>2, <1>3, <1>4, <1>5 DEF Received
<1> QED
  BY <1>6 DEF AirInv

\* An undamaged packet is intact.
LEMMA SentIntact ==
    ASSUME TypeInv, NEW start, AirAs(start, 0)
    PROVE  Intact(start)
<1> SUFFICES ASSUME Foreground, NEW i \in 0 .. pos - 1, buf[Row(i)] # 0
             PROVE  Xor[air[start[i] + 1]][Noise(start[i] + 1)] = buf[Row(i)]
  BY DEF Intact
<1>1. i \in 0 .. N_FRAMES - 1 /\ i \in 0 .. pos /\ pos \in 0 .. N_FRAMES /\ buf \in Buffer
  BY FramesType DEF TypeInv
<1>2. LengthAs(pack_class, buf, i) \in 0 .. 255
  BY <1>1, LengthAsType
<1>3. LengthAs(pack_class, buf, i) = buf[Row(i)]
  BY DEF LengthAs, Foreground
<1>4. 1 \in 1 .. LengthAs(pack_class, buf, i)
  BY <1>2, <1>3
<1>5. start[i] \in Nat
  BY <1>1 DEF AirAs, Layout
<1>6. start[i] + 1 # 0
  BY <1>5
<1>7. Xor[air[start[i] + 1]][Noise(start[i] + 1)] = buf[(Row(i) + 1) - 1]
  BY <1>4, <1>6 DEF AirAs
<1>8. (Row(i) + 1) - 1 = Row(i)
  BY <1>1, RowPlace
<1> QED
  BY <1>7, <1>8

LEMMA DamageAir ==
    ASSUME PacketInv, Damage
    PROVE  AirInv'
<1>1. TypeInv /\ AirInv
  BY DEF PacketInv
<1>2. PICK i \in Places \cap DOMAIN air, mask \in Masks : air' = [air EXCEPT ![i] = Xor[@][mask]]
  BY DEF Damage
<1>3. /\ pc = "air" /\ pc' = "air" /\ ~damaged /\ damaged'
      /\ UNCHANGED <<pack_class, home, device, buf, pos, added, rbuf, rpos, filled, read, got>>
  BY DEF Damage, configured, sender, receiver
<1>4. PICK start, p : Received(start, p)
  BY <1>1, <1>3 DEF AirInv
<1>5. AirAs(start, 0)
  BY <1>3, <1>4 DEF Received
<1>6. air \in Seq(Byte) /\ i \in 1 .. Len(air) /\ i \in Nat
  <2>1. air \in Seq(Byte)
    BY <1>1 DEF TypeInv
  <2>2. i \in DOMAIN air
    BY <1>2
  <2> QED
    BY <2>1, <2>2
<1>7. Len(air') = Len(air) /\ \A k \in 1 .. Len(air) : k # i => air'[k] = air[k]
  BY <1>2, <1>6
<1>8. AirAs(start, i)'
  <2>1. Layout(start, pack_class, buf, pos)' /\ Len(air') = start[pos']
    BY <1>3, <1>5, <1>7 DEF AirAs, Layout, LengthAs, Row
  <2>2. ASSUME NEW j \in 0 .. pos - 1, NEW k \in 1 .. LengthAs(pack_class, buf, j), start[j] + k # i
        PROVE  Xor[air'[start[j] + k]][Noise(start[j] + k)] = buf[(Row(j) + k) - 1]
    <3>1. /\ j + 1 \in 1 .. pos /\ j + 1 \in 0 .. pos /\ pos \in 0 .. pos /\ (j + 1) - 1 = j
          /\ j \in 0 .. N_FRAMES - 1 /\ j \in 0 .. pos /\ pos \in 0 .. N_FRAMES /\ buf \in Buffer
      BY <1>1, FramesType DEF TypeInv
    <3>2. start[j + 1] = start[j] + LengthAs(pack_class, buf, j)
      BY <1>5, <3>1 DEF AirAs, Layout
    <3>3. start[j + 1] <= start[pos] /\ start[pos] = Len(air)
      BY <1>5, <3>1, LayoutGrows DEF AirAs
    <3>4. LengthAs(pack_class, buf, j) \in 0 .. 255
      BY <3>1, LengthAsType
    <3>5. start[j] \in Nat /\ start[j + 1] \in Nat /\ start[pos] \in Nat
      BY <1>5, <3>1 DEF AirAs, Layout
    <3> DEFINE n == Len(air)
               length == LengthAs(pack_class, buf, j)
    <3>10. /\ start[j + 1] = start[j] + length /\ start[j + 1] <= start[pos] /\ start[pos] = n
           /\ length \in 0 .. 255 /\ k \in 1 .. length
      BY <3>2, <3>3, <3>4
    <3> HIDE DEF n, length
    <3>11. start[j] + k \in 1 .. n /\ start[j] + k # 0
      BY <3>5, <3>10
    <3>6. start[j] + k \in 1 .. Len(air) /\ start[j] + k # 0
      BY <3>11 DEF n
    <3>7. air'[start[j] + k] = air[start[j] + k]
      BY <1>7, <2>2, <3>6
    <3>8. Xor[air[start[j] + k]][Noise(start[j] + k)] = buf[(Row(j) + k) - 1]
      BY <1>5, <3>6 DEF AirAs
    <3> QED
      BY <3>7, <3>8
  <2> QED
    BY <1>3, <2>1, <2>2 DEF AirAs
<1>9. Intact(start)
  BY <1>1, <1>5, SentIntact
<1>10. (NonEmpty' <=> NonEmpty) /\ (Fits' <=> Fits)
  BY <1>3, FitsUnchanged
<1>11. NonEmpty' => ReceiverInv(start)'
  <2> SUFFICES ASSUME ReceiverInv(start) PROVE ReceiverInv(start)'
    BY <1>4, <1>9, <1>10 DEF Received
  <2>1. RowsRead'
    <3>1. ASSUME NEW f \in 0 .. N_FRAMES - 1, CopiedRow(f) PROVE CopiedRow(f)'
      <4>1. PICK m \in 0 .. pos - 1, q \in Int : Copied(f, m, q) /\ (Fits => m = f)
        BY <3>1 DEF CopiedRow
      <4>2. Copied(f, m, q)'
        BY <1>3, <4>1 DEF Copied, Foreground
      <4> QED
        BY <1>3, <1>10, <4>1, <4>2 DEF CopiedRow
    <3> QED
      BY <1>3, <3>1 DEF ReceiverInv, RowsRead
  <2>2. AtRow(start)'
    BY <1>3, <1>10 DEF ReceiverInv, AtRow
  <2>3. Sound' /\ Genuine'
    BY <1>3 DEF ReceiverInv, Sound, Genuine
  <2> QED
    BY <2>1, <2>2, <2>3 DEF ReceiverInv
<1>12. Received(start, i)'
  BY <1>3, <1>6, <1>8, <1>11 DEF Received
<1> QED
  BY <1>12 DEF AirInv

LEMMA PacketStep ==
    ASSUME PacketInv, [Next]_vars
    PROVE  PacketInv'
<1>1. TypeInv' /\ SenderInv' /\ GotInv'
  BY TypeStep, SenderStep, GotStep DEF PacketInv
<1>2. AirInv'
  <2>1. CASE FrameStart \/ AddrCtlSet \/ SetPayload \/ Write \/ BgSet
               \/ \E type \in {"source", "target"} : SetAddr(type)
    <3>1. pc' \notin {"air", "listened", "error"}
      BY <2>1 DEF FrameStart, AddrCtlSet, SetPayload, Write, BgSet, SetAddr
    <3> QED
      BY <3>1 DEF AirInv
  <2>2. CASE AddFrame \/ Another
    <3>1. pc' \notin {"air", "listened", "error"}
      BY <2>2 DEF AddFrame, Another
    <3> QED
      BY <3>1 DEF AirInv
  <2>3. CASE SendPacket
    BY <2>3, SendPacketAir
  <2>4. CASE Damage
    BY <2>4, DamageAir
  <2>5. CASE ReadFrame
    BY <2>5, ReadFrameAir
  <2>6. CASE GetFrame \/ GetBeyond
    BY <2>6, GetAir
  <2>7. CASE UNCHANGED vars
    <3>1. UNCHANGED <<pc, pack_class, home, device, buf, pos, added, air, damaged>>
          /\ UNCHANGED <<rbuf, rpos, filled, read, got>>
      BY <2>7 DEF vars, configured, sender, receiver
    <3>2. \A start, p : Received(start, p)' <=> Received(start, p)
      BY <3>1 DEF Received, ReceiverInv, RowsRead, AtRow, Sound, Genuine, CopiedRow, Copied,
                  AirAs, Layout, LengthAs, Row, Intact, NonEmpty, Fits, Foreground
    <3> QED
      BY <3>1, <3>2 DEF PacketInv, AirInv
  <2> QED
    BY <2>1, <2>2, <2>3, <2>4, <2>5, <2>6, <2>7 DEF Next
<1> QED
  BY <1>1, <1>2 DEF PacketInv

\* The lengths are read as they were sent.
LEMMA LengthsIntact ==
    ASSUME TypeInv, NEW start, NEW p, AirAs(start, p), LengthsArrive
    PROVE  Intact(start)
<1> SUFFICES ASSUME Foreground, NEW i \in 0 .. pos - 1, buf[Row(i)] # 0
             PROVE  Xor[air[start[i] + 1]][Noise(start[i] + 1)] = buf[Row(i)]
  BY DEF Intact
<1>1. /\ i + 1 \in 1 .. pos /\ i + 1 \in 0 .. pos /\ pos \in 0 .. pos /\ (i + 1) - 1 = i
      /\ i \in 0 .. N_FRAMES - 1 /\ i \in 0 .. pos /\ pos \in 0 .. N_FRAMES /\ buf \in Buffer
      /\ pos \in Nat
  BY FramesType DEF TypeInv
<1>2. Layout(start, pack_class, buf, pos) /\ Len(air) = start[pos]
  BY DEF AirAs
<1>3. LengthAs(pack_class, buf, i) \in 0 .. 255 /\ LengthAs(pack_class, buf, i) = buf[Row(i)]
  BY <1>1, LengthAsType DEF LengthAs, Foreground
<1>4. 1 \in 1 .. LengthAs(pack_class, buf, i)
  BY <1>3
<1>5. start[i + 1] = start[i] + LengthAs(pack_class, buf, i) /\ start[i + 1] <= start[pos]
  BY <1>1, <1>2, LayoutGrows DEF Layout
<1>6. start[i] \in Nat /\ start[i + 1] \in Nat /\ start[pos] \in Nat
  BY <1>1, <1>2 DEF Layout
<1>7. start[i] + 1 \in 1 .. Len(air)
  <2> DEFINE n == Len(air)
             length == LengthAs(pack_class, buf, i)
  <2>1. /\ start[i + 1] = start[i] + length /\ start[i + 1] <= start[pos] /\ start[pos] = n
        /\ length \in 0 .. 255 /\ 1 \in 1 .. length
    BY <1>2, <1>3, <1>4, <1>5
  <2> HIDE DEF n, length
  <2>2. start[i] + 1 \in 1 .. n
    BY <1>6, <2>1
  <2> QED
    BY <2>2 DEF n
<1>8. air \in Seq(Byte) /\ DOMAIN air = 1 .. Len(air)
  BY DEF TypeInv
<1>9. /\ Layout(SentLengths, pack_class, buf, pos)
      /\ \A k \in 1 .. LengthAs(pack_class, buf, i) :
            Xor[Packet[SentLengths[i] + k]][Noise(SentLengths[i] + k)] = buf[(Row(i) + k) - 1]
  BY <1>1, PacketLayout
<1>10. start[i] = SentLengths[i]
  BY <1>1, <1>2, <1>9, LayoutUnique
<1>11. SentLengths[i] = Len(Sent[i])
  BY <1>1 DEF SentLengths
<1>12. air[start[i] + 1] = Packet[start[i] + 1]
  BY <1>7, <1>8, <1>10, <1>11 DEF LengthsArrive
<1>13. Xor[Packet[start[i] + 1]][Noise(start[i] + 1)] = buf[(Row(i) + 1) - 1]
  BY <1>4, <1>9, <1>10
<1>14. (Row(i) + 1) - 1 = Row(i)
  BY <1>1, RowPlace
<1> QED
  BY <1>12, <1>13, <1>14

\* Every frame of an undamaged packet is taken out as it was added, and of one
\* with a damaged byte no frame that was not added, as long as the byte is not
\* the length of a frame (phy.c:322-500).
THEOREM PacketsDecode == Spec => []PacketDecodes
<1>1. ASSUME PacketInv PROVE PacketDecodes
  <2>1. TypeInv /\ GotInv /\ AirInv
    BY <1>1 DEF PacketInv
  <2>2. CASE pc \notin {"air", "listened", "error"}
    <3>1. got = <<>> /\ DOMAIN got = {}
      BY <2>1, <2>2 DEF GotInv
    <3> QED
      BY <2>2, <3>1 DEF PacketDecodes, Finished
  <2>3. CASE pc \in {"air", "listened", "error"}
    <3>1. PICK start, p : Received(start, p)
      BY <2>1, <2>3 DEF AirInv
    <3>2. (damaged => LengthsArrive) => Intact(start)
      <4>1. CASE ~damaged
        BY <2>1, <3>1, <4>1, SentIntact DEF Received
      <4>2. CASE LengthsArrive
        BY <2>1, <3>1, <4>2, LengthsIntact DEF Received
      <4> QED
        BY <4>1, <4>2
    <3>3. NonEmpty /\ (damaged => LengthsArrive) => ReceiverInv(start)
      BY <3>1, <3>2 DEF Received
    <3>4. NonEmpty /\ rpos <= N_FRAMES /\ (damaged => LengthsArrive) =>
              \A i \in DOMAIN got : \E j \in DOMAIN added : got[i] = added[j]
      BY <3>3 DEF ReceiverInv, Genuine
    <3>5. Fits => NonEmpty
      <4> SUFFICES ASSUME Fits, NEW j \in DOMAIN added, added[j] = <<>> PROVE FALSE
        BY DEF NonEmpty
      <4>1. Len(added[j]) \in (IF Foreground THEN 6 ELSE 5) .. 253 /\ Len(added[j]) = 0
        BY DEF Fits
      <4> QED
        BY <4>1
    <3>6. ASSUME Finished, ~damaged, Fits
          PROVE  /\ home \in {device, 255} => got = added
                 /\ home \div 16 \notin {15, device \div 16} => got = <<>>
      <4>1. Sound
        BY <3>3, <3>5, <3>6 DEF ReceiverInv
      <4>2. ASSUME home \in {device, 255} PROVE got = added
        <5>1. pc = "listened" /\ rpos = filled /\ filled = pos /\ got = SubSeq(added, 1, rpos)
          BY <3>6, <4>1, <4>2 DEF Sound, Finished
        <5>2. added \in Seq(Seq(Byte)) /\ Len(added) = pos
          BY <2>1 DEF TypeInv
        <5> QED
          BY <5>1, <5>2
      <4>3. ASSUME home \div 16 \notin {15, device \div 16} PROVE got = <<>>
        <5>1. pc # "listened"
          BY <3>6, <4>1, <4>3 DEF Sound
        <5> QED
          BY <2>1, <5>1 DEF GotInv
      <4> QED
        BY <4>2, <4>3
    <3> QED
      BY <3>4, <3>6 DEF PacketDecodes, NonEmpty
  <2> QED
    BY <2>2, <2>3
<1>2. Init => PacketInv
  BY PacketInit
<1>3. PacketInv /\ [Next]_vars => PacketInv'
  BY PacketStep
<1> QED
  BY <1>1, <1>2, <1>3, PTL DEF Spec

=============================================================================
